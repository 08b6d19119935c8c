--------------------------- MODULE FairQueueProofs ---------------------------
(***************************************************************************)
(* Theorems about FairQueue and how fair it is (FairQueueShare), for any   *)
(* tenants, items and offered weights.                                     *)
(***************************************************************************)
EXTENDS FairQueueShare, FairQueueOpsProofs

\* The invariant the others follow from: between the passes of pop() as well
\* as between calls the queue is good, and it is within its capacity.
QueueInv ==
    /\ GoodQueue(q, Keys, Items)
    /\ pc \in {"idle", "popping"}
    /\ reply \in Replies
    /\ Ln(q) =< Capacity

LEMMA InitQueueInv == Init => QueueInv
<1> SUFFICES ASSUME Init PROVE QueueInv
  OBVIOUS
<1>1. GoodQueue(q, Keys, Items)
  BY EmptyIsGood DEF Init
<1>2. Ln(q) =< Capacity
  BY QueueAssumption DEF Init, EmptyQueue, Ln
<1> QED
  BY <1>1, <1>2 DEF Init, QueueInv, Replies

LEMMA NextQueueInv == QueueInv /\ [Next]_vars => QueueInv'
<1> SUFFICES ASSUME QueueInv, [Next]_vars PROVE QueueInv'
  OBVIOUS
<1>1. GoodQueue(q, Keys, Items) /\ Ln(q) \in Nat /\ Capacity \in Nat
  BY QueueAssumption DEF QueueInv, GoodQueue, Typed
<1>2. ASSUME NEW k \in Keys, NEW i \in Items, NEW w \in Offered[k], Push(k, w, i)
      PROVE  QueueInv'
  <2>1. w \in Nat \ {0}
    BY <1>2, OfferedAssumption
  <2>2. GoodQueue(q', Keys, Items) /\ QueuedItems(q') = QueuedItems(q) \cup {i}
    BY <1>1, <1>2, <2>1, PushIsGood DEF Push
  <2>3. Ln(q') =< Capacity
    <3>1. Ln(q') = Cardinality(QueuedItems(q')) /\ Ln(q) = Cardinality(QueuedItems(q))
      BY <1>1, <2>2 DEF GoodQueue, Counted
    <3>2. Cardinality(QueuedItems(q')) = Cardinality(QueuedItems(q)) + 1
      BY <1>1, <1>2, <2>2, FS_AddElement DEF GoodQueue, Counted, Push
    <3>3. Ln(q) < Capacity
      BY <1>1, <1>2 DEF Push, IsFull, Ln
    <3> QED
      BY <1>1, <3>1, <3>2, <3>3
  <2>4. pc' = pc /\ reply' \in Replies
    BY <1>2 DEF Push, Replies
  <2> QED
    BY <2>2, <2>3, <2>4 DEF QueueInv
<1>3. ASSUME NEW i \in Items, PushFull(i) PROVE QueueInv'
  BY <1>3 DEF PushFull, QueueInv, Replies
<1>4. CASE BeginPop
  BY <1>4 DEF BeginPop, QueueInv
<1>5. CASE PopEmpty
  BY <1>5 DEF PopEmpty, QueueInv, Replies
<1>6. CASE PopServe
  <2>1. /\ GoodQueue(q', Keys, Items) /\ FrontItem(q) \in QueuedItems(q)
        /\ QueuedItems(q') = QueuedItems(q) \ {FrontItem(q)}
    BY <1>1, <1>6, ServeIsGood DEF PopServe
  <2>2. Ln(q') =< Capacity
    <3>1. Ln(q') = Cardinality(QueuedItems(q')) /\ Ln(q) = Cardinality(QueuedItems(q))
      BY <1>1, <2>1 DEF GoodQueue, Counted
    <3>2. Cardinality(QueuedItems(q')) = Cardinality(QueuedItems(q)) - 1
      BY <1>1, <2>1, FS_RemoveElement DEF GoodQueue, Counted
    <3> QED
      BY <1>1, <3>1, <3>2 DEF QueueInv
  <2>3. FrontItem(q) \in Items
    <3>1. \A j \in Dom(q) : Its(q, j) \in Seq(Items)
      BY <1>1 DEF GoodQueue, Typed
    <3>2. PICK j \in Dom(q) : FrontItem(q) \in Range(Its(q, j))
      BY <2>1, QueuedIsUnion
    <3>3. Its(q, j) \in Seq(Items)
      BY <3>1, <3>2
    <3> QED
      BY <3>2, <3>3 DEF Range
  <2>4. pc' = "idle" /\ reply' \in Replies
    BY <1>6, <2>3 DEF PopServe, Replies
  <2> QED
    BY <2>1, <2>2, <2>4 DEF QueueInv
<1>7. CASE PopPass
  <2>1. GoodQueue(q', Keys, Items)
    BY <1>1, <1>7, PassIsGood DEF PopPass
  <2>2. Ln(q') = Ln(q)
    BY <1>7 DEF PopPass, PassOn, Ln
  <2> QED
    BY <1>7, <2>1, <2>2 DEF PopPass, QueueInv
<1>8. CASE UNCHANGED vars
  BY <1>8 DEF vars, QueueInv
<1> QED
  BY <1>2, <1>3, <1>4, <1>5, <1>6, <1>7, <1>8 DEF Next

LEMMA QueueInvHolds == Spec => []QueueInv
BY InitQueueInv, NextQueueInv, PTL DEF Spec

\* The types of the queue and of what its calls return.
THEOREM TypeCorrect == Spec => []TypeOK
<1>1. QueueInv => TypeOK
  BY GoodIsQueue DEF QueueInv, TypeOK
<1> QED
  BY <1>1, QueueInvHolds, PTL

\* The rotation names exactly the tenants with work, each once, and credit
\* worth a dispatch is only held by the tenant whose turn it is.
THEOREM QueueStaysWellFormed == Spec => []QueueWellFormed
<1>1. QueueInv => QueueWellFormed
  BY GoodIsQueue DEF QueueInv, QueueWellFormed
<1> QED
  BY <1>1, QueueInvHolds, PTL

\* `len` is the number of items waiting, and stays within the capacity.
THEOREM LenIsCount == Spec => []LenCountsItems
<1>1. QueueInv => LenCountsItems
  BY GoodIsQueue DEF QueueInv, LenCountsItems, Ln
<1> QED
  BY <1>1, QueueInvHolds, PTL

------------------------------------------------------------------------------
(* The queue is a store of FIFOs: each of its steps is one of MultiFifo's   *)
(* or none.                                                                 *)

\* A tenant has no more items than the queue.
LEMMA LinesAreShort ==
    ASSUME QueueInv, NEW k \in Dom(q)
    PROVE  Len(Its(q, k)) \in 0 .. Capacity
<1> DEFINE s == Its(q, k)
           places == 1 .. Len(s)
           at == [n \in places |-> s[n]]
<1>1. /\ s \in Seq(Items) /\ IsInjective(s) /\ IsFiniteSet(QueuedItems(q))
      /\ Ln(q) = Cardinality(QueuedItems(q)) /\ Ln(q) =< Capacity /\ Ln(q) \in Nat
  BY DEF QueueInv, GoodQueue, Typed, Separate, Counted
<1>2. Len(s) \in Nat /\ DOMAIN s = places
  BY <1>1
<1>3. \A n \in places : s[n] \in QueuedItems(q)
  BY <1>2, QueuedIsUnion DEF Range
<1>4. \A m, n \in places : s[m] = s[n] => m = n
  BY <1>1, <1>2 DEF IsInjective
<1>5. at \in Injection(places, QueuedItems(q))
  BY <1>3, <1>4 DEF Injection, IsInjective
<1>6. Cardinality(places) =< Cardinality(QueuedItems(q))
  BY <1>1, <1>5, FS_Injection
<1>7. Cardinality(1 .. Len(s)) = Len(s)
  <2>1. Cardinality(1 .. Len(s)) = IF 1 > Len(s) THEN 0 ELSE Len(s) - 1 + 1
    BY <1>2, FS_Interval
  <2> QED
    BY <1>2, <2>1
<1> QED
  BY <1>1, <1>2, <1>6, <1>7, QueueAssumption

LEMMA SameCardinality == \A S : Store!Cardinality(S) = Cardinality(S)
BY DEF Store!Cardinality, Cardinality

\* What waits by the store's count is what `len` says.
LEMMA WaitingIsLen ==
    ASSUME QueueInv
    PROVE  Store!Waiting = Ln(q)
<1> DEFINE P == {p \in Keys \X (1 .. Capacity) : p[2] =< Len(ItemsOf(q, p[1]))}
           at == [p \in P |-> Its(q, p[1])[p[2]]]
<1>1. /\ Dom(q) \subseteq Keys /\ \A k \in Dom(q) : Its(q, k) \in Seq(Items)
      /\ Separate(q) /\ IsFiniteSet(QueuedItems(q)) /\ Ln(q) = Cardinality(QueuedItems(q))
  BY DEF QueueInv, GoodQueue, Typed, Counted
<1>2. Store!Waiting = Cardinality(P)
  <2>1. \A p \in Keys \X (1 .. Capacity) :
           [k \in Keys |-> ItemsOf(q, k)][p[1]] = ItemsOf(q, p[1])
    OBVIOUS
  <2>2. P = {p \in Keys \X (1 .. Capacity) : p[2] =< Len([k \in Keys |-> ItemsOf(q, k)][p[1]])}
    BY <2>1
  <2> QED
    BY <2>2, SameCardinality DEF Store!Waiting
<1>3. \A p \in P : /\ p = <<p[1], p[2]>> /\ p[1] \in Dom(q)
                   /\ p[2] \in 1 .. Len(Its(q, p[1]))
  <2> SUFFICES ASSUME NEW p \in P
               PROVE  /\ p = <<p[1], p[2]>> /\ p[1] \in Dom(q)
                      /\ p[2] \in 1 .. Len(Its(q, p[1]))
    OBVIOUS
  <2>1. p = <<p[1], p[2]>> /\ p[2] \in 1 .. Capacity /\ p[2] =< Len(ItemsOf(q, p[1]))
    OBVIOUS
  <2>2. p[1] \in Dom(q)
    BY <2>1, QueueAssumption DEF ItemsOf, Dom
  <2>3. ItemsOf(q, p[1]) = Its(q, p[1]) /\ Len(Its(q, p[1])) \in Nat
    BY <1>1, <2>2 DEF ItemsOf, Its, Dom
  <2> QED
    BY <2>1, <2>2, <2>3, QueueAssumption
<1>4. \A p \in P : at[p] \in Range(Its(q, p[1]))
  BY <1>1, <1>3 DEF Range
<1>5. \A p \in P : at[p] \in QueuedItems(q)
  BY <1>3, <1>4, QueuedIsUnion
<1>6. ASSUME NEW o \in P, NEW p \in P, at[o] = at[p] PROVE o = p
  <2>1. o[1] = p[1]
    BY <1>3, <1>4, <1>6, <1>1 DEF Separate
  <2>2. IsInjective(Its(q, p[1])) /\ DOMAIN Its(q, p[1]) = 1 .. Len(Its(q, p[1]))
    BY <1>1, <1>3 DEF Separate
  <2>3. o[2] = p[2]
    BY <1>3, <1>6, <2>1, <2>2 DEF IsInjective
  <2> QED
    BY <1>3, <2>1, <2>3
<1>7. ASSUME NEW i \in QueuedItems(q) PROVE \E p \in P : at[p] = i
  <2>1. PICK k \in Dom(q) : i \in Range(Its(q, k))
    BY QueuedIsUnion
  <2>2. PICK n \in 1 .. Len(Its(q, k)) : i = Its(q, k)[n]
    BY <1>1, <2>1 DEF Range
  <2>3. Len(Its(q, k)) \in 0 .. Capacity /\ ItemsOf(q, k) = Its(q, k)
    BY LinesAreShort DEF ItemsOf, Its, Dom
  <2>4. n \in 1 .. Capacity /\ k \in Keys
    BY <1>1, <2>3, QueueAssumption
  <2>5. <<k, n>> \in P
    BY <2>2, <2>3, <2>4
  <2>6. at[<<k, n>>] = i
    BY <2>2, <2>5
  <2> QED
    BY <2>5, <2>6
<1>8. at \in Injection(P, QueuedItems(q))
  BY <1>5, <1>6 DEF Injection, IsInjective
<1>9. at \in Surjection(P, QueuedItems(q))
  BY <1>5, <1>7 DEF Surjection
<1> QED
  BY <1>1, <1>2, <1>8, <1>9, FS_Injection

LEMMA InitStore == Init => Store!Init
BY DEF Init, Store!Init, EmptyQueue, ItemsOf

\* What a step does to the lines, once the parts of its queue are known.
LEMMA ServeTakesHead ==
    ASSUME QueueInv, q.active # << >>, CanServe(q), NEW p, p = Serve(q), NEW k \in Keys
    PROVE  ItemsOf(p, k) = IF k = Front(q) THEN Tail(ItemsOf(q, k)) ELSE ItemsOf(q, k)
<1>1. GoodQueue(q, Keys, Items) /\ IsShaped(q) /\ Act(q) # << >>
  BY DEF QueueInv, GoodQueue, Act
<1>2. Front(q) \in Dom(q) /\ Its(q, Front(q)) \in Seq(Items) /\ Its(q, Front(q)) # << >>
  BY <1>1, FrontFacts
<1>3. CASE Len(Its(q, Front(q))) = 1
  <2>1. p = LeaveRotation(q)
    BY <1>3 DEF Serve, Its
  <2>2. /\ IsShaped(p) /\ Dom(p) = Dom(q) \ {Front(q)} /\ Act(p) = Tail(Act(q))
        /\ Ts(p) = FALSE /\ Ln(p) = Ln(q) - 1
        /\ \A j \in Dom(p) :
              Its(p, j) = Its(q, j) /\ Wt(p, j) = Wt(q, j) /\ Dfc(p, j) = Dfc(q, j)
    BY <1>1, <2>1, LeaveParts
  <2>3. Tail(Its(q, Front(q))) = << >>
    BY <1>2, <1>3, RangeTail
  <2> QED
    BY <1>2, <2>2, <2>3 DEF ItemsOf, Dom, Its
<1>4. CASE Len(Its(q, Front(q))) # 1
  <2>1. p = SpendTurn(q)
    BY <1>4 DEF Serve, Its
  <2>2. /\ Dom(p) = Dom(q) /\ Its(p, Front(q)) = Tail(Its(q, Front(q)))
        /\ \A j \in Dom(q) : j # Front(q) => Its(p, j) = Its(q, j)
    BY <1>1, <1>2, <2>1, SpendParts
  <2> QED
    BY <1>2, <2>2 DEF ItemsOf, Dom, Its
<1> QED
  BY <1>3, <1>4

LEMMA PassKeepsLines ==
    ASSUME QueueInv, q.active # << >>, NEW p, p = PassOn(q), NEW k \in Keys
    PROVE  ItemsOf(p, k) = ItemsOf(q, k)
<1>1. GoodQueue(q, Keys, Items) /\ IsShaped(q) /\ Act(q) # << >>
  BY DEF QueueInv, GoodQueue, Act
<1>2. Front(q) \in Dom(q)
  BY <1>1, FrontFacts
<1>3. /\ Dom(p) = Dom(q) /\ Its(p, Front(q)) = Its(q, Front(q))
      /\ \A j \in Dom(q) : j # Front(q) => Its(p, j) = Its(q, j)
  BY <1>1, <1>2, PassParts
<1> QED
  BY <1>3 DEF ItemsOf, Dom, Its

LEMMA PushAppends ==
    ASSUME QueueInv, NEW k \in Keys, NEW w, NEW i, NEW p, p = PushInto(q, k, w, i),
           NEW j \in Keys
    PROVE  ItemsOf(p, j) = IF j = k THEN Append(ItemsOf(q, j), i) ELSE ItemsOf(q, j)
<1>1. IsShaped(q)
  BY DEF QueueInv, GoodQueue
<1>2. CASE k \in Dom(q)
  <2>1. p = Enqueue(q, k, i)
    BY <1>2 DEF PushInto, Dom
  <2>2. /\ Dom(p) = Dom(q) /\ Its(p, k) = Append(Its(q, k), i)
        /\ \A l \in Dom(q) : l # k => Its(p, l) = Its(q, l)
    BY <1>1, <1>2, <2>1, EnqueueParts
  <2> QED
    BY <1>2, <2>2 DEF ItemsOf, Dom, Its
<1>3. CASE k \notin Dom(q)
  <2>1. p = JoinNoCredit(q, k, w, i)
    BY <1>3 DEF PushInto, Dom
  <2>2. /\ Dom(p) = Dom(q) \cup {k} /\ Its(p, k) = <<i>>
        /\ \A l \in Dom(q) : Its(p, l) = Its(q, l)
    BY <1>1, <1>3, <2>1, JoinParts
  <2>3. Append(<< >>, i) = <<i>>
    OBVIOUS
  <2> QED
    BY <1>3, <2>2, <2>3 DEF ItemsOf, Dom, Its
<1> QED
  BY <1>2, <1>3

LEMMA NextStore == QueueInv /\ [Next]_vars => [Store!Next]_Store!vars
<1> SUFFICES ASSUME QueueInv, [Next]_vars PROVE [Store!Next]_Store!vars
  OBVIOUS
<1> DEFINE lines == [k \in Keys |-> ItemsOf(q, k)]
<1>1. /\ Store!Waiting = Ln(q) /\ Ln(q) \in Nat /\ Ln(q) =< Capacity /\ Capacity \in Nat
      /\ GoodQueue(q, Keys, Items)
  BY WaitingIsLen, QueueAssumption DEF QueueInv, GoodQueue, Typed
<1>2. ASSUME NEW k \in Keys, NEW i \in Items, NEW w \in Offered[k], Push(k, w, i)
      PROVE  Store!Accept(k, i)
  <2>1. pc # "popping" /\ pc' = pc /\ reply' = <<"pushed", i>> /\ ~IsFull(q)
    BY <1>2 DEF Push
  <2>2. Store!Waiting < Capacity
    BY <1>1, <2>1 DEF IsFull, Ln
  <2>3. \A j \in Keys : ItemsOf(q', j) = IF j = k THEN Append(lines[j], i) ELSE lines[j]
    BY <1>2, PushAppends DEF Push
  <2>4. lines' = [lines EXCEPT ![k] = Append(lines[k], i)]
    BY <2>3
  <2> QED
    BY <2>1, <2>2, <2>4 DEF Store!Accept
<1>3. ASSUME NEW i \in Items, PushFull(i) PROVE Store!Refuse(i)
  <2>1. pc # "popping" /\ reply' = <<"full", i>> /\ q' = q /\ pc' = pc /\ IsFull(q)
    BY <1>3 DEF PushFull
  <2>2. Store!Waiting = Capacity
    BY <1>1, <2>1 DEF IsFull, Ln
  <2> QED
    BY <2>1, <2>2 DEF Store!Refuse
<1>4. CASE BeginPop
  BY <1>4 DEF BeginPop, Store!Next, Store!Ask
<1>5. CASE PopEmpty
  <2>1. pc = "popping" /\ pc' = "idle" /\ reply' = <<"empty">> /\ q' = q /\ Act(q) = << >>
    BY <1>5 DEF PopEmpty, Act
  <2>2. Dom(q) = {}
    BY <1>1, <2>1 DEF GoodQueue, Rotating, Range
  <2>3. QueuedItems(q) = {}
    BY <2>2, QueuedIsUnion
  <2>4. Store!Waiting = 0
    BY <1>1, <2>3, FS_EmptySet DEF GoodQueue, Counted
  <2> QED
    BY <2>1, <2>4 DEF Store!Next, Store!Answer
<1>6. CASE PopServe
  <2> DEFINE f == Front(q)
  <2>1. /\ pc = "popping" /\ pc' = "idle" /\ reply' = <<"popped", FrontItem(q)>>
        /\ q' = Serve(q) /\ q.active # << >> /\ CanServe(q)
    BY <1>6 DEF PopServe
  <2>2. Act(q) # << >>
    BY <2>1 DEF Act
  <2>3. /\ f \in Keys /\ f \in Dom(q) /\ Its(q, f) # << >> /\ FrontItem(q) = Head(Its(q, f))
    BY <1>1, <2>2, FrontFacts
  <2>4. lines[f] = Its(q, f)
    BY <2>3 DEF ItemsOf, Its, Dom
  <2>5. \A k \in Keys : ItemsOf(q', k) = IF k = f THEN Tail(lines[k]) ELSE lines[k]
    BY <2>1, ServeTakesHead
  <2>6. lines' = [lines EXCEPT ![f] = Tail(lines[f])]
    BY <2>5
  <2>7. /\ lines[f] # << >> /\ reply' = <<"popped", Head(lines[f])>>
    BY <2>1, <2>3, <2>4
  <2> QED
    BY <2>1, <2>3, <2>6, <2>7 DEF Store!Next, Store!Answer
<1>7. CASE PopPass
  <2>1. /\ q' = PassOn(q) /\ q.active # << >> /\ pc' = pc /\ reply' = reply
    BY <1>7 DEF PopPass
  <2>2. \A k \in Keys : ItemsOf(q', k) = ItemsOf(q, k)
    BY <2>1, PassKeepsLines
  <2> QED
    BY <2>1, <2>2 DEF Store!vars
<1>8. CASE UNCHANGED vars
  BY <1>8 DEF vars, Store!vars
<1> QED
  BY <1>2, <1>3, <1>4, <1>5, <1>6, <1>7, <1>8 DEF Next, Store!Next

\* By its calls the queue is a bounded store of FIFOs, one per tenant: a pop
\* yields the head of some tenant's line, nothing only when nothing waits, and
\* a push is refused exactly when the store is full.  (What is left of
\* ImplementsMultiFifo is that pops are answered.)
THEOREM QueueStepsAreFifo == Spec => Store!Init /\ [][Store!Next]_(Store!vars)
<1>1. QueueInv /\ [Next]_vars => [Store!Next]_Store!vars
  BY NextStore
<1> QED
  BY <1>1, InitStore, QueueInvHolds, PTL DEF Spec

------------------------------------------------------------------------------
(* Why pop() ends: a pass that returns nothing pays for it.                 *)

\* The parts of credit that the tenants with work lack for a dispatch.
Lacking == {c \in Dom(q) \X (1 .. Unit) : c[2] > Dfc(q, c[1])}

LEMMA LackingIsFinite ==
    ASSUME QueueInv
    PROVE  IsFiniteSet(Lacking) /\ Cardinality(Lacking) \in Nat
<1>1. Act(q) \in Seq(Keys) /\ Range(Act(q)) = Dom(q)
  BY DEF QueueInv, GoodQueue, Typed, Rotating
<1>2. IsFiniteSet(Dom(q))
  <2> DEFINE places == 1 .. Len(Act(q))
             at == [n \in places |-> Act(q)[n]]
  <2>1. Len(Act(q)) \in Nat /\ DOMAIN Act(q) = places
    BY <1>1
  <2>2. IsFiniteSet(places)
    BY <2>1, FS_Interval
  <2>3. at \in Surjection(places, Dom(q))
    BY <1>1, <2>1 DEF Surjection, Range
  <2> QED
    BY <2>2, <2>3, FS_Surjection
<1>3. IsFiniteSet(1 .. Unit)
  BY QueueAssumption, FS_Interval
<1>4. IsFiniteSet(Dom(q) \X (1 .. Unit))
  BY <1>2, <1>3, FS_Product
<1>5. Lacking \subseteq Dom(q) \X (1 .. Unit)
  BY DEF Lacking
<1>6. IsFiniteSet(Lacking)
  BY <1>4, <1>5, FS_Subset
<1> QED
  BY <1>6, FS_CardinalityType

\* Each pass of pop() that returns nothing leaves the tenants lacking less, so
\* there are no more of them in a row than parts of credit can be lacking.
\* (What PopTerminates adds is that the loop keeps running.)
THEOREM PassesRunOut ==
    Spec => [][PopPass => Cardinality(Lacking') < Cardinality(Lacking)]_vars
<1>1. ASSUME QueueInv, QueueInv', PopPass PROVE Cardinality(Lacking') < Cardinality(Lacking)
  <2> DEFINE f == Front(q)
             c == <<f, Dfc(q, f) + 1>>
  <2>1. /\ GoodQueue(q, Keys, Items) /\ IsShaped(q) /\ Act(q) # << >>
        /\ q' = PassOn(q) /\ ~CanServe(q) /\ Unit \in Nat
    BY <1>1, QueueAssumption DEF QueueInv, GoodQueue, Act, PopPass
  <2>2. /\ f = Head(Act(q)) /\ f \in Dom(q) /\ Credit(q) \in Nat
        /\ Credit(q) = Dfc(q, f) + (IF Ts(q) THEN 0 ELSE Wt(q, f))
        /\ Dfc(q, f) \in Nat /\ Wt(q, f) \in Nat \ {0}
    BY <2>1, FrontFacts DEF GoodQueue, Typed
  <2>3. /\ Dom(q') = Dom(q) /\ Dfc(q', f) = Credit(q)
        /\ \A j \in Dom(q) : j # f => Dfc(q', j) = Dfc(q, j)
    BY <2>1, <2>2, PassParts
  <2>4. Credit(q) < Unit
    BY <2>1, <2>2 DEF CanServe
  <2>5. ~Ts(q)
    <3>1. Ts(q) => Dfc(q, f) >= Unit
      BY <2>1, <2>2 DEF GoodQueue, Paying
    <3> QED
      BY <2>1, <2>2, <2>4, <3>1
  <2>6. Credit(q) > Dfc(q, f)
    BY <2>2, <2>5
  <2>7. Lacking' \subseteq Lacking
    <3> SUFFICES ASSUME NEW x \in Dom(q) \X (1 .. Unit), x[2] > Dfc(q', x[1])
                 PROVE  x[2] > Dfc(q, x[1])
      BY <2>3 DEF Lacking
    <3>1. x[1] \in Dom(q) /\ x[2] \in Nat
      BY <2>1
    <3> QED
      BY <2>2, <2>3, <2>6, <3>1
  <2>8. c \in Lacking
    <3>1. Dfc(q, f) + 1 \in 1 .. Unit /\ Dfc(q, f) + 1 > Dfc(q, f)
      BY <2>1, <2>2, <2>4, <2>6
    <3> QED
      BY <2>2, <3>1 DEF Lacking
  <2>9. c \notin Lacking'
    <3>1. ~(Dfc(q, f) + 1 > Dfc(q', f))
      BY <2>2, <2>3, <2>6
    <3> QED
      BY <3>1 DEF Lacking
  <2>10. PICK L, M : L = Lacking /\ M = Lacking'
    OBVIOUS
  <2>11. IsFiniteSet(L) /\ Cardinality(L) \in Nat /\ M \in SUBSET L /\ M # L
    BY <1>1, <2>7, <2>8, <2>9, <2>10, LackingIsFinite
  <2>12. Cardinality(M) =< Cardinality(L) /\ Cardinality(M) # Cardinality(L) /\ Cardinality(M) \in Nat
    BY <2>11, FS_Subset, FS_CardinalityType
  <2> QED
    BY <2>10, <2>11, <2>12
<1>2. QueueInv /\ QueueInv' /\ [Next]_vars
        => [PopPass => Cardinality(Lacking') < Cardinality(Lacking)]_vars
  BY <1>1
<1> QED
  BY <1>2, QueueInvHolds, PTL DEF Spec

------------------------------------------------------------------------------
(* Who comes before whom in a rotation.                                     *)

Ahead(s, t, u) == \E m, n \in 1 .. Len(s) : m < n /\ s[m] = t /\ s[n] = u

LEMMA AheadAppend ==
    ASSUME NEW S, NEW s \in Seq(S), NEW k \in S, k \notin Range(s)
    PROVE  \A t \in Range(s) :
              /\ Ahead(Append(s, k), t, k) /\ ~Ahead(Append(s, k), k, t)
              /\ \A u \in Range(s) : Ahead(Append(s, k), t, u) <=> Ahead(s, t, u)
<1>1. /\ Len(s) \in Nat /\ Len(Append(s, k)) = Len(s) + 1
      /\ \A n \in 1 .. Len(s) : Append(s, k)[n] = s[n]
      /\ Append(s, k)[Len(s) + 1] = k
      /\ \A x : x \in Range(s) <=> \E n \in 1 .. Len(s) : s[n] = x
  BY AppendProperties, LenProperties DEF Range
<1> QED
  BY <1>1 DEF Ahead

LEMMA AheadTail ==
    ASSUME NEW S, NEW s \in Seq(S), s # << >>, IsInjective(s)
    PROVE  \A t, u \in Range(Tail(s)) :
              /\ Ahead(Tail(s), t, u) <=> Ahead(s, t, u)
              /\ Ahead(s, Head(s), u) /\ ~Ahead(s, u, Head(s))
<1>1. /\ Len(s) \in Nat \ {0} /\ Len(Tail(s)) = Len(s) - 1 /\ Head(s) = s[1]
      /\ \A n \in 1 .. Len(s) - 1 : Tail(s)[n] = s[n + 1]
      /\ \A x \in Range(Tail(s)) : \E n \in 1 .. Len(s) - 1 : s[n + 1] = x
      /\ DOMAIN s = 1 .. Len(s)
  BY HeadTailProperties, LenProperties, EmptySeq DEF Range
<1>2. \A m, n \in 1 .. Len(s) : s[m] = s[n] => m = n
  BY <1>1 DEF IsInjective
<1> SUFFICES ASSUME NEW t \in Range(Tail(s)), NEW u \in Range(Tail(s))
             PROVE  /\ Ahead(Tail(s), t, u) <=> Ahead(s, t, u)
                    /\ Ahead(s, Head(s), u) /\ ~Ahead(s, u, Head(s))
  OBVIOUS
<1>3. PICK a \in 1 .. Len(s) - 1, b \in 1 .. Len(s) - 1 : s[a + 1] = t /\ s[b + 1] = u
  BY <1>1
<1>4. a + 1 \in 1 .. Len(s) /\ b + 1 \in 1 .. Len(s) /\ 1 \in 1 .. Len(s)
  BY <1>1
<1>5. Ahead(s, t, u) <=> a < b
  BY <1>1, <1>2, <1>3, <1>4 DEF Ahead
<1>6. Ahead(Tail(s), t, u) <=> a < b
  <2>1. \A m \in 1 .. Len(s) - 1 : (Tail(s)[m] = t <=> m = a) /\ (Tail(s)[m] = u <=> m = b)
    BY <1>1, <1>2, <1>3, <1>4
  <2> QED
    BY <1>1, <1>3, <2>1 DEF Ahead
<1>7. Ahead(s, Head(s), u)
  BY <1>1, <1>3, <1>4 DEF Ahead
<1>8. ~Ahead(s, u, Head(s))
  BY <1>1, <1>2, <1>4 DEF Ahead
<1> QED
  BY <1>5, <1>6, <1>7, <1>8

LEMMA AheadRotate ==
    ASSUME NEW S, NEW s \in Seq(S), s # << >>, IsInjective(s),
           NEW t \in Range(s), NEW u \in Range(s), t # u
    PROVE  /\ t = Head(s) => Ahead(s, t, u) /\ ~Ahead(Rotate(s), t, u)
           /\ u = Head(s) => ~Ahead(s, t, u) /\ Ahead(Rotate(s), t, u)
           /\ Head(s) \notin {t, u} => (Ahead(Rotate(s), t, u) <=> Ahead(s, t, u))
<1>1. /\ Tail(s) \in Seq(S) /\ Head(s) \in S /\ Range(s) = Range(Tail(s)) \cup {Head(s)}
      /\ Head(s) \notin Range(Tail(s)) /\ Rotate(s) = Append(Tail(s), Head(s))
  BY RangeTail DEF Rotate
<1>2. \A x \in Range(Tail(s)) :
         /\ Ahead(Rotate(s), x, Head(s)) /\ ~Ahead(Rotate(s), Head(s), x)
         /\ \A y \in Range(Tail(s)) : Ahead(Rotate(s), x, y) <=> Ahead(Tail(s), x, y)
  <2>1. PICK r \in Seq(S), k \in S :
            r = Tail(s) /\ k = Head(s) /\ k \notin Range(r) /\ Rotate(s) = Append(r, k)
    BY <1>1
  <2>2. \A x \in Range(r) :
           /\ Ahead(Append(r, k), x, k) /\ ~Ahead(Append(r, k), k, x)
           /\ \A y \in Range(r) : Ahead(Append(r, k), x, y) <=> Ahead(r, x, y)
    BY <2>1, AheadAppend
  <2> QED
    BY <2>1, <2>2
<1>3. \A x, y \in Range(Tail(s)) :
         /\ Ahead(Tail(s), x, y) <=> Ahead(s, x, y)
         /\ Ahead(s, Head(s), y) /\ ~Ahead(s, y, Head(s))
  BY AheadTail
<1> QED
  BY <1>1, <1>2, <1>3

------------------------------------------------------------------------------
(* What the steps of a queue do to turns, credits and places.               *)

HasTurn(p, t) == Ts(p) /\ t = Head(Act(p))

\* Of t and u it is t that is given credit first.
IsNext(p, t, u) == ~HasTurn(p, t) /\ (HasTurn(p, u) \/ Ahead(Act(p), t, u))

\* A tenant joins the back of the rotation or is in it already.
Pushed(k, w) ==
    /\ Served = {} /\ Ts(q') = Ts(q)
    /\ \A j \in Dom(q) : Wt(q', j) = Wt(q, j) /\ Dfc(q', j) = Dfc(q, j)
    /\ \/ k \in Dom(q) /\ Dom(q') = Dom(q) /\ Act(q') = Act(q)
       \/ /\ k \notin Dom(q) /\ Dom(q') = Dom(q) \cup {k} /\ Act(q') = Append(Act(q), k)
          /\ Wt(q', k) = w /\ Dfc(q', k) = 0

LEMMA PushParts ==
    ASSUME QueueInv, NEW k \in Keys, NEW i \in Items, NEW w \in Offered[k], Push(k, w, i)
    PROVE  Pushed(k, w)
<1>1. IsShaped(q) /\ q' = PushInto(q, k, w, i) /\ Served = {}
  BY DEF QueueInv, GoodQueue, Push, Served
<1>2. CASE k \in Dom(q)
  <2>1. q' = Enqueue(q, k, i)
    BY <1>1, <1>2 DEF PushInto, Dom
  <2> QED
    BY <1>1, <1>2, <2>1, EnqueueParts DEF Pushed
<1>3. CASE k \notin Dom(q)
  <2>1. q' = JoinNoCredit(q, k, w, i)
    BY <1>1, <1>3 DEF PushInto, Dom
  <2> QED
    BY <1>1, <1>3, <2>1, JoinParts DEF Pushed
<1> QED
  BY <1>2, <1>3

\* The front tenant is dispatched or passed over, and leaves, keeps its turn or
\* goes to the back.
TurnTaken(f) ==
    /\ Act(q) # << >> /\ f = Head(Act(q)) /\ f \in Dom(q)
    /\ Served \in {{}, {f}}
    /\ \A j \in Dom(q') : j \in Dom(q) /\ Wt(q', j) = Wt(q, j)
                          /\ (j # f => Dfc(q', j) = Dfc(q, j))
    /\ f \in Dom(q') =>
          Dfc(q', f) = Dfc(q, f) + (IF Ts(q) THEN 0 ELSE Wt(q, f)) - (IF f \in Served THEN Unit ELSE 0)
    /\ \/ Ts(q') /\ Dom(q') = Dom(q) /\ Act(q') = Act(q) /\ Served = {f}
       \/ ~Ts(q') /\ Dom(q') = Dom(q) /\ Act(q') = Rotate(Act(q))
       \/ ~Ts(q') /\ Dom(q') = Dom(q) \ {f} /\ Act(q') = Tail(Act(q)) /\ Served = {f}
    /\ f \notin Served => ~Ts(q)
    /\ f \in Served => Dfc(q, f) + (IF Ts(q) THEN 0 ELSE Wt(q, f)) >= Unit

LEMMA TurnParts ==
    ASSUME QueueInv, PopServe \/ PopPass
    PROVE  TurnTaken(Front(q)) /\ (PopPass => Served = {}) /\ (PopServe => Served = {Front(q)})
<1> DEFINE f == Front(q)
<1>1. GoodQueue(q, Keys, Items) /\ IsShaped(q) /\ Act(q) # << >> /\ Paying(q)
      /\ Ln(q) \in Nat /\ Unit \in Nat \ {0}
  BY QueueAssumption DEF QueueInv, GoodQueue, Act, PopServe, PopPass, Typed
<1>2. /\ f = Head(Act(q)) /\ f \in Dom(q) /\ Credit(q) \in Nat
      /\ Credit(q) = Dfc(q, f) + (IF Ts(q) THEN 0 ELSE Wt(q, f))
      /\ Dfc(q, f) \in Nat /\ Wt(q, f) \in Nat
      /\ PopServe => Dfc(q, f) + (IF Ts(q) THEN 0 ELSE Wt(q, f)) >= Unit
  BY <1>1, FrontFacts DEF GoodQueue, Typed, PopServe, CanServe
<1>3. ASSUME PopServe, Len(Its(q, f)) = 1 PROVE TurnTaken(f) /\ Served = {f}
  <2>1. q' = LeaveRotation(q) /\ pc = "popping"
    BY <1>3 DEF PopServe, Serve, Its
  <2>2. /\ Dom(q') = Dom(q) \ {f} /\ Act(q') = Tail(Act(q)) /\ ~Ts(q') /\ Ln(q') = Ln(q) - 1
        /\ \A j \in Dom(q') : Wt(q', j) = Wt(q, j) /\ Dfc(q', j) = Dfc(q, j)
    BY <1>1, <2>1, LeaveParts
  <2>3. Served = {f}
    BY <1>1, <2>1, <2>2 DEF Served, Ln
  <2> QED
    BY <1>1, <1>2, <1>3, <2>2, <2>3 DEF TurnTaken
<1>4. ASSUME PopServe, Len(Its(q, f)) # 1 PROVE TurnTaken(f) /\ Served = {f}
  <2>1. q' = SpendTurn(q) /\ pc = "popping"
    BY <1>4 DEF PopServe, Serve, Its
  <2>2. /\ Dom(q') = Dom(q) /\ Ln(q') = Ln(q) - 1
        /\ Act(q') = IF Credit(q) - Unit < Unit THEN Rotate(Act(q)) ELSE Act(q)
        /\ Ts(q') = (Credit(q) - Unit >= Unit)
        /\ Wt(q', f) = Wt(q, f) /\ Dfc(q', f) = Credit(q) - Unit
        /\ \A j \in Dom(q) : j # f => Wt(q', j) = Wt(q, j) /\ Dfc(q', j) = Dfc(q, j)
    BY <1>1, <1>2, <2>1, SpendParts
  <2>3. Served = {f}
    BY <1>1, <2>1, <2>2 DEF Served, Ln
  <2>4. \/ Ts(q') /\ Act(q') = Act(q)
        \/ ~Ts(q') /\ Act(q') = Rotate(Act(q))
    <3>1. CASE Credit(q) - Unit >= Unit
      <4>1. ~(Credit(q) - Unit < Unit)
        BY <1>1, <1>2, <3>1
      <4> QED
        BY <2>2, <3>1, <4>1
    <3>2. CASE ~(Credit(q) - Unit >= Unit)
      <4>1. Credit(q) - Unit < Unit
        BY <1>1, <1>2, <3>2
      <4> QED
        BY <2>2, <3>2, <4>1
    <3> QED
      BY <3>1, <3>2
  <2>5. Dfc(q', f) = Dfc(q, f) + (IF Ts(q) THEN 0 ELSE Wt(q, f)) - Unit
    BY <1>1, <1>2, <2>2
  <2>6. \A j \in Dom(q') : j \in Dom(q) /\ Wt(q', j) = Wt(q, j)
                           /\ (j # f => Dfc(q', j) = Dfc(q, j))
    BY <2>2
  <2> QED
    BY <1>1, <1>2, <1>4, <2>2, <2>3, <2>4, <2>5, <2>6 DEF TurnTaken
<1>5. ASSUME PopPass PROVE TurnTaken(f) /\ Served = {}
  <2>1. q' = PassOn(q) /\ ~CanServe(q)
    BY <1>5 DEF PopPass
  <2>2. /\ Dom(q') = Dom(q) /\ Act(q') = Rotate(Act(q)) /\ ~Ts(q') /\ Ln(q') = Ln(q)
        /\ Wt(q', f) = Wt(q, f) /\ Dfc(q', f) = Credit(q)
        /\ \A j \in Dom(q) : j # f => Wt(q', j) = Wt(q, j) /\ Dfc(q', j) = Dfc(q, j)
    BY <1>1, <1>2, <2>1, PassParts
  <2>3. Served = {}
    BY <1>1, <2>2 DEF Served, Ln
  <2>4. ~Ts(q)
    <3>1. Ts(q) => Dfc(q, f) >= Unit
      BY <1>1, <1>2 DEF Paying
    <3>2. ~(Credit(q) >= Unit)
      BY <2>1 DEF CanServe
    <3> QED
      BY <1>1, <1>2, <3>1, <3>2
  <2>5. \A j \in Dom(q') : j \in Dom(q) /\ Wt(q', j) = Wt(q, j)
                           /\ (j # f => Dfc(q', j) = Dfc(q, j))
    BY <2>2
  <2>6. f \notin Served /\ Dfc(q', f) = Dfc(q, f) + (IF Ts(q) THEN 0 ELSE Wt(q, f)) - 0
    BY <1>1, <1>2, <2>2, <2>3
  <2> QED
    BY <1>1, <1>2, <2>2, <2>3, <2>4, <2>5, <2>6 DEF TurnTaken
<1>6. ~(PopServe /\ PopPass)
  BY DEF PopServe, PopPass
<1> QED
  BY <1>3, <1>4, <1>5, <1>6

\* The order of turns, before and after one is taken.
LEMMA TurnOrder ==
    ASSUME QueueInv, NEW f, TurnTaken(f), NEW t \in Dom(q), NEW u \in Dom(q), t # u
    PROVE  /\ f = t /\ ~Ts(q) => IsNext(q, t, u)
           /\ f = u => (IsNext(q, t, u) <=> Ts(q))
           /\ {t, u} \subseteq Dom(q') =>
                 /\ f = t => ~IsNext(q', t, u)
                 /\ f = u => IsNext(q', t, u)
                 /\ f \notin {t, u} => (IsNext(q', t, u) <=> IsNext(q, t, u))
<1>1. /\ Act(q) \in Seq(Keys) /\ Act(q) # << >> /\ IsInjective(Act(q)) /\ f = Head(Act(q))
      /\ Range(Act(q)) = Dom(q)
  BY DEF QueueInv, GoodQueue, Typed, Rotating, TurnTaken
<1>2. /\ t = f => Ahead(Act(q), t, u) /\ ~Ahead(Rotate(Act(q)), t, u)
      /\ u = f => ~Ahead(Act(q), t, u) /\ Ahead(Rotate(Act(q)), t, u)
      /\ f \notin {t, u} => (Ahead(Rotate(Act(q)), t, u) <=> Ahead(Act(q), t, u))
  BY <1>1, AheadRotate
<1>3. f \notin {t, u} => (Ahead(Tail(Act(q)), t, u) <=> Ahead(Act(q), t, u))
  BY <1>1, AheadTail, RangeTail
<1>4. CASE Ts(q') /\ Act(q') = Act(q)
  BY <1>1, <1>2, <1>4 DEF IsNext, HasTurn
<1>5. CASE ~Ts(q') /\ Act(q') = Rotate(Act(q))
  BY <1>1, <1>2, <1>5 DEF IsNext, HasTurn
<1>6. CASE ~Ts(q') /\ Dom(q') = Dom(q) \ {f} /\ Act(q') = Tail(Act(q))
  BY <1>1, <1>2, <1>3, <1>6 DEF IsNext, HasTurn
<1> QED
  BY <1>4, <1>5, <1>6 DEF TurnTaken

LEMMA TurnHolder ==
    ASSUME NEW f, TurnTaken(f)
    PROVE  \A x : (HasTurn(q, x) <=> Ts(q) /\ x = f) /\ (HasTurn(q', x) <=> Ts(q') /\ x = f)
BY DEF TurnTaken, HasTurn

LEMMA PushOrder ==
    ASSUME QueueInv, NEW k \in Keys, NEW w, Pushed(k, w)
    PROVE  /\ \A x : (HasTurn(q', x) <=> HasTurn(q, x)) /\ (HasTurn(q, x) => x \in Dom(q))
           /\ \A t, u \in Dom(q) : IsNext(q', t, u) <=> IsNext(q, t, u)
           /\ k \notin Dom(q) => \A t \in Dom(q) : IsNext(q', t, k) <=> ~HasTurn(q, t)
<1>1. /\ Act(q) \in Seq(Keys) /\ IsInjective(Act(q)) /\ Range(Act(q)) = Dom(q)
      /\ (Ts(q) => Act(q) # << >>) /\ (Act(q) # << >> => Head(Act(q)) \in Dom(q))
  BY RangeTail DEF QueueInv, GoodQueue, Typed, Rotating, Paying
<1>2. CASE k \in Dom(q)
  BY <1>1, <1>2 DEF Pushed, IsNext, HasTurn
<1>3. CASE k \notin Dom(q)
  <2>1. /\ Act(q') = Append(Act(q), k) /\ Ts(q') = Ts(q)
        /\ (Act(q) # << >> => Head(Act(q')) = Head(Act(q)))
    BY <1>1, <1>3, RangeAppend DEF Pushed
  <2>2. \A x : (HasTurn(q', x) <=> HasTurn(q, x)) /\ (HasTurn(q, x) => x \in Dom(q))
    BY <1>1, <2>1 DEF HasTurn
  <2>4. \A t \in Dom(q) : /\ Ahead(Act(q'), t, k)
                          /\ \A u \in Dom(q) : Ahead(Act(q'), t, u) <=> Ahead(Act(q), t, u)
    BY <1>1, <1>3, <2>1, AheadAppend
  <2> QED
    BY <1>3, <2>2, <2>4 DEF IsNext
<1> QED
  BY <1>2, <1>3

------------------------------------------------------------------------------
(* The invariant behind the shares.                                         *)

WeightsOK == \A k \in Dom(q) : Wt(q, k) \in Offered[k]

\* What is left of a turn is less than the turn gave.
TurnOK == Ts(q) => Dfc(q, Head(Act(q))) < Wt(q, Head(Act(q)))

\* The lead in dispatches, with the credit each holds valued likewise.  Credit
\* granted changes it, a dispatch does not.
Balance(t, u) == Unit * lead[t][u] + Wt(q, u) * Dfc(q, t) - Wt(q, t) * Dfc(q, u)

\* As turns alternate, the balance is up by one turn only while the next is u's.
PairLead(t, u) ==
    IF t \in Dom(q) /\ u \in Dom(q)
    THEN Balance(t, u) =< Wt(q, u) * (Unit - 1) + (IF IsNext(q, t, u) THEN 0 ELSE Wt(q, t) * Wt(q, u))
    ELSE lead[t][u] = 0

LeadOK ==
    /\ lead \in [Keys -> [Keys -> Int]]
    /\ \A t, u \in Keys : t # u => PairLead(t, u)

CreditsOK == QueueInv /\ WeightsOK /\ TurnOK

\* The numbers in it, and who may hold how much credit.
LEMMA Holdings ==
    ASSUME CreditsOK
    PROVE  /\ Unit \in Nat \ {0} /\ Dom(q) \subseteq Keys
           /\ \A k \in Dom(q) :
                 /\ Wt(q, k) \in Nat \ {0} /\ Dfc(q, k) \in Nat
                 /\ HasTurn(q, k) => Dfc(q, k) < Wt(q, k) /\ Dfc(q, k) >= Unit
                 /\ ~HasTurn(q, k) => Dfc(q, k) < Unit
           /\ \A t, u \in Dom(q) : HasTurn(q, t) /\ HasTurn(q, u) => t = u
<1>1. Typed(q, Keys, Items) /\ Paying(q) /\ TurnOK /\ Unit \in Nat \ {0}
  BY QueueAssumption DEF CreditsOK, QueueInv, GoodQueue
<1> QED
  BY <1>1 DEF Typed, Paying, TurnOK, HasTurn

LEMMA InitCredits == Init => CreditsOK
<1>1. ASSUME Init PROVE Dom(q) = {} /\ ~Ts(q)
  <2>1. q.queues = [k \in {} |-> [items |-> << >>, weight |-> 1, deficit |-> 0]] /\ q.turnStarted = FALSE
    BY <1>1 DEF Init, EmptyQueue
  <2> QED
    BY <2>1 DEF Dom, Ts
<1> QED
  BY <1>1, InitQueueInv DEF CreditsOK, WeightsOK, TurnOK

\* Every step of the queue is a push, a turn taken or no change to it.
LEMMA QueueSteps ==
    ASSUME QueueInv, [Next]_vars
    PROVE  \/ \E k \in Keys : \E w \in Offered[k] : Pushed(k, w)
           \/ \E f \in Keys : TurnTaken(f) /\ (f \in Served <=> PopServe)
           \/ q' = q /\ Served = {}
<1>1. ASSUME NEW k \in Keys, NEW i \in Items, NEW w \in Offered[k], Push(k, w, i)
      PROVE  Pushed(k, w)
  BY <1>1, PushParts
<1>2. ASSUME PopServe \/ PopPass PROVE \E f \in Keys : TurnTaken(f) /\ (f \in Served <=> PopServe)
  <2>1. Act(q) # << >> /\ GoodQueue(q, Keys, Items)
    BY <1>2, TurnParts DEF TurnTaken, QueueInv
  <2>2. Front(q) \in Keys
    BY <2>1, FrontFacts
  <2> QED
    BY <1>2, <2>2, TurnParts
<1>3. Ln(q) \in Nat
  BY DEF QueueInv, GoodQueue, Typed
<1>4. q' = q => Served = {}
  BY <1>3 DEF Served, Ln
<1>5. CASE q' = q
  BY <1>4, <1>5
<1>6. CASE q' # q
  <2>1. \/ \E k \in Keys, i \in Items : \E w \in Offered[k] : Push(k, w, i)
        \/ PopServe \/ PopPass
    BY <1>6 DEF Next, PushFull, BeginPop, PopEmpty, vars
  <2> QED
    BY <1>1, <1>2, <2>1
<1> QED
  BY <1>5, <1>6

LEMMA NextCredits ==
    ASSUME CreditsOK, [Next]_vars
    PROVE  CreditsOK'
<1>1. QueueInv' /\ QueueInv
  BY NextQueueInv DEF CreditsOK
<1>2. Typed(q, Keys, Items) /\ Unit \in Nat \ {0} /\ Paying(q')
  BY <1>1, QueueAssumption DEF QueueInv, GoodQueue
<1>3. ASSUME NEW k \in Keys, NEW w \in Offered[k], Pushed(k, w) PROVE CreditsOK'
  <2>1. WeightsOK'
    BY <1>3 DEF CreditsOK, WeightsOK, Pushed
  <2>2. \A x : (HasTurn(q', x) <=> HasTurn(q, x)) /\ (HasTurn(q, x) => x \in Dom(q))
    BY <1>1, <1>3, PushOrder
  <2>3. TurnOK'
    BY <1>3, <2>2 DEF CreditsOK, TurnOK, Pushed, HasTurn
  <2> QED
    BY <1>1, <2>1, <2>3 DEF CreditsOK
<1>4. ASSUME NEW f \in Keys, TurnTaken(f) PROVE CreditsOK'
  <2>1. WeightsOK'
    BY <1>4 DEF CreditsOK, WeightsOK, TurnTaken
  <2>2. TurnOK'
    <3> SUFFICES ASSUME Ts(q') PROVE Dfc(q', f) < Wt(q', f) /\ Head(Act(q')) = f
      BY DEF TurnOK
    <3>1. /\ f \in Dom(q') /\ f \in Dom(q) /\ Act(q') = Act(q) /\ f = Head(Act(q)) /\ f \in Served
          /\ Wt(q', f) = Wt(q, f)
          /\ Dfc(q', f) = Dfc(q, f) + (IF Ts(q) THEN 0 ELSE Wt(q, f)) - Unit
      BY <1>4 DEF TurnTaken
    <3>2. /\ Wt(q, f) \in Nat \ {0} /\ Dfc(q, f) \in Nat
          /\ HasTurn(q, f) => Dfc(q, f) < Wt(q, f)
          /\ ~HasTurn(q, f) => Dfc(q, f) < Unit
      BY <3>1, Holdings
    <3>3. HasTurn(q, f) <=> Ts(q)
      BY <3>1 DEF HasTurn
    <3> QED
      BY <1>2, <3>1, <3>2, <3>3
  <2> QED
    BY <1>1, <2>1, <2>2 DEF CreditsOK
<1>5. CASE q' = q
  <2>1. WeightsOK' /\ TurnOK'
    BY <1>5 DEF CreditsOK, WeightsOK, TurnOK
  <2> QED
    BY <1>1, <2>1 DEF CreditsOK
<1> QED
  BY <1>1, <1>3, <1>4, <1>5, QueueSteps

------------------------------------------------------------------------------
(* Proportional share.                                                      *)

LEMMA Products ==
    \A a, b, c \in Nat : /\ a * b \in Nat /\ a * b = b * a
                         /\ a =< c => a * b =< c * b
OBVIOUS

\* What a turn of t does to the balance: g dispatches, r grants of credit.
LEMMA TurnOfT ==
    ASSUME NEW l \in Int, NEW wt \in Nat, NEW wu \in Nat, NEW dt \in Nat, NEW du \in Nat,
           NEW g \in {0, 1}, NEW r \in {0, 1}, Unit \in Nat
    PROVE  Unit * (l + g * wu) + wu * (dt + r * wt - g * Unit) - wt * du
              = Unit * l + wu * dt - wt * du + r * (wt * wu)
<1>1. CASE g = 0 /\ r = 0
  BY <1>1
<1>2. CASE g = 1 /\ r = 0
  BY <1>2
<1>3. CASE g = 0 /\ r = 1
  BY <1>3
<1>4. CASE g = 1 /\ r = 1
  BY <1>4
<1> QED
  BY <1>1, <1>2, <1>3, <1>4

LEMMA TurnOfU ==
    ASSUME NEW l \in Int, NEW wt \in Nat, NEW wu \in Nat, NEW dt \in Nat, NEW du \in Nat,
           NEW g \in {0, 1}, NEW r \in {0, 1}, Unit \in Nat
    PROVE  Unit * (l - g * wt) + wu * dt - wt * (du + r * wu - g * Unit)
              = Unit * l + wu * dt - wt * du - r * (wt * wu)
<1>1. CASE g = 0 /\ r = 0
  BY <1>1
<1>2. CASE g = 1 /\ r = 0
  BY <1>2
<1>3. CASE g = 0 /\ r = 1
  BY <1>3
<1>4. CASE g = 1 /\ r = 1
  BY <1>4
<1> QED
  BY <1>1, <1>2, <1>3, <1>4

LEMMA LeadAfter ==
    ASSUME CreditsOK, lead \in [Keys -> [Keys -> Int]], Follow
    PROVE  /\ lead' \in [Keys -> [Keys -> Int]]
           /\ \A t, u \in Keys :
                 lead'[t][u] = IF {t, u} \subseteq Dom(q) \cap Dom(q')
                               THEN lead[t][u] + Gain(t) * Wt(q, u) - Gain(u) * Wt(q, t)
                               ELSE 0
           /\ \A t : Gain(t) = IF t \in Served THEN 1 ELSE 0
<1> DEFINE new(t, u) == IF {t, u} \subseteq Dom(q) \cap Dom(q')
                        THEN lead[t][u] + Gain(t) * Wt(q, u) - Gain(u) * Wt(q, t)
                        ELSE 0
<1>1. lead' = [t \in Keys |-> [u \in Keys |-> new(t, u)]]
  BY Zenon DEF Follow, StaysBacklogged, Backlogged, WeightOf, Dom, Wt
<1>2. \A t : Gain(t) \in {0, 1} /\ Gain(t) = IF t \in Served THEN 1 ELSE 0
  BY DEF Gain
<1>3. \A t, u \in Keys : new(t, u) \in Int
  <2>1. \A k \in Dom(q) : Wt(q, k) \in Nat
    BY Holdings
  <2>2. \A t, u \in Dom(q) : Gain(t) * Wt(q, u) \in Int
    BY <1>2, <2>1
  <2> QED
    BY <2>2
<1> HIDE DEF new
<1>4. lead' \in [Keys -> [Keys -> Int]] /\ \A t, u \in Keys : lead'[t][u] = new(t, u)
  BY <1>1, <1>3
<1> QED
  BY <1>2, <1>4 DEF new

\* A turn of one of the two moves the balance the way the other's moved it
\* back; anybody else's leaves it alone.
LEMMA TurnKeepsLead ==
    ASSUME CreditsOK, LeadOK, Follow, NEW f, TurnTaken(f),
           NEW t \in Keys, NEW u \in Keys, t # u
    PROVE  PairLead(t, u)'
<1>1. CASE ~({t, u} \subseteq Dom(q'))
  <2>1. lead'[t][u] = 0
    BY <1>1, LeadAfter DEF LeadOK
  <2> QED
    BY <1>1, <2>1 DEF PairLead
<1>2. CASE {t, u} \subseteq Dom(q')
  <2> DEFINE wt == Wt(q, t)
             wu == Wt(q, u)
             dt == Dfc(q, t)
             du == Dfc(q, u)
             l == lead[t][u]
             g == IF f \in Served THEN 1 ELSE 0
             r == IF Ts(q) THEN 0 ELSE 1
  <2>1. /\ QueueInv /\ t \in Dom(q) /\ u \in Dom(q) /\ Wt(q', t) = wt /\ Wt(q', u) = wu
        /\ t # f => Dfc(q', t) = dt
        /\ u # f => Dfc(q', u) = du
        /\ f \in Dom(q') =>
              Dfc(q', f) = Dfc(q, f) + (IF Ts(q) THEN 0 ELSE Wt(q, f)) - (IF f \in Served THEN Unit ELSE 0)
        /\ Served \subseteq {f}
    BY <1>2 DEF TurnTaken, CreditsOK
  <2>2. /\ wt \in Nat /\ wu \in Nat /\ dt \in Nat /\ du \in Nat /\ Unit \in Nat
        /\ l \in Int /\ g \in {0, 1} /\ r \in {0, 1}
    BY <2>1, Holdings DEF LeadOK
  <2>3. lead'[t][u] = l + Gain(t) * wu - Gain(u) * wt
    BY <1>2, <2>1, LeadAfter DEF LeadOK
  <2>4. \A x : Gain(x) = IF x \in Served THEN 1 ELSE 0
    BY DEF Gain
  <2>5. PairLead(t, u) /\ Balance(t, u) = Unit * l + wu * dt - wt * du
    BY DEF LeadOK, Balance
  <2>6. Balance(t, u) =< wu * (Unit - 1) + (IF IsNext(q, t, u) THEN 0 ELSE wt * wu)
    BY <2>1, <2>5 DEF PairLead
  <2>7. wt * wu \in Nat /\ Balance(t, u) \in Int /\ wu * (Unit - 1) \in Int
    BY <2>2, <2>5
  <2>8. Balance(t, u)' = Unit * lead'[t][u] + wu * Dfc(q', t) - wt * Dfc(q', u)
    BY <2>1 DEF Balance
  <2>9. PairLead(t, u)' <=>
           Balance(t, u)' =< wu * (Unit - 1) + (IF IsNext(q', t, u) THEN 0 ELSE wt * wu)
    BY <1>2, <2>1 DEF PairLead
  <2>10. CASE f = t
    <3>1. ~IsNext(q', t, u) /\ (~Ts(q) => IsNext(q, t, u))
      BY <1>2, <2>1, <2>10, TurnOrder
    <3>2. Dfc(q', t) = dt + r * wt - g * Unit /\ Dfc(q', u) = du
      BY <1>2, <2>1, <2>2, <2>10
    <3>3. lead'[t][u] = l + g * wu
      BY <2>1, <2>2, <2>3, <2>4, <2>10
    <3>4. Balance(t, u)' = Balance(t, u) + r * (wt * wu)
      BY <2>2, <2>5, <2>8, <3>2, <3>3, TurnOfT
    <3>5. Balance(t, u)' =< wu * (Unit - 1) + wt * wu
      BY <2>6, <2>7, <3>1, <3>4
    <3> QED
      BY <2>9, <3>1, <3>5
  <2>11. CASE f = u
    <3>1. IsNext(q', t, u) /\ (IsNext(q, t, u) <=> Ts(q))
      BY <1>2, <2>1, <2>11, TurnOrder
    <3>2. Dfc(q', u) = du + r * wu - g * Unit /\ Dfc(q', t) = dt
      BY <1>2, <2>1, <2>2, <2>11
    <3>3. lead'[t][u] = l - g * wt
      BY <2>1, <2>2, <2>3, <2>4, <2>11
    <3>4. Balance(t, u)' = Balance(t, u) - r * (wt * wu)
      BY <2>2, <2>5, <2>8, <3>2, <3>3, TurnOfU
    <3>5. Balance(t, u)' =< wu * (Unit - 1) + 0
      BY <2>6, <2>7, <3>1, <3>4
    <3> QED
      BY <2>9, <3>1, <3>5
  <2>12. CASE f \notin {t, u}
    <3>1. IsNext(q', t, u) <=> IsNext(q, t, u)
      BY <1>2, <2>1, <2>12, TurnOrder
    <3>2. lead'[t][u] = l
      BY <2>1, <2>2, <2>3, <2>4, <2>12
    <3>3. Balance(t, u)' = Balance(t, u)
      BY <2>1, <2>5, <2>8, <2>12, <3>2
    <3> QED
      BY <2>6, <2>9, <3>1, <3>3
  <2> QED
    BY <2>10, <2>11, <2>12
<1> QED
  BY <1>1, <1>2

\* A tenant that joins starts the account of each pair it is in.
LEMMA PushKeepsLead ==
    ASSUME CreditsOK, LeadOK, Follow, NEW k \in Keys, NEW w \in Offered[k], Pushed(k, w),
           NEW t \in Keys, NEW u \in Keys, t # u
    PROVE  PairLead(t, u)'
<1>1. /\ Unit \in Nat \ {0} /\ w \in Nat
      /\ \A x \in Dom(q) : /\ Wt(q, x) \in Nat \ {0} /\ Dfc(q, x) \in Nat
                           /\ HasTurn(q, x) => Dfc(q, x) < Wt(q, x)
                           /\ ~HasTurn(q, x) => Dfc(q, x) < Unit
  BY Holdings, OfferedAssumption
<1>2. \A x : Gain(x) = 0
  BY DEF Gain, Pushed
<1>3. /\ k \notin Dom(q) => \A x \in Dom(q) : IsNext(q', x, k) <=> ~HasTurn(q, x)
      /\ \A x, y \in Dom(q) : IsNext(q', x, y) <=> IsNext(q, x, y)
  BY PushOrder DEF CreditsOK
<1>4. CASE {t, u} \subseteq Dom(q)
  <2>1. /\ t \in Dom(q') /\ u \in Dom(q') /\ Wt(q', t) = Wt(q, t) /\ Wt(q', u) = Wt(q, u)
        /\ Dfc(q', t) = Dfc(q, t) /\ Dfc(q', u) = Dfc(q, u)
    BY <1>4 DEF Pushed
  <2>2. lead'[t][u] = lead[t][u]
    <3>1. lead'[t][u] = lead[t][u] + Gain(t) * Wt(q, u) - Gain(u) * Wt(q, t)
      BY <1>4, <2>1, LeadAfter DEF LeadOK
    <3>2. lead[t][u] \in Int /\ Wt(q, u) \in Nat /\ Wt(q, t) \in Nat
      BY <1>1, <1>4 DEF LeadOK
    <3> QED
      BY <1>2, <3>1, <3>2
  <2>3. Balance(t, u)' = Balance(t, u) /\ PairLead(t, u)
    BY <2>1, <2>2 DEF Balance, LeadOK
  <2> QED
    BY <1>3, <1>4, <2>1, <2>3 DEF PairLead
<1>5. CASE ~({t, u} \subseteq Dom(q))
  <2>1. lead'[t][u] = 0
    BY <1>5, LeadAfter DEF LeadOK
  <2>2. CASE ~({t, u} \subseteq Dom(q'))
    BY <2>1, <2>2 DEF PairLead
  <2>3. CASE t = k /\ u \in Dom(q)
    <3>1. /\ Wt(q', t) = w /\ Dfc(q', t) = 0 /\ t \in Dom(q') /\ u \in Dom(q')
          /\ Wt(q', u) = Wt(q, u) /\ Dfc(q', u) = Dfc(q, u)
      BY <1>5, <2>3 DEF Pushed
    <3>2. Balance(t, u)' = Unit * 0 + Wt(q, u) * 0 - w * Dfc(q, u)
      BY <2>1, <3>1 DEF Balance
    <3>3. /\ w * Dfc(q, u) \in Nat /\ w * Wt(q, u) \in Nat /\ Wt(q, u) * (Unit - 1) \in Nat
      BY <1>1, <2>3
    <3>4. Unit * 0 + Wt(q, u) * 0 - w * Dfc(q, u) = -(w * Dfc(q, u))
      BY <1>1, <2>3, <3>3
    <3>5. Balance(t, u)' =< Wt(q, u) * (Unit - 1) + (IF IsNext(q', t, u) THEN 0 ELSE w * Wt(q, u))
      BY <3>2, <3>3, <3>4
    <3> QED
      BY <3>1, <3>5 DEF PairLead
  <2>4. CASE u = k /\ t \in Dom(q)
    <3>1. /\ Wt(q', u) = w /\ Dfc(q', u) = 0 /\ t \in Dom(q') /\ u \in Dom(q')
          /\ Wt(q', t) = Wt(q, t) /\ Dfc(q', t) = Dfc(q, t)
      BY <1>5, <2>4 DEF Pushed
    <3>2. Balance(t, u)' = Unit * 0 + w * Dfc(q, t) - Wt(q, t) * 0
      BY <2>1, <3>1 DEF Balance
    <3>3. /\ w * Dfc(q, t) \in Nat /\ Wt(q, t) * w \in Nat /\ w * (Unit - 1) \in Nat
      BY <1>1, <2>4
    <3>4. Unit * 0 + w * Dfc(q, t) - Wt(q, t) * 0 = w * Dfc(q, t)
      BY <1>1, <2>4, <3>3
    <3>5. IsNext(q', t, u) => w * Dfc(q, t) =< w * (Unit - 1)
      BY <1>1, <1>3, <1>5, <2>4, Products
    <3>6. ~IsNext(q', t, u) => w * Dfc(q, t) =< Wt(q, t) * w
      BY <1>1, <1>3, <1>5, <2>4, Products
    <3>7. Balance(t, u)' =< w * (Unit - 1) + (IF IsNext(q', t, u) THEN 0 ELSE Wt(q, t) * w)
      BY <3>2, <3>3, <3>4, <3>5, <3>6
    <3> QED
      BY <3>1, <3>7 DEF PairLead
  <2>5. Dom(q') \subseteq Dom(q) \cup {k}
    BY DEF Pushed
  <2> QED
    BY <1>5, <2>2, <2>3, <2>4, <2>5
<1> QED
  BY <1>4, <1>5

LEMMA InitLead == ShareInit => LeadOK
<1> SUFFICES ASSUME ShareInit PROVE LeadOK
  OBVIOUS
<1>1. lead = [t \in Keys |-> [u \in Keys |-> 0]] /\ Dom(q) = {}
  <2>1. q.queues = [k \in {} |-> [items |-> << >>, weight |-> 1, deficit |-> 0]]
    BY DEF ShareInit, Init, EmptyQueue
  <2> QED
    BY <2>1 DEF ShareInit, Dom
<1> QED
  BY <1>1 DEF LeadOK, PairLead

LEMMA NextLead ==
    ASSUME CreditsOK, LeadOK, [ShareNext]_shareVars
    PROVE  LeadOK'
<1>1. CASE ShareNext
  <2>1. Follow /\ Next /\ QueueInv
    BY <1>1 DEF ShareNext, CreditsOK
  <2>2. lead' \in [Keys -> [Keys -> Int]]
    BY <2>1, LeadAfter DEF LeadOK
  <2>3. ASSUME NEW t \in Keys, NEW u \in Keys, t # u PROVE PairLead(t, u)'
    <3>1. CASE \E k \in Keys : \E w \in Offered[k] : Pushed(k, w)
      BY <2>1, <2>3, <3>1, PushKeepsLead
    <3>2. CASE \E f \in Keys : TurnTaken(f)
      BY <2>1, <2>3, <3>2, TurnKeepsLead
    <3>3. CASE q' = q /\ Served = {}
      <4>1. \A x : Gain(x) = 0
        BY <3>3 DEF Gain
      <4>2. lead'[t][u] = IF {t, u} \subseteq Dom(q)
                          THEN lead[t][u] + Gain(t) * Wt(q, u) - Gain(u) * Wt(q, t) ELSE 0
        BY <2>1, <3>3, LeadAfter DEF LeadOK
      <4>3. PairLead(t, u) /\ lead[t][u] \in Int /\ \A x \in Dom(q) : Wt(q, x) \in Nat
        BY <2>3, Holdings DEF LeadOK
      <4>4. lead'[t][u] = lead[t][u]
        BY <4>1, <4>2, <4>3 DEF PairLead
      <4> QED
        BY <3>3, <4>3, <4>4 DEF PairLead, Balance
    <3> QED
      BY <2>1, <3>1, <3>2, <3>3, QueueSteps
  <2> QED
    BY <2>2, <2>3 DEF LeadOK
<1>2. CASE UNCHANGED shareVars
  BY <1>2 DEF shareVars, vars, LeadOK, PairLead, Balance
<1> QED
  BY <1>1, <1>2

LEMMA CreditsHold == ShareSpec => []CreditsOK
<1>1. ShareInit => CreditsOK
  BY InitCredits DEF ShareInit
<1>2. CreditsOK /\ [ShareNext]_shareVars => CreditsOK'
  BY NextCredits DEF ShareNext, shareVars
<1> QED
  BY <1>1, <1>2, PTL DEF ShareSpec

\* Backlogged tenants share dispatches in proportion to their weights, with an
\* error of a turn and less than a dispatch of credit each, over any stretch.
THEOREM SharesAreProportional == ShareSpec => []ProportionalShare
<1>1. CreditsOK /\ LeadOK => ProportionalShare
  <2> SUFFICES ASSUME CreditsOK, LeadOK, NEW t \in Dom(q), NEW u \in Dom(q), t # u
               PROVE  Unit * lead[t][u] =< Wt(q, t) * Wt(q, u)
                                             + (Unit - 1) * (Wt(q, t) + Wt(q, u))
    BY DEF ProportionalShare, Backlogged, WeightOf, Dom, Wt
  <2> DEFINE wt == Wt(q, t)
             wu == Wt(q, u)
             dt == Dfc(q, t)
             du == Dfc(q, u)
             l == lead[t][u]
  <2>1. /\ Unit \in Nat \ {0} /\ wt \in Nat /\ wu \in Nat /\ dt \in Nat /\ du \in Nat
        /\ HasTurn(q, u) => du < wu
        /\ ~HasTurn(q, u) => du =< Unit - 1
        /\ HasTurn(q, u) => IsNext(q, t, u)
        /\ t \in Keys /\ u \in Keys
    BY Holdings DEF IsNext
  <2>2. l \in Int
    BY <2>1 DEF LeadOK
  <2>3. Unit * l + wu * dt - wt * du =< wu * (Unit - 1) + (IF IsNext(q, t, u) THEN 0 ELSE wt * wu)
    BY <2>1 DEF LeadOK, PairLead, Balance
  <2>4. HasTurn(q, u) => wt * du =< wt * wu
    BY <2>1, Products
  <2>5. ~HasTurn(q, u) => wt * du =< wt * (Unit - 1)
    BY <2>1, Products
  <2>6. /\ wu * dt \in Nat /\ wt * du \in Nat /\ wt * wu \in Nat
        /\ wt * (Unit - 1) \in Nat /\ wu * (Unit - 1) \in Nat /\ Unit * l \in Int
    BY <2>1, <2>2
  <2>7. (Unit - 1) * (wt + wu) = wt * (Unit - 1) + wu * (Unit - 1)
    BY <2>1
  <2> HIDE DEF wt, wu, dt, du, l
  <2>8. Unit * l =< wt * wu + (wt * (Unit - 1) + wu * (Unit - 1))
    BY <2>1, <2>3, <2>4, <2>5, <2>6
  <2> QED
    BY <2>7, <2>8 DEF wt, wu, l
<1> QED
  BY <1>1, InitLead, NextLead, CreditsHold, PTL DEF ShareSpec

------------------------------------------------------------------------------
(* Bounded bypass.                                                          *)

\* Most dispatches a turn of u makes.
Quota(u) == (Unit - 1 + HeaviestOffer(u)) \div Unit

LEMMA Division ==
    ASSUME NEW a \in Nat, NEW b \in Nat \ {0}
    PROVE  /\ a \div b \in Nat /\ b * (a \div b) =< a /\ a < b * (a \div b) + b
OBVIOUS

\* Sizes of multiples decide those of the factors.
LEMMA FactorsCompare ==
    ASSUME NEW b \in Nat \ {0}, NEW m \in Nat, NEW n \in Nat, b * m < b * n + b
    PROVE  m =< n
<1>1. n + 1 =< m => (n + 1) * b =< m * b
  BY Products
<1>2. (n + 1) * b = b * n + b /\ m * b = b * m
  OBVIOUS
<1> QED
  BY <1>1, <1>2

LEMMA QuotaFacts ==
    ASSUME NEW u \in Keys
    PROVE  /\ Quota(u) \in Nat \ {0}
           /\ \A w \in Offered[u] : w =< Unit * Quota(u)
<1>1. PICK h \in Offered[u] : h = HeaviestOffer(u) /\ \A x \in Offered[u] : x =< h
  BY ShareAssumption DEF HeaviestOffer
<1>2. h \in Nat \ {0} /\ Unit \in Nat \ {0} /\ \A x \in Offered[u] : x \in Nat
  BY OfferedAssumption, QueueAssumption
<1>3. PICK a \in Nat : a = Unit - 1 + h
  BY <1>2
<1>4. a \div Unit \in Nat /\ a < Unit * (a \div Unit) + Unit
  BY <1>2, Division
<1>5. PICK m \in Nat : m = a \div Unit /\ a < Unit * m + Unit /\ Unit * m \in Nat
  BY <1>2, <1>4
<1>6. h =< Unit * m
  BY <1>2, <1>3, <1>5
<1>7. m # 0
  BY <1>2, <1>6
<1>8. Quota(u) = m
  BY <1>1, <1>3, <1>5 DEF Quota
<1> QED
  BY <1>1, <1>2, <1>5, <1>6, <1>7, <1>8

\* Since t was served or joined, each of its j turns that served nobody let u
\* have one turn before the next, which by now is over, under way or to come.
PassedUpTo(t, u, j) ==
    /\ j * Wt(q, t) =< Dfc(q, t)
    /\ overtaken[t][u] =< Quota(u) * (j + 1)
    /\ u \in Dom(q) /\ ~IsNext(q, t, u) => overtaken[t][u] =< Quota(u) * j
    /\ HasTurn(q, u) =>
          Unit * overtaken[t][u] + Dfc(q, u) =< Unit * (Quota(u) * (j + 1)) + Unit - 1

PairPassed(t, u) ==
    IF t \in Dom(q) /\ ~HasTurn(q, t)
    THEN \E j \in Nat : PassedUpTo(t, u, j)
    ELSE overtaken[t][u] = 0

PassedOK ==
    /\ overtaken \in [Keys -> [Keys -> Nat]]
    /\ \A t, u \in Keys : t # u => PairPassed(t, u)

LEMMA OvertakenAfter ==
    ASSUME overtaken \in [Keys -> [Keys -> Nat]], Follow
    PROVE  /\ overtaken' \in [Keys -> [Keys -> Nat]]
           /\ \A t, u \in Keys :
                 overtaken'[t][u] = IF t \in Dom(q) \cap Dom(q') /\ t \notin Served
                                    THEN overtaken[t][u] + Gain(u) ELSE 0
           /\ \A t : Gain(t) \in {0, 1} /\ Gain(t) = IF t \in Served THEN 1 ELSE 0
<1> DEFINE new(t, u) == IF t \in Dom(q) \cap Dom(q') /\ t \notin Served
                        THEN overtaken[t][u] + Gain(u) ELSE 0
<1>1. overtaken' = [t \in Keys |-> [u \in Keys |-> new(t, u)]]
  BY Zenon DEF Follow, StaysBacklogged, Backlogged, Dom
<1>2. \A t : Gain(t) \in {0, 1} /\ Gain(t) = IF t \in Served THEN 1 ELSE 0
  BY DEF Gain
<1>3. \A t, u \in Keys : new(t, u) \in Nat
  BY <1>2
<1> HIDE DEF new
<1>4. overtaken' \in [Keys -> [Keys -> Nat]] /\ \A t, u \in Keys : overtaken'[t][u] = new(t, u)
  BY <1>1, <1>3
<1> QED
  BY <1>2, <1>4 DEF new

LEMMA TurnKeepsPassed ==
    ASSUME CreditsOK, PassedOK, Follow, NEW f \in Keys, TurnTaken(f),
           NEW t \in Keys, NEW u \in Keys, t # u
    PROVE  PairPassed(t, u)'
<1> DEFINE M == Quota(u)
           o == overtaken[t][u]
<1>1. M \in Nat \ {0} /\ o \in Nat /\ Unit \in Nat \ {0} /\ QueueInv
  BY QuotaFacts, QueueAssumption DEF PassedOK, CreditsOK
<1>2. overtaken'[t][u] = IF t \in Dom(q) \cap Dom(q') /\ t \notin Served THEN o + Gain(u) ELSE 0
  BY OvertakenAfter DEF PassedOK
<1>3. /\ \A x : Gain(x) = IF x \in Served THEN 1 ELSE 0
      /\ Served \subseteq {f} /\ Dom(q') \subseteq Dom(q) /\ f \in Dom(q)
  BY DEF Gain, TurnTaken
<1>4. \A x : (HasTurn(q, x) <=> Ts(q) /\ x = f) /\ (HasTurn(q', x) <=> Ts(q') /\ x = f)
  BY TurnHolder
<1>5. \A k \in Dom(q) : Wt(q, k) \in Nat \ {0} /\ Dfc(q, k) \in Nat
  BY Holdings
<1>6. CASE t \notin Dom(q')
  BY <1>2, <1>6 DEF PairPassed
<1>7. CASE t \in Dom(q') /\ t = f /\ f \in Served
  <2>1. overtaken'[t][u] = 0
    BY <1>2, <1>7
  <2>2. ASSUME ~Ts(q') PROVE PassedUpTo(t, u, 0)'
    <3>1. /\ Wt(q', t) = Wt(q, t) /\ Dfc(q', t) \in Nat
      <4>1. /\ Wt(q', t) = Wt(q, t) /\ t \in Dom(q)
            /\ Dfc(q', t) = Dfc(q, t) + (IF Ts(q) THEN 0 ELSE Wt(q, t)) - Unit
            /\ Dfc(q, t) + (IF Ts(q) THEN 0 ELSE Wt(q, t)) >= Unit
        BY <1>7 DEF TurnTaken
      <4> QED
        BY <1>1, <1>5, <4>1
    <3>2. 0 * Wt(q', t) =< Dfc(q', t)
      BY <1>3, <1>5, <1>7, <3>1
    <3>3. 0 =< M * (0 + 1) /\ 0 =< M * 0 /\ ~HasTurn(q', u)
      BY <1>1, <1>4, <2>2
    <3> QED
      BY <2>1, <3>2, <3>3 DEF PassedUpTo, Quota, HeaviestOffer
  <2> QED
    BY <1>4, <1>7, <2>1, <2>2 DEF PairPassed
<1>8. CASE t \in Dom(q') /\ t = f /\ f \notin Served
  <2>1. /\ ~Ts(q) /\ ~Ts(q') /\ overtaken'[t][u] = o + 0 /\ Wt(q', t) = Wt(q, t)
        /\ Dfc(q', t) = Dfc(q, t) + Wt(q, t) - 0 /\ t \in Dom(q)
    BY <1>2, <1>3, <1>8 DEF TurnTaken
  <2>2. PICK j \in Nat : PassedUpTo(t, u, j)
    BY <1>4, <2>1 DEF PassedOK, PairPassed
  <2>3. j * Wt(q, t) =< Dfc(q, t) /\ o =< M * (j + 1)
    BY <2>2 DEF PassedUpTo
  <2>4. (j + 1) * Wt(q', t) =< Dfc(q', t)
    BY <1>5, <2>1, <2>3
  <2>5. overtaken'[t][u] =< M * (j + 1) /\ overtaken'[t][u] =< M * ((j + 1) + 1)
    <3>1. M * ((j + 1) + 1) = M * (j + 1) + M /\ M * (j + 1) \in Nat
      BY <1>1
    <3> QED
      BY <1>1, <2>1, <2>3, <3>1
  <2>6. PassedUpTo(t, u, j + 1)'
    BY <1>4, <2>1, <2>4, <2>5 DEF PassedUpTo, Quota, HeaviestOffer
  <2> QED
    BY <1>4, <1>8, <2>1, <2>6 DEF PairPassed
<1>9. CASE t \in Dom(q') /\ t # f
  <2>1. /\ overtaken'[t][u] = o + Gain(u) /\ Wt(q', t) = Wt(q, t) /\ Dfc(q', t) = Dfc(q, t)
        /\ ~HasTurn(q, t) /\ ~HasTurn(q', t) /\ t \in Dom(q)
    BY <1>2, <1>3, <1>4, <1>9 DEF TurnTaken
  <2>2. PICK j \in Nat : PassedUpTo(t, u, j)
    BY <2>1 DEF PassedOK, PairPassed
  <2>3. j * Wt(q', t) =< Dfc(q', t) /\ o =< M * (j + 1) /\ M * (j + 1) \in Nat
    BY <1>1, <2>1, <2>2 DEF PassedUpTo
  <2>4. CASE f = u /\ u \in Served
    <3> DEFINE c == Dfc(q, u) + (IF Ts(q) THEN 0 ELSE Wt(q, u))
    <3>1. /\ overtaken'[t][u] = o + 1 /\ c \in Nat /\ c >= Unit
          /\ u \in Dom(q') => Dfc(q', u) = c - Unit
      <4>1. Gain(u) = 1 /\ Dfc(q, u) \in Nat /\ Wt(q, u) \in Nat
        BY <1>3, <1>5, <2>4
      <4>2. c \in Nat
        BY <4>1
      <4>3. c >= Unit
        BY <2>4 DEF TurnTaken
      <4>4. u \in Dom(q') =>
               Dfc(q', u) = Dfc(q, u) + (IF Ts(q) THEN 0 ELSE Wt(q, u)) - (IF u \in Served THEN Unit ELSE 0)
        BY <2>4 DEF TurnTaken
      <4>5. u \in Dom(q') => Dfc(q', u) = c - Unit
        BY <1>1, <2>4, <4>1, <4>4
      <4> QED
        BY <2>1, <4>1, <4>2, <4>3, <4>5
    <3>2. Unit * (o + 1) + (c - Unit) =< Unit * (M * (j + 1)) + Unit - 1
      <4>1. CASE Ts(q)
        <5>1. Unit * o + Dfc(q, u) =< Unit * (M * (j + 1)) + Unit - 1
          BY <1>4, <2>2, <2>4, <4>1 DEF PassedUpTo
        <5>2. Unit * (o + 1) = Unit * o + Unit /\ Unit * o \in Nat /\ Unit * (M * (j + 1)) \in Nat
          BY <1>1, <2>3
        <5> QED
          BY <1>1, <1>3, <1>5, <2>4, <4>1, <5>1, <5>2
      <4>2. CASE ~Ts(q)
        <5>1. ~IsNext(q, t, u) /\ u \in Dom(q)
          BY <1>1, <1>3, <2>1, <2>4, <4>2, TurnOrder
        <5>2. o =< M * j /\ M * j \in Nat
          BY <1>1, <2>2, <5>1 DEF PassedUpTo
        <5>3. Dfc(q, u) =< Unit - 1
          BY <1>1, <1>4, <4>2, <5>1, Holdings
        <5>4. Wt(q, u) =< Unit * M
          BY <5>1, QuotaFacts DEF CreditsOK, WeightsOK
        <5>5. Unit * o =< Unit * (M * j)
          BY <1>1, <5>2, Products
        <5>6. /\ Unit * (M * (j + 1)) = Unit * (M * j) + Unit * M
              /\ Unit * (o + 1) = Unit * o + Unit
              /\ Unit * o \in Nat /\ Unit * (M * j) \in Nat /\ Unit * M \in Nat
          BY <1>1, <5>2
        <5>7. c = Dfc(q, u) + Wt(q, u) /\ Dfc(q, u) \in Nat /\ Wt(q, u) \in Nat
          BY <1>5, <4>2, <5>1
        <5> QED
          BY <1>1, <5>3, <5>4, <5>5, <5>6, <5>7
      <4> QED
        BY <4>1, <4>2
    <3>3. o + 1 =< M * (j + 1)
      <4>1. Unit * (o + 1) < Unit * (M * (j + 1)) + Unit
        <5>1. Unit * (o + 1) \in Nat /\ Unit * (M * (j + 1)) \in Nat
          BY <1>1, <2>3
        <5> QED
          BY <1>1, <3>1, <3>2, <5>1
      <4> QED
        BY <1>1, <2>3, <4>1, FactorsCompare
    <3>4. u \in Dom(q') => IsNext(q', t, u)
      BY <1>1, <1>3, <1>9, <2>1, <2>4, TurnOrder
    <3>5. HasTurn(q', u) => u \in Dom(q')
      BY <1>3, <1>4, <2>4 DEF TurnTaken
    <3>6. PassedUpTo(t, u, j)'
      BY <2>3, <3>1, <3>2, <3>3, <3>4, <3>5 DEF PassedUpTo, Quota, HeaviestOffer
    <3> QED
      BY <1>9, <2>1, <3>6 DEF PairPassed
  <2>5. CASE f = u /\ u \notin Served
    <3>1. overtaken'[t][u] = o + 0 /\ ~Ts(q')
      BY <1>3, <2>1, <2>5 DEF TurnTaken
    <3>2. u \in Dom(q') => IsNext(q', t, u)
      BY <1>1, <1>3, <1>9, <2>1, <2>5, TurnOrder
    <3>3. PassedUpTo(t, u, j)'
      BY <1>1, <1>4, <2>3, <3>1, <3>2 DEF PassedUpTo, Quota, HeaviestOffer
    <3> QED
      BY <1>9, <2>1, <3>3 DEF PairPassed
  <2>6. CASE f # u
    <3>1. overtaken'[t][u] = o + 0 /\ (u \in Dom(q') => u \in Dom(q)) /\ ~HasTurn(q', u)
      BY <1>3, <1>4, <2>1, <2>6
    <3>2. u \in Dom(q') => (IsNext(q', t, u) <=> IsNext(q, t, u))
      BY <1>1, <1>3, <1>9, <2>1, <2>6, <3>1, TurnOrder
    <3>3. PassedUpTo(t, u, j)'
      BY <1>1, <2>2, <2>3, <3>1, <3>2 DEF PassedUpTo, Quota, HeaviestOffer
    <3> QED
      BY <1>9, <2>1, <3>3 DEF PairPassed
  <2> QED
    BY <2>4, <2>5, <2>6
<1> QED
  BY <1>6, <1>7, <1>8, <1>9

LEMMA PushKeepsPassed ==
    ASSUME CreditsOK, PassedOK, Follow, NEW k \in Keys, NEW w \in Offered[k], Pushed(k, w),
           NEW t \in Keys, NEW u \in Keys, t # u
    PROVE  PairPassed(t, u)'
<1> DEFINE M == Quota(u)
           o == overtaken[t][u]
<1>1. M \in Nat \ {0} /\ o \in Nat /\ Unit \in Nat \ {0} /\ QueueInv
  BY QuotaFacts, QueueAssumption DEF PassedOK, CreditsOK
<1>2. overtaken'[t][u] = IF t \in Dom(q) \cap Dom(q') THEN o + 0 ELSE 0
  BY OvertakenAfter DEF PassedOK, Pushed
<1>3. /\ \A x : (HasTurn(q', x) <=> HasTurn(q, x)) /\ (HasTurn(q, x) => x \in Dom(q))
      /\ \A x, y \in Dom(q) : IsNext(q', x, y) <=> IsNext(q, x, y)
      /\ k \notin Dom(q) => \A x \in Dom(q) : IsNext(q', x, k) <=> ~HasTurn(q, x)
  BY <1>1, PushOrder
<1>4. /\ \A j \in Dom(q) : Wt(q', j) = Wt(q, j) /\ Dfc(q', j) = Dfc(q, j)
      /\ Dom(q) \subseteq Dom(q') /\ Dom(q') \subseteq Dom(q) \cup {k}
      /\ k \notin Dom(q) => Dfc(q', k) = 0 /\ Wt(q', k) = w
  BY DEF Pushed
<1>5. CASE t \in Dom(q) /\ HasTurn(q, t)
  <2>1. o = 0
    BY <1>5 DEF PassedOK, PairPassed
  <2> QED
    BY <1>2, <1>3, <1>4, <1>5, <2>1 DEF PairPassed
<1>6. CASE t \in Dom(q) /\ ~HasTurn(q, t)
  <2>1. PICK j \in Nat : PassedUpTo(t, u, j)
    BY <1>6 DEF PassedOK, PairPassed
  <2>2. overtaken'[t][u] = o /\ Wt(q', t) = Wt(q, t) /\ Dfc(q', t) = Dfc(q, t)
    BY <1>1, <1>2, <1>4, <1>6
  <2>3. u \in Dom(q') /\ ~IsNext(q', t, u) => u \in Dom(q) /\ ~IsNext(q, t, u)
    BY <1>3, <1>4, <1>6
  <2>4. HasTurn(q', u) => HasTurn(q, u) /\ Dfc(q', u) = Dfc(q, u)
    BY <1>3, <1>4
  <2>5. PassedUpTo(t, u, j)'
    BY <2>1, <2>2, <2>3, <2>4 DEF PassedUpTo, Quota, HeaviestOffer
  <2> QED
    BY <1>3, <1>4, <1>6, <2>5 DEF PairPassed
<1>7. CASE t \notin Dom(q)
  <2>1. overtaken'[t][u] = 0 /\ ~HasTurn(q', t)
    BY <1>2, <1>3, <1>7
  <2>2. ASSUME t \in Dom(q') PROVE PassedUpTo(t, u, 0)'
    <3>1. t = k /\ Dfc(q', t) = 0 /\ Wt(q', t) = w /\ w \in Nat
      BY <1>4, <1>7, <2>2, OfferedAssumption
    <3>2. 0 * Wt(q', t) =< Dfc(q', t) /\ 0 =< M * (0 + 1) /\ 0 =< M * 0
      BY <1>1, <3>1
    <3>3. ASSUME HasTurn(q', u) PROVE Unit * 0 + Dfc(q', u) =< Unit * (M * (0 + 1)) + Unit - 1
      <4>1. u \in Dom(q) /\ HasTurn(q, u) /\ Dfc(q', u) = Dfc(q, u)
        BY <1>3, <1>4, <3>3
      <4>2. Dfc(q, u) \in Nat /\ Wt(q, u) \in Nat /\ Dfc(q, u) < Wt(q, u)
        BY <4>1, Holdings
      <4>3. Wt(q, u) =< Unit * M
        BY <4>1, QuotaFacts DEF CreditsOK, WeightsOK
      <4>4. Unit * (M * (0 + 1)) = Unit * M /\ Unit * M \in Nat /\ Unit * 0 = 0
        BY <1>1
      <4> QED
        BY <1>1, <4>1, <4>2, <4>3, <4>4
    <3> QED
      BY <2>1, <3>2, <3>3 DEF PassedUpTo, Quota, HeaviestOffer
  <2> QED
    BY <2>1, <2>2 DEF PairPassed
<1> QED
  BY <1>5, <1>6, <1>7

LEMMA InitPassed == ShareInit => PassedOK
<1> SUFFICES ASSUME ShareInit PROVE PassedOK
  OBVIOUS
<1>1. overtaken = [t \in Keys |-> [u \in Keys |-> 0]] /\ Dom(q) = {}
  <2>1. q.queues = [k \in {} |-> [items |-> << >>, weight |-> 1, deficit |-> 0]]
    BY DEF ShareInit, Init, EmptyQueue
  <2> QED
    BY <2>1 DEF ShareInit, Dom
<1> QED
  BY <1>1 DEF PassedOK, PairPassed

LEMMA NextPassed ==
    ASSUME CreditsOK, PassedOK, [ShareNext]_shareVars
    PROVE  PassedOK'
<1>1. CASE ShareNext
  <2>1. Follow /\ Next /\ QueueInv
    BY <1>1 DEF ShareNext, CreditsOK
  <2>2. overtaken' \in [Keys -> [Keys -> Nat]]
    BY <2>1, OvertakenAfter DEF PassedOK
  <2>3. ASSUME NEW t \in Keys, NEW u \in Keys, t # u PROVE PairPassed(t, u)'
    <3>1. CASE \E k \in Keys : \E w \in Offered[k] : Pushed(k, w)
      BY <2>1, <2>3, <3>1, PushKeepsPassed
    <3>2. CASE \E f \in Keys : TurnTaken(f)
      BY <2>1, <2>3, <3>2, TurnKeepsPassed
    <3>3. CASE q' = q /\ Served = {}
      <4>1. overtaken'[t][u] = IF t \in Dom(q) THEN overtaken[t][u] + 0 ELSE 0
        BY <2>1, <3>3, OvertakenAfter DEF PassedOK
      <4>2. PairPassed(t, u) /\ overtaken[t][u] \in Nat
        BY <2>3 DEF PassedOK
      <4>3. overtaken'[t][u] = overtaken[t][u]
        BY <4>1, <4>2 DEF PairPassed
      <4> QED
        BY <3>3, <4>2, <4>3 DEF PairPassed, PassedUpTo, Quota, HeaviestOffer
    <3> QED
      BY <2>1, <3>1, <3>2, <3>3, QueueSteps
  <2> QED
    BY <2>2, <2>3 DEF PassedOK
<1>2. CASE UNCHANGED shareVars
  BY <1>2 DEF shareVars, vars, PassedOK, PairPassed, PassedUpTo, Quota, HeaviestOffer
<1> QED
  BY <1>1, <1>2

\* Between two services a tenant is passed at most once per turn it needs by
\* each other one, however often they drain and come back.
THEOREM BypassIsBounded == ShareSpec => []BoundedBypass
<1>1. CreditsOK /\ PassedOK => BoundedBypass
  <2> SUFFICES ASSUME CreditsOK, PassedOK, NEW t \in Keys, NEW u \in Keys, t # u, t \in Dom(q)
               PROVE  overtaken[t][u] =< CeilDiv(Unit, Wt(q, t)) * Quota(u)
    BY DEF BoundedBypass, Backlogged, WeightOf, Dom, Wt, Quota
  <2> DEFINE wt == Wt(q, t)
             M == Quota(u)
             o == overtaken[t][u]
  <2>1. Unit \in Nat \ {0} /\ wt \in Nat \ {0} /\ Dfc(q, t) \in Nat /\ M \in Nat /\ o \in Nat
    BY Holdings, QuotaFacts DEF PassedOK
  <2>2. PICK a \in Nat : a = Unit + wt - 1
    BY <2>1
  <2>3. a \div wt \in Nat /\ a < wt * (a \div wt) + wt
    BY <2>1, Division
  <2>4. PICK c \in Nat : c = CeilDiv(Unit, wt) /\ a < wt * c + wt /\ wt * c \in Nat
    BY <2>1, <2>2, <2>3 DEF CeilDiv
  <2>5. c * M \in Nat
    BY <2>1
  <2>6. CASE HasTurn(q, t)
    <3>1. o = 0
      BY <2>6 DEF PassedOK, PairPassed
    <3> QED
      BY <2>4, <2>5, <3>1
  <2>7. CASE ~HasTurn(q, t)
    <3>1. PICK j \in Nat : PassedUpTo(t, u, j)
      BY <2>7 DEF PassedOK, PairPassed
    <3>2. j * wt =< Dfc(q, t) /\ o =< M * (j + 1) /\ Dfc(q, t) =< Unit - 1
      BY <2>1, <2>7, <3>1, Holdings DEF PassedUpTo
    <3>3. j + 1 =< c
      <4>1. wt * (j + 1) = j * wt + wt /\ j * wt \in Nat
        BY <2>1
      <4>2. wt * (j + 1) < wt * c + wt
        BY <2>1, <2>2, <2>4, <3>2, <4>1
      <4> QED
        BY <2>1, <4>2, FactorsCompare
    <3>4. (j + 1) * M =< c * M /\ M * (j + 1) = (j + 1) * M /\ (j + 1) * M \in Nat
      BY <2>1, <3>3, Products
    <3> QED
      BY <2>1, <2>4, <2>5, <3>2, <3>4
  <2> QED
    BY <2>6, <2>7
<1> QED
  BY <1>1, InitPassed, NextPassed, CreditsHold, PTL DEF ShareSpec
==============================================================================
