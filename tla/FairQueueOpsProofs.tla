-------------------------- MODULE FairQueueOpsProofs --------------------------
(***************************************************************************)
(* What each step of the fair queue preserves, for any tenants, items,     *)
(* weights and unit of credit.  FairQueueProofs and SchedulerProofs cite   *)
(* these lemmas for the queue they hold.                                   *)
(***************************************************************************)
EXTENDS FairQueueOps, SequenceTheorems, FiniteSetTheorems, TLAPS

------------------------------------------------------------------------------
(* Sequences without repetition.                                            *)

LEMMA RangeAppend ==
    ASSUME NEW S, NEW s \in Seq(S), NEW e \in S
    PROVE  /\ Append(s, e) \in Seq(S) /\ Append(s, e) # << >>
           /\ Range(Append(s, e)) = Range(s) \cup {e}
           /\ IsInjective(s) /\ e \notin Range(s) => IsInjective(Append(s, e))
           /\ s # << >> => Head(Append(s, e)) = Head(s)
<1>1. /\ DOMAIN s = 1 .. Len(s) /\ Len(s) \in Nat
      /\ DOMAIN Append(s, e) = 1 .. Len(s) + 1
      /\ \A n \in 1 .. Len(s) : Append(s, e)[n] = s[n]
      /\ Append(s, e)[Len(s) + 1] = e
      /\ Append(s, e) \in Seq(S) /\ Append(s, e) # << >>
  BY AppendProperties, LenProperties
<1>2. Range(Append(s, e)) = Range(s) \cup {e}
  BY <1>1 DEF Range
<1>3. IsInjective(s) /\ e \notin Range(s) => IsInjective(Append(s, e))
  BY <1>1 DEF IsInjective, Range
<1>4. s # << >> => Head(Append(s, e)) = Head(s)
  BY <1>1
<1> QED
  BY <1>1, <1>2, <1>3, <1>4

LEMMA RangeTail ==
    ASSUME NEW S, NEW s \in Seq(S), s # << >>
    PROVE  /\ Tail(s) \in Seq(S) /\ Head(s) \in S
           /\ Range(s) = Range(Tail(s)) \cup {Head(s)}
           /\ IsInjective(s) => IsInjective(Tail(s)) /\ Head(s) \notin Range(Tail(s))
           /\ Len(s) # 1 => Tail(s) # << >>
           /\ Len(s) = 1 => Tail(s) = << >>
<1>1. /\ DOMAIN s = 1 .. Len(s) /\ Len(s) \in Nat \ {0} /\ Head(s) = s[1]
      /\ DOMAIN Tail(s) = 1 .. Len(s) - 1 /\ Len(Tail(s)) = Len(s) - 1
      /\ \A n \in 1 .. Len(s) - 1 : Tail(s)[n] = s[n + 1]
      /\ Tail(s) \in Seq(S) /\ Head(s) \in S
  BY HeadTailProperties, LenProperties, EmptySeq
<1>2. Range(s) = Range(Tail(s)) \cup {Head(s)}
  <2>1. ASSUME NEW n \in 1 .. Len(s) PROVE s[n] \in Range(Tail(s)) \cup {Head(s)}
    <3>1. CASE n = 1
      BY <1>1, <3>1
    <3>2. CASE n # 1
      <4>1. n - 1 \in 1 .. Len(s) - 1 /\ s[n] = Tail(s)[n - 1]
        BY <1>1, <3>2
      <4> QED
        BY <1>1, <4>1 DEF Range
    <3> QED
      BY <3>1, <3>2
  <2>2. ASSUME NEW n \in 1 .. Len(s) - 1 PROVE Tail(s)[n] \in Range(s)
    BY <1>1, <2>2 DEF Range
  <2>3. Head(s) \in Range(s)
    BY <1>1 DEF Range
  <2> QED
    BY <1>1, <2>1, <2>2, <2>3 DEF Range
<1>3. ASSUME IsInjective(s) PROVE IsInjective(Tail(s)) /\ Head(s) \notin Range(Tail(s))
  BY <1>1, <1>3 DEF IsInjective, Range
<1>4. (Len(s) # 1 => Tail(s) # << >>) /\ (Len(s) = 1 => Tail(s) = << >>)
  <2>1. Tail(s) = << >> <=> Len(Tail(s)) = 0
    BY <1>1, EmptySeq
  <2> QED
    BY <1>1, <2>1
<1> QED
  BY <1>1, <1>2, <1>3, <1>4

LEMMA RangeRotate ==
    ASSUME NEW S, NEW s \in Seq(S), s # << >>
    PROVE  /\ Rotate(s) \in Seq(S) /\ Rotate(s) # << >>
           /\ Range(Rotate(s)) = Range(s)
           /\ IsInjective(s) => IsInjective(Rotate(s))
<1>1. /\ Tail(s) \in Seq(S) /\ Head(s) \in S
      /\ Range(s) = Range(Tail(s)) \cup {Head(s)}
      /\ IsInjective(s) => IsInjective(Tail(s)) /\ Head(s) \notin Range(Tail(s))
  BY RangeTail
<1>2. ASSUME NEW t \in Seq(S), NEW e \in S
      PROVE  /\ Append(t, e) \in Seq(S) /\ Append(t, e) # << >>
             /\ Range(Append(t, e)) = Range(t) \cup {e}
             /\ IsInjective(t) /\ e \notin Range(t) => IsInjective(Append(t, e))
  BY RangeAppend
<1> QED
  BY <1>1, <1>2 DEF Rotate

------------------------------------------------------------------------------
(* The parts of a queue, each under a name of its own: the proofs expand    *)
(* them only where a record is built.                                       *)

Dom(q)    == DOMAIN q.queues
Its(q, k) == q.queues[k].items
Wt(q, k)  == q.queues[k].weight
Dfc(q, k) == q.queues[k].deficit
Act(q)    == q.active
Ts(q)     == q.turnStarted
Ln(q)     == q.len

IsShaped(q) ==
    /\ q = [queues |-> q.queues, active |-> q.active,
            turnStarted |-> q.turnStarted, len |-> q.len]
    /\ q.queues = [k \in Dom(q) |-> q.queues[k]]
    /\ \A k \in Dom(q) :
          q.queues[k] = [items |-> Its(q, k), weight |-> Wt(q, k), deficit |-> Dfc(q, k)]

\* A queue of which one entry is replaced.
Updated(q, k, its, wt, dfc, act, ts, ln) ==
    [queues |-> [q.queues EXCEPT ![k] = [items |-> its, weight |-> wt, deficit |-> dfc]],
     active |-> act, turnStarted |-> ts, len |-> ln]

IsUpdate(p, q, k, its, wt, dfc, act, ts, ln) ==
    /\ IsShaped(p) /\ Dom(p) = Dom(q) /\ Act(p) = act /\ Ts(p) = ts /\ Ln(p) = ln
    /\ Its(p, k) = its /\ Wt(p, k) = wt /\ Dfc(p, k) = dfc
    /\ \A j \in Dom(q) : j # k =>
          Its(p, j) = Its(q, j) /\ Wt(p, j) = Wt(q, j) /\ Dfc(p, j) = Dfc(q, j)

LEMMA UpdatedParts ==
    ASSUME NEW q, IsShaped(q), NEW k \in Dom(q), NEW its, NEW wt, NEW dfc,
           NEW act, NEW ts, NEW ln
    PROVE  IsUpdate(Updated(q, k, its, wt, dfc, act, ts, ln), q, k, its, wt, dfc, act, ts, ln)
<1> DEFINE p == Updated(q, k, its, wt, dfc, act, ts, ln)
           e == [items |-> its, weight |-> wt, deficit |-> dfc]
<1>1. p = [queues |-> [q.queues EXCEPT ![k] = e], active |-> act,
           turnStarted |-> ts, len |-> ln]
  BY DEF Updated
<1>2. /\ p.queues = [q.queues EXCEPT ![k] = e] /\ p.active = act
      /\ p.turnStarted = ts /\ p.len = ln
  BY <1>1
<1>3. k \in DOMAIN q.queues /\ q.queues = [j \in DOMAIN q.queues |-> q.queues[j]]
  BY DEF IsShaped, Dom
<1>4. /\ DOMAIN p.queues = DOMAIN q.queues
      /\ p.queues = [j \in DOMAIN p.queues |-> p.queues[j]]
      /\ p.queues[k] = e
      /\ \A j \in DOMAIN q.queues : j # k => p.queues[j] = q.queues[j]
  BY <1>2, <1>3
<1>5. /\ e.items = its /\ e.weight = wt /\ e.deficit = dfc
      /\ e = [items |-> e.items, weight |-> e.weight, deficit |-> e.deficit]
  OBVIOUS
<1>6. p = [queues |-> p.queues, active |-> p.active,
           turnStarted |-> p.turnStarted, len |-> p.len]
  BY <1>1
<1> HIDE DEF p, e
<1>7. \A j \in DOMAIN q.queues :
        q.queues[j] = [items |-> q.queues[j].items, weight |-> q.queues[j].weight,
                       deficit |-> q.queues[j].deficit]
  BY DEF IsShaped, Dom, Its, Wt, Dfc
<1>8. \A j \in DOMAIN p.queues :
        p.queues[j] = [items |-> p.queues[j].items, weight |-> p.queues[j].weight,
                       deficit |-> p.queues[j].deficit]
  BY <1>4, <1>5, <1>7, Zenon
<1>9. IsShaped(p)
  BY <1>4, <1>6, <1>8, Zenon DEF IsShaped, Dom, Its, Wt, Dfc
<1>10. Dom(p) = Dom(q) /\ Act(p) = act /\ Ts(p) = ts /\ Ln(p) = ln
  BY <1>2, <1>4, Zenon DEF Dom, Act, Ts, Ln
<1>11. Its(p, k) = its /\ Wt(p, k) = wt /\ Dfc(p, k) = dfc
  BY <1>4, <1>5, Zenon DEF Its, Wt, Dfc
<1>12. \A j \in Dom(q) : j # k =>
         Its(p, j) = Its(q, j) /\ Wt(p, j) = Wt(q, j) /\ Dfc(p, j) = Dfc(q, j)
  BY <1>4, Zenon DEF Its, Wt, Dfc, Dom
<1> QED
  BY <1>9, <1>10, <1>11, <1>12 DEF IsUpdate, p

\* The parts of what each step makes of a queue.
LEMMA EnqueueParts ==
    ASSUME NEW q, IsShaped(q), NEW k \in Dom(q), NEW i, NEW p, p = Enqueue(q, k, i)
    PROVE  /\ IsShaped(p) /\ Dom(p) = Dom(q) /\ Act(p) = Act(q) /\ Ts(p) = Ts(q)
           /\ Ln(p) = Ln(q) + 1
           /\ Its(p, k) = Append(Its(q, k), i) /\ Wt(p, k) = Wt(q, k) /\ Dfc(p, k) = Dfc(q, k)
           /\ \A j \in Dom(q) : j # k =>
                 Its(p, j) = Its(q, j) /\ Wt(p, j) = Wt(q, j) /\ Dfc(p, j) = Dfc(q, j)
<1>1. p = Updated(q, k, Append(Its(q, k), i), Wt(q, k), Dfc(q, k), Act(q), Ts(q), Ln(q) + 1)
  BY DEF Enqueue, Updated, Its, Wt, Dfc, Act, Ts, Ln
<1>2. IsUpdate(p, q, k, Append(Its(q, k), i), Wt(q, k), Dfc(q, k), Act(q), Ts(q), Ln(q) + 1)
  BY <1>1, UpdatedParts, Zenon
<1> QED
  BY <1>2, Zenon DEF IsUpdate

LEMMA JoinParts ==
    ASSUME NEW q, IsShaped(q), NEW k, k \notin Dom(q), NEW w, NEW i,
           NEW p, p = JoinNoCredit(q, k, w, i)
    PROVE  /\ IsShaped(p) /\ Dom(p) = Dom(q) \cup {k} /\ Act(p) = Append(Act(q), k)
           /\ Ts(p) = Ts(q) /\ Ln(p) = Ln(q) + 1
           /\ Its(p, k) = <<i>> /\ Wt(p, k) = w /\ Dfc(p, k) = 0
           /\ \A j \in Dom(q) :
                 Its(p, j) = Its(q, j) /\ Wt(p, j) = Wt(q, j) /\ Dfc(p, j) = Dfc(q, j)
<1> DEFINE e == [items |-> <<i>>, weight |-> w, deficit |-> 0]
           Q == [j \in DOMAIN q.queues \cup {k} |-> IF j = k THEN e ELSE q.queues[j]]
<1>1. p = [queues |-> Q, active |-> Append(q.active, k),
           turnStarted |-> q.turnStarted, len |-> q.len + 1]
  BY DEF JoinNoCredit
<1>2. /\ p.queues = Q /\ p.active = Append(q.active, k)
      /\ p.turnStarted = q.turnStarted /\ p.len = q.len + 1
  BY <1>1
<1>3. k \notin DOMAIN q.queues
  BY DEF Dom
<1>4. /\ DOMAIN p.queues = DOMAIN q.queues \cup {k}
      /\ p.queues = [j \in DOMAIN p.queues |-> p.queues[j]]
      /\ p.queues[k] = e
      /\ \A j \in DOMAIN q.queues : p.queues[j] = q.queues[j]
  BY <1>2, <1>3
<1>5. /\ e.items = <<i>> /\ e.weight = w /\ e.deficit = 0
      /\ e = [items |-> e.items, weight |-> e.weight, deficit |-> e.deficit]
  OBVIOUS
<1>6. p = [queues |-> p.queues, active |-> p.active,
           turnStarted |-> p.turnStarted, len |-> p.len]
  BY <1>1
<1> HIDE DEF e
<1>7. \A j \in DOMAIN q.queues :
        q.queues[j] = [items |-> q.queues[j].items, weight |-> q.queues[j].weight,
                       deficit |-> q.queues[j].deficit]
  BY DEF IsShaped, Dom, Its, Wt, Dfc
<1>8. \A j \in DOMAIN p.queues :
        p.queues[j] = [items |-> p.queues[j].items, weight |-> p.queues[j].weight,
                       deficit |-> p.queues[j].deficit]
  <2> SUFFICES ASSUME NEW j \in DOMAIN p.queues
               PROVE  p.queues[j] = [items |-> p.queues[j].items, weight |-> p.queues[j].weight,
                                     deficit |-> p.queues[j].deficit]
    OBVIOUS
  <2>1. CASE j = k
    BY <1>4, <1>5, <2>1, Zenon
  <2>2. CASE j \in DOMAIN q.queues
    BY <1>4, <1>7, <2>2, Zenon
  <2> QED
    BY <1>4, <2>1, <2>2
<1>9. IsShaped(p)
  BY <1>4, <1>6, <1>8, Zenon DEF IsShaped, Dom, Its, Wt, Dfc
<1>10. /\ Dom(p) = Dom(q) \cup {k} /\ Act(p) = Append(Act(q), k)
       /\ Ts(p) = Ts(q) /\ Ln(p) = Ln(q) + 1
  BY <1>2, <1>4, Zenon DEF Dom, Act, Ts, Ln
<1>11. Its(p, k) = <<i>> /\ Wt(p, k) = w /\ Dfc(p, k) = 0
  BY <1>4, <1>5, Zenon DEF Its, Wt, Dfc
<1>12. \A j \in Dom(q) :
         Its(p, j) = Its(q, j) /\ Wt(p, j) = Wt(q, j) /\ Dfc(p, j) = Dfc(q, j)
  BY <1>4, Zenon DEF Its, Wt, Dfc, Dom
<1> QED
  BY <1>9, <1>10, <1>11, <1>12

LEMMA LeaveParts ==
    ASSUME NEW q, IsShaped(q), NEW p, p = LeaveRotation(q)
    PROVE  /\ IsShaped(p) /\ Dom(p) = Dom(q) \ {Front(q)} /\ Act(p) = Tail(Act(q))
           /\ Ts(p) = FALSE /\ Ln(p) = Ln(q) - 1
           /\ \A j \in Dom(p) :
                 Its(p, j) = Its(q, j) /\ Wt(p, j) = Wt(q, j) /\ Dfc(p, j) = Dfc(q, j)
<1> DEFINE Q == [j \in DOMAIN q.queues \ {Front(q)} |-> q.queues[j]]
<1>1. p = [queues |-> Q, active |-> Tail(q.active), turnStarted |-> FALSE, len |-> q.len - 1]
  BY DEF LeaveRotation
<1>2. /\ p.queues = Q /\ p.active = Tail(q.active)
      /\ p.turnStarted = FALSE /\ p.len = q.len - 1
  BY <1>1
<1>3. /\ DOMAIN p.queues = DOMAIN q.queues \ {Front(q)}
      /\ p.queues = [j \in DOMAIN p.queues |-> p.queues[j]]
      /\ \A j \in DOMAIN p.queues : j \in DOMAIN q.queues /\ p.queues[j] = q.queues[j]
  BY <1>2
<1>4. p = [queues |-> p.queues, active |-> p.active,
           turnStarted |-> p.turnStarted, len |-> p.len]
  BY <1>1
<1>5. \A j \in DOMAIN q.queues :
        q.queues[j] = [items |-> q.queues[j].items, weight |-> q.queues[j].weight,
                       deficit |-> q.queues[j].deficit]
  BY DEF IsShaped, Dom, Its, Wt, Dfc
<1>6. \A j \in DOMAIN p.queues :
        p.queues[j] = [items |-> p.queues[j].items, weight |-> p.queues[j].weight,
                       deficit |-> p.queues[j].deficit]
  BY <1>3, <1>5, Zenon
<1>7. IsShaped(p)
  BY <1>3, <1>4, <1>6, Zenon DEF IsShaped, Dom, Its, Wt, Dfc
<1>8. /\ Dom(p) = Dom(q) \ {Front(q)} /\ Act(p) = Tail(Act(q))
      /\ Ts(p) = FALSE /\ Ln(p) = Ln(q) - 1
  BY <1>2, <1>3, Zenon DEF Dom, Act, Ts, Ln
<1>9. \A j \in Dom(p) :
         Its(p, j) = Its(q, j) /\ Wt(p, j) = Wt(q, j) /\ Dfc(p, j) = Dfc(q, j)
  BY <1>3, Zenon DEF Its, Wt, Dfc, Dom
<1> QED
  BY <1>7, <1>8, <1>9

LEMMA SpendParts ==
    ASSUME NEW q, IsShaped(q), Front(q) \in Dom(q), NEW p, p = SpendTurn(q)
    PROVE  /\ IsShaped(p) /\ Dom(p) = Dom(q)
           /\ Act(p) = IF Credit(q) - Unit < Unit THEN Rotate(Act(q)) ELSE Act(q)
           /\ Ts(p) = (Credit(q) - Unit >= Unit) /\ Ln(p) = Ln(q) - 1
           /\ Its(p, Front(q)) = Tail(Its(q, Front(q))) /\ Wt(p, Front(q)) = Wt(q, Front(q))
           /\ Dfc(p, Front(q)) = Credit(q) - Unit
           /\ \A j \in Dom(q) : j # Front(q) =>
                 Its(p, j) = Its(q, j) /\ Wt(p, j) = Wt(q, j) /\ Dfc(p, j) = Dfc(q, j)
<1>1. p = Updated(q, Front(q), Tail(Its(q, Front(q))), Wt(q, Front(q)), Credit(q) - Unit,
                  IF Credit(q) - Unit < Unit THEN Rotate(Act(q)) ELSE Act(q),
                  Credit(q) - Unit >= Unit, Ln(q) - 1)
  BY DEF SpendTurn, Updated, Its, Wt, Act, Ln
<1>2. IsUpdate(p, q, Front(q), Tail(Its(q, Front(q))), Wt(q, Front(q)), Credit(q) - Unit,
               IF Credit(q) - Unit < Unit THEN Rotate(Act(q)) ELSE Act(q),
               Credit(q) - Unit >= Unit, Ln(q) - 1)
  BY <1>1, UpdatedParts, Zenon
<1> QED
  BY <1>2, Zenon DEF IsUpdate

LEMMA PassParts ==
    ASSUME NEW q, IsShaped(q), Front(q) \in Dom(q), NEW p, p = PassOn(q)
    PROVE  /\ IsShaped(p) /\ Dom(p) = Dom(q) /\ Act(p) = Rotate(Act(q))
           /\ Ts(p) = FALSE /\ Ln(p) = Ln(q)
           /\ Its(p, Front(q)) = Its(q, Front(q)) /\ Wt(p, Front(q)) = Wt(q, Front(q))
           /\ Dfc(p, Front(q)) = Credit(q)
           /\ \A j \in Dom(q) : j # Front(q) =>
                 Its(p, j) = Its(q, j) /\ Wt(p, j) = Wt(q, j) /\ Dfc(p, j) = Dfc(q, j)
<1>1. p = Updated(q, Front(q), Its(q, Front(q)), Wt(q, Front(q)), Credit(q),
                  Rotate(Act(q)), FALSE, Ln(q))
  BY DEF PassOn, Updated, Its, Wt, Act, Ln
<1>2. IsUpdate(p, q, Front(q), Its(q, Front(q)), Wt(q, Front(q)), Credit(q),
               Rotate(Act(q)), FALSE, Ln(q))
  BY <1>1, UpdatedParts, Zenon
<1> QED
  BY <1>2, Zenon DEF IsUpdate

------------------------------------------------------------------------------
(* What holds of a queue between calls: its parts agree with each other, no *)
(* item waits twice, and `len` counts them.                                 *)

Typed(q, Keys, Items) ==
    /\ Dom(q) \subseteq Keys
    /\ \A k \in Dom(q) : Its(q, k) \in Seq(Items) /\ Wt(q, k) \in Nat \ {0} /\ Dfc(q, k) \in Nat
    /\ Act(q) \in Seq(Keys) /\ Ts(q) \in BOOLEAN /\ Ln(q) \in Nat

Rotating(q) ==
    /\ Range(Act(q)) = Dom(q)
    /\ IsInjective(Act(q))
    /\ \A k \in Dom(q) : Its(q, k) # << >>

Paying(q) ==
    /\ Ts(q) => Act(q) # << >> /\ Dfc(q, Head(Act(q))) >= Unit
    /\ \A k \in Dom(q) : Dfc(q, k) >= Unit => Ts(q) /\ k = Head(Act(q))

Separate(q) ==
    /\ \A k \in Dom(q) : IsInjective(Its(q, k))
    /\ \A j, k \in Dom(q) : j # k => Range(Its(q, j)) \cap Range(Its(q, k)) = {}

Counted(q) == IsFiniteSet(QueuedItems(q)) /\ Ln(q) = Cardinality(QueuedItems(q))

GoodQueue(q, Keys, Items) ==
    /\ IsShaped(q) /\ Typed(q, Keys, Items)
    /\ Rotating(q) /\ Paying(q) /\ Separate(q) /\ Counted(q)

LEMMA QueuedIsUnion ==
    ASSUME NEW q
    PROVE  \A x : x \in QueuedItems(q) <=> \E k \in Dom(q) : x \in Range(Its(q, k))
BY DEF QueuedItems, Dom, Its

LEMMA GoodIsQueue ==
    ASSUME NEW Keys, NEW Items, NEW q, GoodQueue(q, Keys, Items)
    PROVE  IsQueue(q, Keys, Items) /\ WellFormed(q) /\ q.len = Cardinality(QueuedItems(q))
<1>1. q.queues \in [DOMAIN q.queues -> QueueEntry(Items)]
  <2>1. ASSUME NEW k \in DOMAIN q.queues PROVE q.queues[k] \in QueueEntry(Items)
    BY <2>1 DEF GoodQueue, IsShaped, Typed, Dom, Its, Wt, Dfc, QueueEntry
  <2> QED
    BY <2>1 DEF GoodQueue, IsShaped, Dom
<1>2. IsQueue(q, Keys, Items)
  BY <1>1 DEF GoodQueue, IsShaped, Typed, Dom, Act, Ts, Ln, IsQueue
<1>3. RotationOK(q)
  BY DEF GoodQueue, Rotating, RotationOK, Dom, Its, Act
<1>4. CreditOK(q)
  BY DEF GoodQueue, Paying, CreditOK, Dom, Dfc, Act, Ts, Front
<1>5. q.len = Cardinality(QueuedItems(q))
  BY DEF GoodQueue, Counted, Ln
<1> QED
  BY <1>2, <1>3, <1>4, <1>5 DEF WellFormed

LEMMA EmptyIsGood ==
    ASSUME NEW Keys, NEW Items
    PROVE  GoodQueue(EmptyQueue, Keys, Items) /\ QueuedItems(EmptyQueue) = {}
<1> DEFINE q == EmptyQueue
           Q == [k \in {} |-> [items |-> << >>, weight |-> 1, deficit |-> 0]]
<1>1. /\ q.queues = Q /\ q.active = << >> /\ q.turnStarted = FALSE /\ q.len = 0
      /\ q = [queues |-> q.queues, active |-> q.active,
              turnStarted |-> q.turnStarted, len |-> q.len]
  BY DEF EmptyQueue
<1>2. DOMAIN Q = {} /\ Q = [k \in {} |-> Q[k]]
  OBVIOUS
<1> HIDE DEF q, Q
<1>3. /\ Dom(q) = {} /\ Act(q) = << >> /\ Ts(q) = FALSE /\ Ln(q) = 0 /\ IsShaped(q)
  BY <1>1, <1>2, Zenon DEF Dom, Act, Ts, Ln, IsShaped
<1>4. QueuedItems(q) = {}
  BY <1>3, QueuedIsUnion
<1>5. Counted(q)
  BY <1>3, <1>4, FS_EmptySet DEF Counted
<1>6. Typed(q, Keys, Items)
  <2>1. << >> \in Seq(Keys) /\ FALSE \in BOOLEAN /\ 0 \in Nat
    OBVIOUS
  <2>2. /\ Dom(q) \subseteq Keys /\ Act(q) \in Seq(Keys) /\ Ts(q) \in BOOLEAN
        /\ Ln(q) \in Nat
    BY <1>3, <2>1, Zenon
  <2> QED
    BY <1>3, <2>2, Zenon DEF Typed
<1>7. Rotating(q)
  BY <1>3 DEF Rotating, Range, IsInjective
<1>8. Paying(q) /\ Separate(q)
  BY <1>3 DEF Paying, Separate
<1> QED
  BY <1>3, <1>4, <1>5, <1>6, <1>7, <1>8 DEF GoodQueue, q

LEMMA EnqueueIsGood ==
    ASSUME NEW Keys, NEW Items, NEW q, GoodQueue(q, Keys, Items),
           NEW k \in Dom(q), NEW i \in Items, i \notin QueuedItems(q),
           NEW p, p = Enqueue(q, k, i)
    PROVE  GoodQueue(p, Keys, Items) /\ QueuedItems(p) = QueuedItems(q) \cup {i}
<1>1. /\ IsShaped(p) /\ Dom(p) = Dom(q) /\ Act(p) = Act(q) /\ Ts(p) = Ts(q)
      /\ Ln(p) = Ln(q) + 1
      /\ Its(p, k) = Append(Its(q, k), i) /\ Wt(p, k) = Wt(q, k) /\ Dfc(p, k) = Dfc(q, k)
      /\ \A j \in Dom(q) : j # k =>
            Its(p, j) = Its(q, j) /\ Wt(p, j) = Wt(q, j) /\ Dfc(p, j) = Dfc(q, j)
  BY EnqueueParts DEF GoodQueue
<1>2. Its(q, k) \in Seq(Items) /\ i \notin Range(Its(q, k)) /\ IsInjective(Its(q, k))
  BY QueuedIsUnion DEF GoodQueue, Typed, Separate
<1>3. /\ Its(p, k) \in Seq(Items) /\ Its(p, k) # << >>
      /\ Range(Its(p, k)) = Range(Its(q, k)) \cup {i} /\ IsInjective(Its(p, k))
  BY <1>1, <1>2, RangeAppend
<1>4. QueuedItems(p) = QueuedItems(q) \cup {i}
  BY <1>1, <1>3, QueuedIsUnion
<1>5. Counted(p)
  BY <1>1, <1>4, FS_AddElement DEF Counted, GoodQueue
<1>6. Typed(p, Keys, Items)
  <2>1. Typed(q, Keys, Items)
    BY DEF GoodQueue
  <2>2. \A j \in Dom(q) : Its(p, j) \in Seq(Items) /\ Wt(p, j) \in Nat \ {0} /\ Dfc(p, j) \in Nat
    BY <1>1, <1>3, <2>1 DEF Typed
  <2>3. Ln(p) \in Nat
    BY <1>1, <2>1 DEF Typed
  <2> QED
    BY <1>1, <2>1, <2>2, <2>3, Zenon DEF Typed
<1>7. Rotating(p)
  BY <1>1, <1>3 DEF Rotating, GoodQueue
<1>8. \A j \in Dom(q) : Dfc(p, j) = Dfc(q, j)
  BY <1>1
<1>9. Dom(p) = Dom(q) /\ Act(p) = Act(q) /\ Ts(p) = Ts(q)
  BY <1>1
<1>10. Act(q) # << >> => Head(Act(q)) \in Dom(q)
  BY RangeTail DEF GoodQueue, Typed, Rotating
<1>11. Paying(p)
  BY <1>8, <1>9, <1>10 DEF Paying, GoodQueue
<1>12. Separate(p)
  <2>1. ASSUME NEW j \in Dom(p) PROVE IsInjective(Its(p, j))
    BY <1>1, <1>3, <2>1 DEF Separate, GoodQueue
  <2>2. ASSUME NEW j \in Dom(p), NEW l \in Dom(p), j # l
        PROVE  Range(Its(p, j)) \cap Range(Its(p, l)) = {}
    <3>1. Range(Its(q, j)) \cap Range(Its(q, l)) = {}
      BY <1>1, <2>2 DEF Separate, GoodQueue
    <3>2. i \notin Range(Its(q, j)) /\ i \notin Range(Its(q, l))
      BY <1>1, <2>2, QueuedIsUnion
    <3>3. \A n \in {j, l} : Range(Its(p, n)) \subseteq Range(Its(q, n)) \cup {i}
      BY <1>1, <1>3, <2>2
    <3>4. \A n \in {j, l} : n # k => Range(Its(p, n)) = Range(Its(q, n))
      BY <1>1, <2>2
    <3> QED
      BY <2>2, <3>1, <3>2, <3>3, <3>4
  <2> QED
    BY <2>1, <2>2 DEF Separate
<1> QED
  BY <1>1, <1>4, <1>5, <1>6, <1>7, <1>11, <1>12 DEF GoodQueue

LEMMA JoinIsGood ==
    ASSUME NEW Keys, NEW Items, NEW q, GoodQueue(q, Keys, Items),
           NEW k \in Keys, k \notin Dom(q), NEW w \in Nat \ {0},
           NEW i \in Items, i \notin QueuedItems(q),
           NEW p, p = JoinNoCredit(q, k, w, i)
    PROVE  GoodQueue(p, Keys, Items) /\ QueuedItems(p) = QueuedItems(q) \cup {i}
<1>1. /\ IsShaped(p) /\ Dom(p) = Dom(q) \cup {k} /\ Act(p) = Append(Act(q), k)
      /\ Ts(p) = Ts(q) /\ Ln(p) = Ln(q) + 1
      /\ Its(p, k) = <<i>> /\ Wt(p, k) = w /\ Dfc(p, k) = 0
      /\ \A j \in Dom(q) :
            Its(p, j) = Its(q, j) /\ Wt(p, j) = Wt(q, j) /\ Dfc(p, j) = Dfc(q, j)
  BY JoinParts DEF GoodQueue
<1>2. <<i>> \in Seq(Items) /\ <<i>> # << >> /\ Range(<<i>>) = {i} /\ IsInjective(<<i>>)
  BY DEF Range, IsInjective
<1>3. /\ Act(q) \in Seq(Keys) /\ k \notin Range(Act(q)) /\ IsInjective(Act(q))
      /\ Range(Act(q)) = Dom(q)
  BY DEF GoodQueue, Typed, Rotating
<1>4. /\ Act(p) \in Seq(Keys) /\ Act(p) # << >> /\ Range(Act(p)) = Dom(q) \cup {k}
      /\ IsInjective(Act(p)) /\ (Act(q) # << >> => Head(Act(p)) = Head(Act(q)))
  BY <1>1, <1>3, RangeAppend
<1>5. QueuedItems(p) = QueuedItems(q) \cup {i}
  BY <1>1, <1>2, QueuedIsUnion
<1>6. Counted(p)
  BY <1>1, <1>5, FS_AddElement DEF Counted, GoodQueue
<1>7. Typed(p, Keys, Items)
  <2>1. Typed(q, Keys, Items)
    BY DEF GoodQueue
  <2>2. ASSUME NEW j \in Dom(p)
        PROVE  Its(p, j) \in Seq(Items) /\ Wt(p, j) \in Nat \ {0} /\ Dfc(p, j) \in Nat
    <3>1. CASE j = k
      <4>1. 0 \in Nat
        OBVIOUS
      <4> QED
        BY <1>1, <1>2, <3>1, <4>1, Zenon
    <3>2. CASE j \in Dom(q)
      BY <1>1, <2>1, <3>2, Zenon DEF Typed
    <3> QED
      BY <1>1, <3>1, <3>2
  <2>3. Dom(p) \subseteq Keys /\ Ln(p) \in Nat
    BY <1>1, <2>1 DEF Typed
  <2>4. Ts(p) \in BOOLEAN
    BY <1>1, <2>1, Zenon DEF Typed
  <2> QED
    BY <1>4, <2>2, <2>3, <2>4, Zenon DEF Typed
<1>8. Rotating(p)
  BY <1>1, <1>2, <1>4 DEF Rotating, GoodQueue
<1>9. Paying(p)
  <2>1. Paying(q) /\ Unit \in Nat \ {0} /\ Typed(q, Keys, Items)
    BY QueueAssumption DEF GoodQueue
  <2>2. ~Ts(q) \/ (Act(q) # << >> /\ Head(Act(p)) = Head(Act(q)) /\ Head(Act(q)) \in Dom(q))
    BY <1>3, <1>4, <2>1, RangeTail DEF Paying
  <2>3. ASSUME Ts(p) PROVE Act(p) # << >> /\ Dfc(p, Head(Act(p))) >= Unit
    BY <1>1, <1>4, <2>1, <2>2, <2>3 DEF Paying
  <2>4. ASSUME NEW j \in Dom(p), Dfc(p, j) >= Unit PROVE Ts(p) /\ j = Head(Act(p))
    <3>1. j \in Dom(q) /\ Dfc(q, j) >= Unit
      BY <1>1, <2>1, <2>4
    <3>2. Ts(q) /\ j = Head(Act(q))
      BY <2>1, <3>1 DEF Paying
    <3> QED
      BY <1>1, <2>2, <3>2, Zenon
  <2> QED
    BY <2>3, <2>4 DEF Paying
<1>10. Separate(p)
  <2>1. ASSUME NEW j \in Dom(p) PROVE IsInjective(Its(p, j))
    BY <1>1, <1>2, <2>1 DEF Separate, GoodQueue
  <2>2. ASSUME NEW j \in Dom(p), NEW l \in Dom(p), j # l
        PROVE  Range(Its(p, j)) \cap Range(Its(p, l)) = {}
    <3>1. \A n \in Dom(q) : i \notin Range(Its(q, n)) /\ Range(Its(p, n)) = Range(Its(q, n))
      BY <1>1, QueuedIsUnion
    <3>2. Range(Its(p, k)) = {i}
      BY <1>1, <1>2
    <3>3. CASE j \in Dom(q) /\ l \in Dom(q)
      BY <2>2, <3>1, <3>3 DEF Separate, GoodQueue
    <3>4. CASE j = k
      BY <1>1, <2>2, <3>1, <3>2, <3>4
    <3>5. CASE l = k
      BY <1>1, <2>2, <3>1, <3>2, <3>5
    <3> QED
      BY <1>1, <2>2, <3>3, <3>4, <3>5
  <2> QED
    BY <2>1, <2>2 DEF Separate
<1> QED
  BY <1>1, <1>5, <1>6, <1>7, <1>8, <1>9, <1>10 DEF GoodQueue

\* push() keeps the queue good and adds its item to what is waiting.
LEMMA PushIsGood ==
    ASSUME NEW Keys, NEW Items, NEW q, GoodQueue(q, Keys, Items),
           NEW k \in Keys, NEW w \in Nat \ {0},
           NEW i \in Items, i \notin QueuedItems(q)
    PROVE  /\ GoodQueue(PushInto(q, k, w, i), Keys, Items)
           /\ QueuedItems(PushInto(q, k, w, i)) = QueuedItems(q) \cup {i}
<1>1. CASE k \in Dom(q)
  <2>1. PushInto(q, k, w, i) = Enqueue(q, k, i)
    BY <1>1 DEF PushInto, Dom
  <2> QED
    BY <1>1, <2>1, EnqueueIsGood
<1>2. CASE k \notin Dom(q)
  <2>1. PushInto(q, k, w, i) = JoinNoCredit(q, k, w, i)
    BY <1>2 DEF PushInto, Dom
  <2> QED
    BY <1>2, <2>1, JoinIsGood
<1> QED
  BY <1>1, <1>2

\* The tenant at the front, and what its turn is worth.
LEMMA FrontFacts ==
    ASSUME NEW Keys, NEW Items, NEW q, GoodQueue(q, Keys, Items), Act(q) # << >>
    PROVE  /\ Front(q) = Head(Act(q)) /\ Front(q) \in Dom(q) /\ Front(q) \in Keys
           /\ Credit(q) = Dfc(q, Front(q)) + (IF Ts(q) THEN 0 ELSE Wt(q, Front(q)))
           /\ Credit(q) \in Nat
           /\ FrontItem(q) = Head(Its(q, Front(q)))
           /\ Its(q, Front(q)) \in Seq(Items) /\ Its(q, Front(q)) # << >>
           /\ FrontItem(q) \in Range(Its(q, Front(q)))
           /\ \A j \in Dom(q) : j # Front(q) => Dfc(q, j) < Unit
<1>1. Typed(q, Keys, Items) /\ Rotating(q) /\ Paying(q) /\ Unit \in Nat
  BY QueueAssumption DEF GoodQueue
<1>2. Front(q) = Head(Act(q)) /\ FrontItem(q) = Head(Its(q, Front(q)))
  BY DEF Front, FrontItem, Act, Its
<1>3. Front(q) \in Dom(q) /\ Front(q) \in Keys
  BY <1>1, <1>2, RangeTail DEF Typed, Rotating
<1>4. Credit(q) = Dfc(q, Front(q)) + (IF Ts(q) THEN 0 ELSE Wt(q, Front(q)))
  BY DEF Credit, Dfc, Ts, Wt
<1>5. Dfc(q, Front(q)) \in Nat /\ Wt(q, Front(q)) \in Nat
  BY <1>1, <1>3 DEF Typed
<1>6. Credit(q) \in Nat
  BY <1>4, <1>5
<1>7. Its(q, Front(q)) \in Seq(Items) /\ Its(q, Front(q)) # << >>
  BY <1>1, <1>3 DEF Typed, Rotating
<1>8. FrontItem(q) \in Range(Its(q, Front(q)))
  BY <1>2, <1>7, RangeTail
<1>9. \A j \in Dom(q) : j # Front(q) => Dfc(q, j) < Unit
  BY <1>1, <1>2 DEF Paying, Typed
<1> QED
  BY <1>2, <1>3, <1>4, <1>6, <1>7, <1>8, <1>9

LEMMA LeaveIsGood ==
    ASSUME NEW Keys, NEW Items, NEW q, GoodQueue(q, Keys, Items), Act(q) # << >>,
           Len(Its(q, Front(q))) = 1, NEW p, p = LeaveRotation(q)
    PROVE  GoodQueue(p, Keys, Items) /\ QueuedItems(p) = QueuedItems(q) \ {FrontItem(q)}
<1> DEFINE f == Front(q)
<1>1. /\ IsShaped(p) /\ Dom(p) = Dom(q) \ {f} /\ Act(p) = Tail(Act(q))
      /\ Ts(p) = FALSE /\ Ln(p) = Ln(q) - 1
      /\ \A j \in Dom(p) :
            Its(p, j) = Its(q, j) /\ Wt(p, j) = Wt(q, j) /\ Dfc(p, j) = Dfc(q, j)
  BY LeaveParts DEF GoodQueue
<1>2. /\ f = Head(Act(q)) /\ f \in Dom(q) /\ FrontItem(q) = Head(Its(q, f))
      /\ Its(q, f) \in Seq(Items) /\ Its(q, f) # << >>
      /\ \A j \in Dom(q) : j # f => Dfc(q, j) < Unit
  BY FrontFacts
<1>3. Typed(q, Keys, Items) /\ Rotating(q) /\ Separate(q) /\ Counted(q) /\ Unit \in Nat
  BY QueueAssumption DEF GoodQueue
<1>4. Range(Its(q, f)) = {FrontItem(q)}
  <2>1. Tail(Its(q, f)) = << >> /\ Range(Its(q, f)) = Range(Tail(Its(q, f))) \cup {FrontItem(q)}
    BY <1>2, RangeTail
  <2> QED
    BY <2>1 DEF Range
<1>5. /\ Act(p) \in Seq(Keys) /\ IsInjective(Act(p)) /\ Range(Act(p)) = Dom(q) \ {f}
  BY <1>1, <1>2, <1>3, RangeTail DEF Typed, Rotating
<1>6. QueuedItems(p) = QueuedItems(q) \ {FrontItem(q)}
  <2>1. ASSUME NEW x \in QueuedItems(p) PROVE x \in QueuedItems(q) \ {FrontItem(q)}
    <3>1. PICK j \in Dom(p) : x \in Range(Its(p, j))
      BY <2>1, QueuedIsUnion
    <3>2. j \in Dom(q) /\ j # f /\ x \in Range(Its(q, j))
      BY <1>1, <3>1
    <3>3. x # FrontItem(q)
      BY <1>2, <1>3, <1>4, <3>2 DEF Separate
    <3> QED
      BY <3>2, <3>3, QueuedIsUnion
  <2>2. ASSUME NEW x \in QueuedItems(q), x # FrontItem(q) PROVE x \in QueuedItems(p)
    <3>1. PICK j \in Dom(q) : x \in Range(Its(q, j))
      BY <2>2, QueuedIsUnion
    <3>2. j \in Dom(p) /\ x \in Range(Its(p, j))
      BY <1>1, <1>4, <2>2, <3>1
    <3> QED
      BY <3>2, QueuedIsUnion
  <2> QED
    BY <2>1, <2>2
<1>7. FrontItem(q) \in QueuedItems(q)
  BY <1>2, <1>4, QueuedIsUnion
<1>8. Counted(p)
  BY <1>1, <1>3, <1>6, <1>7, FS_RemoveElement DEF Counted
<1>9. Typed(p, Keys, Items)
  <2>1. Ln(p) \in Nat
    BY <1>6, <1>8, FS_CardinalityType DEF Counted
  <2>2. Ts(p) \in BOOLEAN
    BY <1>1, Zenon
  <2>3. \A j \in Dom(p) : Its(p, j) \in Seq(Items) /\ Wt(p, j) \in Nat \ {0} /\ Dfc(p, j) \in Nat
    BY <1>1, <1>3, Zenon DEF Typed
  <2>4. Dom(p) \subseteq Keys
    BY <1>1, <1>3 DEF Typed
  <2> QED
    BY <1>5, <2>1, <2>2, <2>3, <2>4, Zenon DEF Typed
<1>10. Rotating(p)
  BY <1>1, <1>3, <1>5 DEF Rotating
<1>11. Paying(p)
  <2>1. ~Ts(p)
    BY <1>1, Zenon
  <2>2. \A j \in Dom(p) : Dfc(p, j) = Dfc(q, j) /\ Dfc(p, j) \in Nat /\ Dfc(q, j) < Unit
    BY <1>1, <1>2, <1>3 DEF Typed
  <2> QED
    BY <1>3, <2>1, <2>2 DEF Paying
<1>12. Separate(p)
  BY <1>1, <1>3 DEF Separate
<1> QED
  BY <1>1, <1>6, <1>8, <1>9, <1>10, <1>11, <1>12 DEF GoodQueue

\* What SpendTurn and PassOn have in common: the front tenant's credit changes,
\* and it keeps the turn exactly when the credit left is worth a dispatch.
LEMMA TurnIsGood ==
    ASSUME NEW Keys, NEW Items, NEW q, GoodQueue(q, Keys, Items), Act(q) # << >>,
           NEW p, IsShaped(p), Dom(p) = Dom(q), NEW credit \in Nat,
           Act(p) = IF credit < Unit THEN Rotate(Act(q)) ELSE Act(q),
           Ts(p) = (credit >= Unit), Ln(p) \in Nat,
           Its(p, Front(q)) \in Seq(Items), Its(p, Front(q)) # << >>,
           IsInjective(Its(p, Front(q))),
           Range(Its(p, Front(q))) \subseteq Range(Its(q, Front(q))),
           Wt(p, Front(q)) = Wt(q, Front(q)), Dfc(p, Front(q)) = credit,
           \A j \in Dom(q) : j # Front(q) =>
              Its(p, j) = Its(q, j) /\ Wt(p, j) = Wt(q, j) /\ Dfc(p, j) = Dfc(q, j),
           Counted(p)
    PROVE  GoodQueue(p, Keys, Items)
<1> DEFINE f == Front(q)
<1>1. f = Head(Act(q)) /\ f \in Dom(q) /\ \A j \in Dom(q) : j # f => Dfc(q, j) < Unit
  BY FrontFacts
<1>2. Typed(q, Keys, Items) /\ Rotating(q) /\ Separate(q) /\ Unit \in Nat
  BY QueueAssumption DEF GoodQueue
<1>3. /\ Act(p) \in Seq(Keys) /\ Act(p) # << >> /\ Range(Act(p)) = Dom(q)
      /\ IsInjective(Act(p)) /\ (credit >= Unit => Head(Act(p)) = f)
  BY <1>1, <1>2, RangeRotate DEF Typed, Rotating
<1>4. Typed(p, Keys, Items)
  <2>1. Ts(p) \in BOOLEAN
    <3>1. (credit >= Unit) \in BOOLEAN
      OBVIOUS
    <3> QED
      BY <3>1, Zenon
  <2>2. ASSUME NEW j \in Dom(p)
        PROVE  Its(p, j) \in Seq(Items) /\ Wt(p, j) \in Nat \ {0} /\ Dfc(p, j) \in Nat
    <3>1. CASE j = f
      BY <1>1, <1>2, <3>1, Zenon DEF Typed
    <3>2. CASE j # f
      BY <1>2, <2>2, <3>2, Zenon DEF Typed
    <3> QED
      BY <3>1, <3>2
  <2>3. Dom(p) \subseteq Keys
    BY <1>2 DEF Typed
  <2> QED
    BY <1>3, <2>1, <2>2, <2>3, Zenon DEF Typed
<1>5. Rotating(p)
  BY <1>2, <1>3 DEF Rotating
<1>6. Paying(p)
  <2>1. ASSUME NEW j \in Dom(p), Dfc(p, j) >= Unit PROVE credit >= Unit /\ j = f
    BY <1>1, <1>2, <1>4, <2>1 DEF Typed
  <2>2. Ts(p) <=> credit >= Unit
    BY Zenon
  <2> QED
    BY <1>3, <2>1, <2>2 DEF Paying
<1>7. Separate(p)
  <2>1. \A j \in Dom(q) : Range(Its(p, j)) \subseteq Range(Its(q, j)) /\ IsInjective(Its(p, j))
    BY <1>2 DEF Separate
  <2> QED
    BY <1>2, <2>1 DEF Separate
<1> QED
  BY <1>4, <1>5, <1>6, <1>7 DEF GoodQueue

LEMMA SpendIsGood ==
    ASSUME NEW Keys, NEW Items, NEW q, GoodQueue(q, Keys, Items), Act(q) # << >>,
           CanServe(q), Len(Its(q, Front(q))) # 1, NEW p, p = SpendTurn(q)
    PROVE  GoodQueue(p, Keys, Items) /\ QueuedItems(p) = QueuedItems(q) \ {FrontItem(q)}
<1> DEFINE f == Front(q)
<1>1. /\ f \in Dom(q) /\ FrontItem(q) = Head(Its(q, f)) /\ Credit(q) \in Nat
      /\ Its(q, f) \in Seq(Items) /\ Its(q, f) # << >> /\ FrontItem(q) \in Range(Its(q, f))
  BY FrontFacts
<1>2. /\ IsShaped(p) /\ Dom(p) = Dom(q)
      /\ Act(p) = IF Credit(q) - Unit < Unit THEN Rotate(Act(q)) ELSE Act(q)
      /\ Ts(p) = (Credit(q) - Unit >= Unit) /\ Ln(p) = Ln(q) - 1
      /\ Its(p, f) = Tail(Its(q, f)) /\ Wt(p, f) = Wt(q, f)
      /\ Dfc(p, f) = Credit(q) - Unit
      /\ \A j \in Dom(q) : j # f =>
            Its(p, j) = Its(q, j) /\ Wt(p, j) = Wt(q, j) /\ Dfc(p, j) = Dfc(q, j)
  BY <1>1, SpendParts DEF GoodQueue
<1>3. Separate(q) /\ Counted(q) /\ Unit \in Nat
  BY QueueAssumption DEF GoodQueue
<1>4. Credit(q) - Unit \in Nat
  BY <1>1, <1>3 DEF CanServe
<1>5. /\ Its(p, f) \in Seq(Items) /\ Its(p, f) # << >> /\ IsInjective(Its(p, f))
      /\ Range(Its(q, f)) = Range(Its(p, f)) \cup {FrontItem(q)}
      /\ FrontItem(q) \notin Range(Its(p, f))
  BY <1>1, <1>2, <1>3, RangeTail DEF Separate
<1>6. QueuedItems(p) = QueuedItems(q) \ {FrontItem(q)}
  <2>1. ASSUME NEW j \in Dom(q) PROVE Range(Its(p, j)) = Range(Its(q, j)) \ {FrontItem(q)}
    <3>1. CASE j = f
      BY <1>5, <3>1
    <3>2. CASE j # f
      BY <1>1, <1>2, <1>3, <2>1, <3>2 DEF Separate
    <3> QED
      BY <3>1, <3>2
  <2> QED
    BY <1>2, <2>1, QueuedIsUnion
<1>7. FrontItem(q) \in QueuedItems(q)
  BY <1>1, QueuedIsUnion
<1>8. Counted(p)
  BY <1>2, <1>3, <1>6, <1>7, FS_RemoveElement DEF Counted
<1>9. Ln(p) \in Nat
  BY <1>8, FS_CardinalityType DEF Counted
<1>10. GoodQueue(p, Keys, Items)
  BY <1>2, <1>4, <1>5, <1>8, <1>9, TurnIsGood
<1> QED
  BY <1>6, <1>10

\* pop() keeps the queue good: a pass of its loop that serves takes the oldest
\* item of the tenant at the front, and one that does not serve takes nothing.
LEMMA ServeIsGood ==
    ASSUME NEW Keys, NEW Items, NEW q, GoodQueue(q, Keys, Items), q.active # << >>,
           CanServe(q)
    PROVE  /\ GoodQueue(Serve(q), Keys, Items)
           /\ FrontItem(q) \in QueuedItems(q)
           /\ QueuedItems(Serve(q)) = QueuedItems(q) \ {FrontItem(q)}
<1>1. Act(q) # << >>
  BY DEF Act
<1>2. FrontItem(q) \in QueuedItems(q)
  BY <1>1, FrontFacts, QueuedIsUnion
<1>3. CASE Len(Its(q, Front(q))) = 1
  <2>1. Serve(q) = LeaveRotation(q)
    BY <1>3 DEF Serve, Its
  <2> QED
    BY <1>1, <1>2, <1>3, <2>1, LeaveIsGood
<1>4. CASE Len(Its(q, Front(q))) # 1
  <2>1. Serve(q) = SpendTurn(q)
    BY <1>4 DEF Serve, Its
  <2> QED
    BY <1>1, <1>2, <1>4, <2>1, SpendIsGood
<1> QED
  BY <1>3, <1>4

LEMMA PassIsGood ==
    ASSUME NEW Keys, NEW Items, NEW q, GoodQueue(q, Keys, Items), q.active # << >>,
           ~CanServe(q), NEW p, p = PassOn(q)
    PROVE  GoodQueue(p, Keys, Items) /\ QueuedItems(p) = QueuedItems(q)
<1> DEFINE f == Front(q)
<1>1. Act(q) # << >>
  BY DEF Act
<1>2. /\ f \in Dom(q) /\ Credit(q) \in Nat
      /\ Its(q, f) \in Seq(Items) /\ Its(q, f) # << >>
  BY <1>1, FrontFacts
<1>3. Separate(q) /\ Counted(q) /\ Typed(q, Keys, Items) /\ Unit \in Nat
  BY QueueAssumption DEF GoodQueue
<1>4. /\ IsShaped(p) /\ Dom(p) = Dom(q) /\ Act(p) = Rotate(Act(q))
      /\ Ts(p) = FALSE /\ Ln(p) = Ln(q)
      /\ Its(p, f) = Its(q, f) /\ Wt(p, f) = Wt(q, f) /\ Dfc(p, f) = Credit(q)
      /\ \A j \in Dom(q) : j # f =>
            Its(p, j) = Its(q, j) /\ Wt(p, j) = Wt(q, j) /\ Dfc(p, j) = Dfc(q, j)
  BY <1>2, PassParts DEF GoodQueue
<1>5. Credit(q) < Unit /\ ~(Credit(q) >= Unit)
  BY <1>2, <1>3 DEF CanServe
<1>6. QueuedItems(p) = QueuedItems(q)
  <2>1. Dom(p) = Dom(q) /\ \A j \in Dom(q) : Range(Its(p, j)) = Range(Its(q, j))
    BY <1>4
  <2>2. /\ \A x : x \in QueuedItems(p) <=> \E j \in Dom(p) : x \in Range(Its(p, j))
        /\ \A x : x \in QueuedItems(q) <=> \E j \in Dom(q) : x \in Range(Its(q, j))
    BY QueuedIsUnion
  <2>3. \A x : x \in QueuedItems(p) <=> x \in QueuedItems(q)
    BY <2>1, <2>2
  <2> QED
    BY <2>3
<1>7. Counted(p)
  BY <1>3, <1>4, <1>6 DEF Counted
<1>8. Ts(p) = (Credit(q) >= Unit)
  <2>1. (Credit(q) >= Unit) = FALSE
    BY <1>5
  <2> QED
    BY <1>4, <2>1, Zenon
<1>9. Act(p) = IF Credit(q) < Unit THEN Rotate(Act(q)) ELSE Act(q)
  BY <1>4, <1>5
<1>10. Ln(p) \in Nat /\ IsInjective(Its(p, f)) /\ Its(p, f) \in Seq(Items) /\ Its(p, f) # << >>
  BY <1>2, <1>3, <1>4 DEF Typed, Separate
<1>11. GoodQueue(p, Keys, Items)
  BY <1>1, <1>2, <1>4, <1>7, <1>8, <1>9, <1>10, TurnIsGood
<1> QED
  BY <1>6, <1>11
==============================================================================
