---------------------------- MODULE GatewayProofs ----------------------------
(***************************************************************************)
(* Theorems about Gateway, for any requests, tenants, limits, budgets and  *)
(* scheduler configuration.                                                *)
(*                                                                         *)
(* A step of the gateway is a step of the scheduler or leaves it alone, so *)
(* SchedulerInv holds here too.  To it the invariant adds that a lease is  *)
(* where its handler is, that `active` counts the leases, and two facts    *)
(* about tokens: a lease has used at least what its reply has brought, and *)
(* a tenant's balance and what is outstanding stay within its room.        *)
(***************************************************************************)
EXTENDS Gateway, SchedulerProofs

\* The handler states in which the handler, or its reply's body, owns a lease,
\* and those in which it is gone.
Busy(state) == state \in {"pushed", "refused", "waiting", "holding"}
Left(state) == state \in {"left", "gone"}

\* Besides what LeasesFollowHandlers says: a lease about to be dropped has no
\* handler that might drop it too.
Followed ==
    \A r \in Requests :
        /\ Busy(client[r]) => lease[r] = "open"
        /\ Left(client[r]) => lease[r] = "none"
        /\ lease[r] = "settling" => client[r] = "idle"

LeaseCounts == \A t \in Tenants : active[t] = Cardinality(Leased(t)) /\ active[t] =< MaxConcurrent[t]

\* A lease pays for every token its reply brings, and a reply is no longer than
\* max_tokens.  A buffered one brings all of it at once.
Metered ==
    \A r \in Requests :
        /\ brought[r] =< used[r] /\ brought[r] =< Ceiling(r)
        /\ lease[r] = "none" => brought[r] = 0
        /\ lease[r] = "open" /\ r \notin Streamed => brought[r] = 0

\* What NeverOversold says, with what a tenant may still be granted: a debt is
\* nothing to spend.
Positive(n) == IF n > 0 THEN n ELSE 0

Within ==
    \A t \in Tenants : Cardinality(Outstanding(t)) + Positive(balance[t]) =< room[t]

LeaseInv == GatewayTypeOK /\ LeaseCounts /\ Metered /\ Within

GatewayInv == SchedulerInv /\ Followed /\ LeaseInv

------------------------------------------------------------------------------

LEMMA LimitTypes ==
    ASSUME NEW r \in Requests
    PROVE  /\ TenantOf[r] \in Tenants /\ Reserve(r) \in Nat /\ Ceiling(r) = Reserve(r)
           /\ Budget[TenantOf[r]] \in Nat /\ MaxConcurrent[TenantOf[r]] \in Nat
BY GatewayAssumption DEF Tenants, Reserve, Ceiling

\* What is there to spend grows by no more than the balance does.
LEMMA PositiveGrows ==
    ASSUME NEW m \in Int, NEW n \in Int, NEW d \in Nat, n =< m + d
    PROVE  Positive(m) \in Nat /\ Positive(n) \in Nat /\ Positive(n) =< Positive(m) + d
BY DEF Positive

LEMMA LeasedIsFinite ==
    ASSUME NEW t
    PROVE  IsFiniteSet(Leased(t)) /\ Cardinality(Leased(t)) \in Nat
<1>1. Leased(t) \subseteq Requests
  BY DEF Leased
<1> QED
  BY <1>1, SchedulerAssumption, FS_Subset, FS_CardinalityType

\* Outstanding over any leases and any tokens brought, so that it can be
\* spoken of before and after a step; Above(m, n) is the numbers after m.
Above(m, n) == m + 1 .. n
Parts(L, b) == UNION {{s} \X Above(b[s], Ceiling(s)) : s \in L}

LEMMA OutstandingIsParts ==
    \A t : /\ Outstanding(t) = Parts(Leased(t), brought)
          /\ Outstanding(t)' = Parts(Leased(t)', brought')
BY DEF Outstanding, Uncollected, Parts, Above, Ceiling

LEMMA PartsAgree ==
    ASSUME NEW L, NEW b, NEW c, \A s \in L : b[s] = c[s]
    PROVE  Parts(L, b) = Parts(L, c)
BY DEF Parts

LEMMA AboveSize ==
    ASSUME NEW m \in Nat, NEW n \in Nat
    PROVE  /\ IsFiniteSet(Above(m, n))
           /\ m =< n => Cardinality(Above(m, n)) = n - m
<1> DEFINE k == m + 1
<1>1. k \in Int /\ n \in Int
  OBVIOUS
<1> HIDE DEF k
<1>2. IsFiniteSet(k .. n) /\ Cardinality(k .. n) = IF k > n THEN 0 ELSE n - k + 1
  BY <1>1, FS_Interval
<1> QED
  BY <1>2 DEF k, Above

LEMMA PartsAreFinite ==
    ASSUME NEW L \in SUBSET Requests, NEW b \in [Requests -> Nat]
    PROVE  IsFiniteSet(Parts(L, b))
<1> DEFINE Part(s) == {s} \X Above(b[s], Ceiling(s))
           f == [s \in L |-> Part(s)]
           T == {Part(s) : s \in L}
<1>1. IsFiniteSet(L)
  BY SchedulerAssumption, FS_Subset
<1>2. f \in Surjection(L, T)
  BY DEF Surjection
<1>3. IsFiniteSet(T)
  BY <1>1, <1>2, FS_Surjection
<1>4. ASSUME NEW s \in L PROVE IsFiniteSet(Part(s))
  <2>1. b[s] \in Nat /\ Ceiling(s) \in Nat
    BY <1>4, LimitTypes
  <2>2. IsFiniteSet(Above(b[s], Ceiling(s)))
    BY <2>1, AboveSize
  <2> QED
    BY <2>2, FS_Singleton, FS_Product
<1> QED
  BY <1>3, <1>4, FS_UNION DEF Parts

LEMMA OutstandingIsFinite ==
    ASSUME GatewayTypeOK, NEW t
    PROVE  Cardinality(Outstanding(t)) \in Nat
<1>1. Leased(t) \in SUBSET Requests /\ brought \in [Requests -> Nat]
  BY DEF Leased, GatewayTypeOK
<1> QED
  BY <1>1, PartsAreFinite, OutstandingIsParts, FS_CardinalityType

\* A lease accounts for the tokens between what is brought and max_tokens.
LEMMA PartsSize ==
    ASSUME NEW L \in SUBSET Requests, NEW b \in [Requests -> Nat],
           NEW r \in L, b[r] =< Ceiling(r)
    PROVE  /\ Cardinality(Parts(L \ {r}, b)) \in Nat
           /\ Cardinality(Parts(L, b)) = Cardinality(Parts(L \ {r}, b)) + (Ceiling(r) - b[r])
<1> DEFINE Part(s) == {s} \X Above(b[s], Ceiling(s))
           Remaining == Parts(L \ {r}, b)
<1>1. IsFiniteSet(Part(r)) /\ Cardinality(Part(r)) = Ceiling(r) - b[r]
  <2>1. b[r] \in Nat /\ Ceiling(r) \in Nat
    BY LimitTypes
  <2>2. /\ IsFiniteSet(Above(b[r], Ceiling(r)))
        /\ Cardinality(Above(b[r], Ceiling(r))) = Ceiling(r) - b[r]
    BY <2>1, AboveSize
  <2>3. IsFiniteSet({r}) /\ Cardinality({r}) = 1
    BY FS_Singleton
  <2>4. /\ IsFiniteSet(Part(r))
        /\ Cardinality(Part(r)) = Cardinality({r}) * Cardinality(Above(b[r], Ceiling(r)))
    BY <2>2, <2>3, FS_Product
  <2> QED
    BY <2>1, <2>2, <2>3, <2>4
<1>2. IsFiniteSet(Remaining)
  BY PartsAreFinite
<1>3. Parts(L, b) = Remaining \cup Part(r)
  BY DEF Parts
<1>4. Remaining \cap Part(r) = {}
  BY DEF Parts
<1> HIDE DEF Part, Remaining
<1>5. Cardinality(Parts(L, b)) = Cardinality(Remaining) + Cardinality(Part(r)) - Cardinality({})
  BY <1>1, <1>2, <1>3, <1>4, FS_Union
<1>6. Cardinality(Remaining) \in Nat
  BY <1>2, FS_CardinalityType
<1>7. Cardinality(Part(r)) = Ceiling(r) - b[r] /\ b[r] \in Nat /\ Ceiling(r) \in Nat
  BY <1>1, LimitTypes
<1> QED
  BY <1>5, <1>6, <1>7, FS_EmptySet DEF Remaining

LEMMA InitGatewayInv == GatewayInit => GatewayInv
<1> SUFFICES ASSUME GatewayInit PROVE GatewayInv
  OBVIOUS
<1>1. SchedulerInv
  BY InitSchedulerInv DEF GatewayInit
<1>2. GatewayTypeOK
  BY GatewayAssumption DEF GatewayInit, GatewayTypeOK
<1>3. Followed
  BY DEF GatewayInit, Init, Followed, Busy, Left
<1>4. \A t \in Tenants : Leased(t) = {}
  BY DEF GatewayInit, Leased
<1>5. LeaseCounts
  <2> SUFFICES ASSUME NEW t \in Tenants
               PROVE  active[t] = Cardinality(Leased(t)) /\ active[t] =< MaxConcurrent[t]
    BY DEF LeaseCounts
  <2>1. Cardinality(Leased(t)) = 0
    BY <1>4, FS_EmptySet
  <2>2. active[t] = 0 /\ MaxConcurrent[t] \in Nat
    BY GatewayAssumption DEF GatewayInit
  <2> QED
    BY <2>1, <2>2
<1>6. Metered
  BY LimitTypes DEF GatewayInit, Metered
<1>7. Within
  <2> SUFFICES ASSUME NEW t \in Tenants
               PROVE  Cardinality(Outstanding(t)) + Positive(balance[t]) =< room[t]
    BY DEF Within
  <2>1. Outstanding(t) = {}
    BY <1>4 DEF Outstanding
  <2>2. Cardinality(Outstanding(t)) = 0
    BY <2>1, FS_EmptySet
  <2>3. balance[t] \in Nat /\ room[t] = balance[t]
    BY GatewayAssumption DEF GatewayInit
  <2> QED
    BY <2>2, <2>3 DEF Positive
<1> QED
  BY <1>1, <1>2, <1>3, <1>5, <1>6, <1>7 DEF GatewayInv, LeaseInv

\* Every step of the gateway is one of the scheduler or leaves it alone.
LEMMA StepIsScheduled == ASSUME [GatewayNext]_gatewayVars PROVE [Next]_vars
<1>1. CASE Backstage
  BY <1>1 DEF Backstage, Next
<1>2. CASE \E t \in Tenants : Earn(t)
  BY <1>2 DEF Earn
<1>3. ASSUME NEW r \in Requests, Admit(r) \/ Proceed(r) \/ HangUp(r) \/ Forward(r) \/ BodyLost(r)
      PROVE  [Next]_vars
  <2>1. CASE Admit(r) \/ Forward(r) \/ SettleBuffered(r)
    BY <2>1 DEF Admit, Forward, SettleBuffered
  <2>2. CASE Enter(r) \/ HangUp(r)
    BY <2>2 DEF Enter, HangUp, Next, Client
  <2>3. CASE Fail(r) \/ Respond(r) \/ Notify(r) \/ EndStream(r) \/ BodyIn(r) \/ BodyLost(r)
    BY <2>3 DEF Fail, Respond, EndStream, BodyIn, BodyLost, Next, Handler
  <2> QED
    BY <1>3, <2>1, <2>2, <2>3 DEF Proceed
<1>4. CASE UNCHANGED gatewayVars
  BY <1>4 DEF gatewayVars
<1> QED
  BY <1>1, <1>2, <1>3, <1>4 DEF GatewayNext

LEMMA QueuedAreRequests == ASSUME SchedulerInv PROVE Queued \subseteq Requests
<1>1. Typed(q, Keys, Requests)
  BY DEF SchedulerInv, QueueOK, GoodQueue
<1>2. ASSUME NEW r \in Queued PROVE r \in Requests
  <2>1. PICK k \in Dom(q) : r \in Range(Its(q, k))
    BY <1>2, QueuedIsUnion DEF Queued
  <2>2. Its(q, k) \in Seq(Requests)
    BY <1>1, <2>1 DEF Typed
  <2> QED
    BY <2>1, <2>2 DEF Range
<1> QED
  BY <1>2

------------------------------------------------------------------------------
(* The two steps that make and drop a lease.                                *)

LEMMA AdmitKeeps ==
    ASSUME GatewayInv, NEW r \in Requests, Admit(r)
    PROVE  Followed' /\ LeaseInv'
<1> DEFINE t == TenantOf[r]
<1> USE DEF GatewayInv, LeaseInv
<1>1. t \in Tenants /\ Reserve(r) \in Nat /\ Ceiling(r) = Reserve(r)
  BY LimitTypes
<1>2. GatewayTypeOK'
  BY <1>1 DEF GatewayTypeOK, Admit, historyVars
<1>3. Followed'
  BY DEF Followed, GatewayTypeOK, Busy, Left, Admit, vars, reqVars
<1>4. ASSUME NEW u \in Tenants PROVE active'[u] = Cardinality(Leased(u)') /\ active'[u] =< MaxConcurrent[u]
  <2>1. CASE u # t
    <3>1. Leased(u)' = Leased(u)
      BY <2>1 DEF Leased, Admit, GatewayTypeOK
    <3> QED
      BY <2>1, <3>1 DEF Admit, GatewayTypeOK, LeaseCounts
  <2>2. CASE u = t
    <3>1. Leased(u)' = Leased(u) \cup {r} /\ r \notin Leased(u)
      BY <2>2 DEF Leased, Admit, GatewayTypeOK
    <3>2. Cardinality(Leased(u)') = Cardinality(Leased(u)) + 1
      BY <3>1, LeasedIsFinite, FS_AddElement
    <3>3. active'[u] = active[u] + 1 /\ active[u] < MaxConcurrent[u] /\ active[u] \in Nat
      BY <2>2, <1>1 DEF Admit, BelowCap, GatewayTypeOK
    <3>4. MaxConcurrent[u] \in Nat
      BY GatewayAssumption
    <3> QED
      BY <3>2, <3>3, <3>4 DEF LeaseCounts
  <2> QED
    BY <2>1, <2>2
<1>5. Metered'
  BY DEF Metered, Admit, GatewayTypeOK, historyVars, Ceiling
<1>6. ASSUME NEW u \in Tenants
      PROVE  Cardinality(Outstanding(u)') + Positive(balance'[u]) =< room'[u]
  <2>1. /\ Leased(u) \in SUBSET Requests /\ brought \in [Requests -> Nat] /\ room[u] \in Int
        /\ brought' = brought /\ room' = room /\ Outstanding(u)' = Parts(Leased(u)', brought)
        /\ Cardinality(Outstanding(u)) + Positive(balance[u]) =< room[u]
    BY OutstandingIsParts DEF Leased, GatewayTypeOK, Admit, historyVars, Within
  <2>2. CASE u # t
    <3>1. Leased(u)' = Leased(u) /\ balance'[u] = balance[u]
      BY <2>2 DEF Leased, Admit, GatewayTypeOK
    <3> QED
      BY <2>1, <3>1, OutstandingIsParts
  <2>3. CASE u = t
    <3>1. Leased(u)' \ {r} = Leased(u) /\ r \in Leased(u)'
      BY <2>3 DEF Leased, Admit, GatewayTypeOK
    <3>2. brought[r] = 0 /\ brought[r] =< Ceiling(r)
      BY <1>1 DEF Metered, Admit
    <3>3. /\ Cardinality(Outstanding(u)) \in Nat
          /\ Cardinality(Outstanding(u)') = Cardinality(Outstanding(u)) + Reserve(r)
      <4> DEFINE L == Leased(u)'
      <4>1. L \in SUBSET Requests
        BY DEF Leased
      <4>2. /\ Cardinality(Parts(L \ {r}, brought)) \in Nat
            /\ Cardinality(Parts(L, brought))
                   = Cardinality(Parts(L \ {r}, brought)) + (Ceiling(r) - brought[r])
        BY <2>1, <3>1, <3>2, <4>1, PartsSize
      <4>3. Outstanding(u) = Parts(L \ {r}, brought) /\ Outstanding(u)' = Parts(L, brought)
        BY <2>1, <3>1, OutstandingIsParts
      <4> QED
        BY <1>1, <3>2, <4>2, <4>3
    <3>4. balance'[u] = balance[u] - Reserve(r) /\ balance[u] >= Reserve(r) /\ balance[u] \in Int
      BY <1>1, <2>3 DEF Admit, GatewayTypeOK
    <3> QED
      BY <1>1, <2>1, <3>3, <3>4 DEF Positive
  <2> QED
    BY <2>2, <2>3
<1> QED
  BY <1>2, <1>3, <1>4, <1>5, <1>6 DEF LeaseCounts, Within

\* A lease that is there is dropped once: the count stays that of the leases,
\* and no more comes back than its reply has left over.
LEMMA SettleKeeps ==
    ASSUME LeaseInv, NEW r \in Requests, lease[r] # "none", Settle(r)
    PROVE  LeaseInv'
<1> DEFINE t == TenantOf[r]
<1> USE DEF LeaseInv
<1>1. /\ t \in Tenants /\ Reserve(r) \in Nat /\ Ceiling(r) = Reserve(r)
      /\ Budget[t] \in Nat
  BY LimitTypes
<1>2. Leased(t)' = Leased(t) \ {r} /\ r \in Leased(t)
  BY DEF Leased, Settle, GatewayTypeOK
<1>3. Cardinality(Leased(t)') = Cardinality(Leased(t)) - 1 /\ Cardinality(Leased(t)') \in Nat
  BY <1>2, LeasedIsFinite, FS_RemoveElement, FS_CardinalityType
<1>4. active'[t] = active[t] - 1 /\ active'[t] = Cardinality(Leased(t)') /\ active'[t] \in Nat
  BY <1>1, <1>3 DEF Settle, LeaseCounts, GatewayTypeOK
<1>5. /\ balance[t] \in Int /\ balance'[t] \in Int
      /\ balance'[t] =< balance[t] + (Ceiling(r) - brought[r])
  <2>1. balance[t] \in Int /\ used[r] \in Nat /\ brought[r] \in Nat /\ brought[r] =< used[r]
    BY <1>1 DEF GatewayTypeOK, Metered
  <2>2. balance'[t] = IF balance[t] + Reserve(r) - used[r] < Budget[t]
                      THEN balance[t] + Reserve(r) - used[r] ELSE Budget[t]
    BY <1>1 DEF Settle, GatewayTypeOK
  <2> QED
    BY <1>1, <2>1, <2>2
<1>6. GatewayTypeOK'
  <2>1. active' \in [Tenants -> Nat]
    BY <1>4 DEF GatewayTypeOK, Settle
  <2>2. balance' \in [Tenants -> Int]
    BY <1>5 DEF GatewayTypeOK, Settle
  <2> QED
    BY <2>1, <2>2 DEF GatewayTypeOK, Settle
<1>7. ASSUME NEW u \in Tenants PROVE active'[u] = Cardinality(Leased(u)') /\ active'[u] =< MaxConcurrent[u]
  <2>1. CASE u # t
    <3>1. Leased(u)' = Leased(u)
      BY <2>1 DEF Leased, Settle, GatewayTypeOK
    <3> QED
      BY <2>1, <3>1 DEF Settle, GatewayTypeOK, LeaseCounts
  <2>2. CASE u = t
    <3>1. MaxConcurrent[t] \in Nat /\ active[t] \in Nat /\ active[t] =< MaxConcurrent[t]
      BY <1>1, GatewayAssumption DEF LeaseCounts, GatewayTypeOK
    <3> QED
      BY <2>2, <1>4, <3>1
  <2> QED
    BY <2>1, <2>2
<1>8. Metered'
  BY <1>1 DEF Settle, GatewayTypeOK, Metered, Ceiling
<1>9. ASSUME NEW u \in Tenants
      PROVE  Cardinality(Outstanding(u)') + Positive(balance'[u]) =< room'[u]
  <2>1. /\ Leased(u) \in SUBSET Requests /\ brought \in [Requests -> Nat] /\ room[u] \in Int
        /\ room' = room /\ Outstanding(u)' = Parts(Leased(u)', brought')
        /\ \A s \in Requests \ {r} : brought'[s] = brought[s]
        /\ Cardinality(Outstanding(u)) + Positive(balance[u]) =< room[u]
    BY OutstandingIsParts DEF Leased, GatewayTypeOK, Settle, Within
  <2>2. CASE u # t
    <3>1. Leased(u)' = Leased(u) /\ r \notin Leased(u) /\ balance'[u] = balance[u]
      BY <2>2 DEF Leased, Settle, GatewayTypeOK
    <3>2. Parts(Leased(u)', brought') = Parts(Leased(u), brought)
      BY <2>1, <3>1, PartsAgree
    <3> QED
      BY <2>1, <3>1, <3>2, OutstandingIsParts
  <2>3. CASE u = t
    <3>1. Parts(Leased(u)', brought') = Parts(Leased(u) \ {r}, brought)
      BY <1>2, <2>1, <2>3, PartsAgree
    <3>2. brought[r] =< Ceiling(r) /\ brought[r] \in Nat
      BY <2>1 DEF Metered
    <3>3. /\ Cardinality(Outstanding(u)') \in Nat
          /\ Cardinality(Outstanding(u)) = Cardinality(Outstanding(u)') + (Ceiling(r) - brought[r])
      <4>1. r \in Leased(u) /\ Outstanding(u) = Parts(Leased(u), brought)
        BY <1>2, <2>3, OutstandingIsParts
      <4>2. /\ Cardinality(Parts(Leased(u) \ {r}, brought)) \in Nat
            /\ Cardinality(Parts(Leased(u), brought))
                 = Cardinality(Parts(Leased(u) \ {r}, brought)) + (Ceiling(r) - brought[r])
        BY <2>1, <3>2, <4>1, PartsSize
      <4> QED
        BY <2>1, <3>1, <4>1, <4>2
    <3>4. Ceiling(r) - brought[r] \in Nat
      BY <1>1, <3>2
    <3>5. /\ Positive(balance[t]) \in Nat /\ Positive(balance'[t]) \in Nat
          /\ Positive(balance'[t]) =< Positive(balance[t]) + (Ceiling(r) - brought[r])
      BY <1>5, <3>4, PositiveGrows
    <3> QED
      BY <2>1, <2>3, <3>3, <3>4, <3>5
  <2> QED
    BY <2>2, <2>3
<1> QED
  BY <1>6, <1>7, <1>8, <1>9 DEF LeaseCounts, Within

\* A token brought is one fewer that is outstanding, and is used up.
LEMMA BringsKeeps ==
    ASSUME LeaseInv, NEW r \in Requests, lease[r] # "none", NEW n \in Nat, Brings(r, n),
           brought[r] + n =< Ceiling(r), UNCHANGED balance,
           \A u \in Tenants : Leased(u)' = Leased(u)
    PROVE  Within'
<1> DEFINE t == TenantOf[r]
<1> SUFFICES ASSUME NEW u \in Tenants
             PROVE  Cardinality(Outstanding(u)') + Positive(balance'[u]) =< room'[u]
  BY DEF Within
<1>1. /\ Leased(u) \in SUBSET Requests /\ brought \in [Requests -> Nat] /\ room[u] \in Int
      /\ brought' \in [Requests -> Nat] /\ brought'[r] = brought[r] + n
      /\ \A s \in Requests \ {r} : brought'[s] = brought[s]
      /\ Outstanding(u)' = Parts(Leased(u), brought')
      /\ Cardinality(Outstanding(u)) + Positive(balance[u]) =< room[u]
      /\ balance[u] \in Int
  <2>1. Leased(u) \in SUBSET Requests /\ Outstanding(u)' = Parts(Leased(u), brought')
    BY OutstandingIsParts DEF Leased
  <2>2. /\ brought \in [Requests -> Nat] /\ brought' \in [Requests -> Nat]
        /\ brought'[r] = brought[r] + n
        /\ \A s \in Requests \ {r} : brought'[s] = brought[s]
    BY DEF LeaseInv, GatewayTypeOK, Brings
  <2> QED
    BY <2>1, <2>2 DEF LeaseInv, GatewayTypeOK, Within
<1>2. CASE u # t
  <2>1. r \notin Leased(u) /\ room'[u] = room[u]
    BY <1>2 DEF Leased, Brings, LeaseInv, GatewayTypeOK
  <2>2. Outstanding(u)' = Outstanding(u)
    BY <1>1, <2>1, PartsAgree, OutstandingIsParts
  <2> QED
    BY <1>1, <2>1, <2>2
<1>3. CASE u = t
  <2>1. r \in Leased(u) /\ room'[u] = room[u] - n
    BY <1>3 DEF Leased, Brings, LeaseInv, GatewayTypeOK
  <2>2. Ceiling(r) \in Nat /\ brought[r] \in Nat /\ brought[r] =< Ceiling(r)
    BY <1>1, LimitTypes
  <2>3. Parts(Leased(u) \ {r}, brought') = Parts(Leased(u) \ {r}, brought)
    BY <1>1, PartsAgree
  <2>4. Cardinality(Outstanding(u)') = Cardinality(Outstanding(u)) - n
    <3> DEFINE rest == Cardinality(Parts(Leased(u) \ {r}, brought))
    <3>1. rest \in Nat /\ Cardinality(Outstanding(u)) = rest + (Ceiling(r) - brought[r])
      BY <1>1, <2>1, <2>2, PartsSize, OutstandingIsParts
    <3>2. Cardinality(Outstanding(u)') = rest + (Ceiling(r) - (brought[r] + n))
      BY <1>1, <2>1, <2>2, <2>3, PartsSize
    <3> QED
      BY <2>2, <3>1, <3>2
  <2>5. Cardinality(Outstanding(u)) \in Nat
    BY OutstandingIsFinite DEF LeaseInv
  <2>6. Positive(balance[u]) \in Nat /\ balance'[u] = balance[u]
    BY <1>1 DEF Positive
  <2> QED
    BY <1>1, <2>1, <2>4, <2>5, <2>6
<1> QED
  BY <1>2, <1>3

------------------------------------------------------------------------------
(* What a step of the scheduler does to the handlers.                       *)

\* The scheduler and the dispatch tasks only forget handlers that have left.
LEMMA BackstageForgets ==
    ASSUME SchedulerInv, Backstage
    PROVE  \A r \in Requests :
               client'[r] = client[r] \/ (Left(client[r]) /\ client'[r] = "idle")
<1>1. client \in [Requests -> HandlerStates]
  BY DEF SchedulerInv, StateTypes
<1>2. CASE Run \/ Deadline
  <2>1. CASE SkipClosed
    <3>1. Head(batch) \in Requests
      BY <2>1, HeadIsBatched DEF SkipClosed
    <3> QED
      BY <1>1, <2>1, <3>1 DEF SkipClosed, IsClosed, Left
  <2>2. CASE Control \/ PopPass \/ PopFirst \/ PopNext \/ Spawn
    <3>1. client' = client
      BY <2>2, ControlKeeps DEF PopPass, PopFirst, PopNext, Spawn, reqVars
    <3> QED
      BY <3>1
  <2> QED
    BY <1>2, <2>1, <2>2 DEF Run, Control
<1>3. ASSUME NEW s \in Requests, Dispatch(s)
      PROVE  \A r \in Requests :
                 client'[r] = client[r] \/ (Left(client[r]) /\ client'[r] = "idle")
  BY <1>1, <1>3
  DEF Dispatch, ReplyOk, ReplyDropped, SendFail, ReplyErr, IsClosed, Left
<1> QED
  BY <1>2, <1>3 DEF Backstage

\* A step that leaves the leases alone keeps what is only about them.
LEMMA UntouchedKeeps ==
    ASSUME LeaseInv, UNCHANGED leaseVars
    PROVE  LeaseInv'
<1>1. \A t \in Tenants : Leased(t)' = Leased(t) /\ Outstanding(t)' = Outstanding(t)
  BY DEF Leased, Outstanding, Uncollected, Ceiling, leaseVars, historyVars
<1>2. LeaseCounts' /\ Within'
  BY <1>1 DEF LeaseInv, LeaseCounts, Within, Positive, leaseVars, historyVars
<1>3. GatewayTypeOK' /\ Metered'
  BY DEF LeaseInv, GatewayTypeOK, Metered, Ceiling, leaseVars, historyVars
<1> QED
  BY <1>2, <1>3 DEF LeaseInv

\* A token is earned: the balance grows by one and the room with it, unless
\* that already holds a full bucket and what is outstanding.
LEMMA EarnKeeps ==
    ASSUME LeaseInv, NEW t \in Tenants, Earn(t)
    PROVE  LeaseInv'
<1>1. GatewayTypeOK' /\ Metered'
  BY DEF Earn, LeaseInv, GatewayTypeOK, Metered, Ceiling
<1>2. \A u \in Tenants : Leased(u)' = Leased(u) /\ Outstanding(u)' = Outstanding(u)
  BY DEF Earn, Leased, Outstanding, Uncollected, Ceiling
<1>3. LeaseCounts'
  BY <1>2 DEF Earn, LeaseInv, LeaseCounts
<1>4. ASSUME NEW u \in Tenants
      PROVE  Cardinality(Outstanding(u)) + Positive(balance'[u]) =< room'[u]
  <2>1. /\ balance[u] \in Int /\ room[u] \in Int /\ Budget[u] \in Nat
        /\ Cardinality(Outstanding(u)) + Positive(balance[u]) =< room[u]
    BY GatewayAssumption DEF LeaseInv, GatewayTypeOK, Within
  <2>2. Cardinality(Outstanding(u)) \in Nat
    BY OutstandingIsFinite DEF LeaseInv
  <2>3. CASE u # t
    BY <2>1, <2>3 DEF Earn, LeaseInv, GatewayTypeOK
  <2>4. CASE u = t
    <3>1. balance[u] < Budget[u] /\ balance'[u] = balance[u] + 1
      BY <2>4 DEF Earn, LeaseInv, GatewayTypeOK
    <3>2. room'[u] = IF room[u] < Budget[u] + Cardinality(Outstanding(u))
                     THEN room[u] + 1 ELSE room[u]
      BY <2>4 DEF Earn, LeaseInv, GatewayTypeOK
    <3> QED
      BY <2>1, <2>2, <3>1, <3>2 DEF Positive
  <2> QED
    BY <2>3, <2>4
<1> QED
  BY <1>1, <1>2, <1>3, <1>4 DEF LeaseInv, Within

LEMMA NextLeases ==
    ASSUME GatewayInv, GatewayNext
    PROVE  Followed' /\ LeaseInv'
<1>1. /\ LeaseInv /\ GatewayTypeOK /\ Followed
      /\ client \in [Requests -> HandlerStates]
  BY DEF GatewayInv, LeaseInv, SchedulerInv, StateTypes
<1>2. CASE Backstage
  <2>1. LeaseInv'
    BY <1>1, <1>2, UntouchedKeeps DEF Backstage
  <2>2. Followed'
    BY <1>1, <1>2, BackstageForgets DEF GatewayInv, Backstage, Followed, Busy, Left, leaseVars
  <2> QED
    BY <2>1, <2>2
<1>3. ASSUME NEW t \in Tenants, Earn(t)
      PROVE  Followed' /\ LeaseInv'
  <2>1. LeaseInv'
    BY <1>1, <1>3, EarnKeeps
  <2>2. Followed'
    BY <1>1, <1>3 DEF Earn, Followed, Busy, Left, vars, reqVars
  <2> QED
    BY <2>1, <2>2
<1>4. ASSUME NEW r \in Requests, Proceed(r) \/ HangUp(r) \/ Forward(r) \/ BodyLost(r)
      PROVE  Followed' /\ LeaseInv'
  <2>1. CASE Enter(r) \/ Respond(r) \/ (Notify(r) /\ UNCHANGED leaseVars)
    <3>1. UNCHANGED leaseVars
      BY <2>1 DEF Enter, Respond
    <3>2. Followed'
      BY <1>1, <2>1 DEF Enter, Submit, SubmitFull, Respond, ReceiveOk, Notify, Followed, Busy,
                        Left, leaseVars, HandlerStates
    <3> QED
      BY <1>1, <3>1, <3>2, UntouchedKeeps
  <2>2. CASE Fail(r) \/ HangUp(r) \/ EndStream(r) \/ BodyLost(r)
    <3>1. Settle(r) /\ Busy(client[r])
      BY <2>2 DEF Fail, AnswerFull, ReceiveErr, HangUp, HangupWaiting, EndStream, BodyLost,
                  Finish, Busy
    <3>2. lease[r] = "open"
      BY <1>1, <3>1 DEF Followed
    <3>3. Followed'
      <4>1. /\ client'[r] \in {"idle", "left", "gone"}
            /\ \A s \in Requests \ {r} : client'[s] = client[s]
        BY <1>1, <2>2 DEF Fail, AnswerFull, ReceiveErr, HangUp, HangupWaiting, EndStream,
                          BodyLost, Finish
      <4>2. lease'[r] = "none" /\ \A s \in Requests \ {r} : lease'[s] = lease[s]
        BY <1>1, <3>1 DEF Settle, GatewayTypeOK
      <4> QED
        BY <1>1, <4>1, <4>2 DEF Followed, Busy, Left
    <3> QED
      BY <1>1, <3>1, <3>2, <3>3, SettleKeeps
  <2>3. CASE SettleBuffered(r)
    <3>1. Settle(r) /\ lease[r] = "settling" /\ client' = client
      BY <2>3 DEF SettleBuffered, vars, reqVars
    <3>2. Followed'
      BY <1>1, <3>1 DEF Settle, GatewayTypeOK, Followed, Busy, Left
    <3> QED
      BY <1>1, <3>1, <3>2, SettleKeeps
  <2>4. CASE Forward(r)
    <3>1. lease[r] = "open" /\ r \in Streamed /\ Ceiling(r) \in Nat
      BY <1>1, <2>4, LimitTypes DEF Forward, Followed, Busy
    <3>2. \A u \in Tenants : Leased(u)' = Leased(u)
      BY <2>4 DEF Forward, Leased
    <3>3. LeaseCounts' /\ Followed'
      BY <1>1, <2>4, <3>2 DEF Forward, LeaseInv, LeaseCounts, Followed, Busy, Left, vars, reqVars
    <3>4. CASE brought[r] < Ceiling(r) /\ Brings(r, 1)
      <4>1. GatewayTypeOK' /\ Metered'
        <5>1. TenantOf[r] \in Tenants /\ brought[r] \in Nat /\ used[r] \in Nat
          BY <1>1, LimitTypes DEF GatewayTypeOK
        <5>2. GatewayTypeOK'
          BY <1>1, <2>4, <3>4, <5>1 DEF Forward, Brings, GatewayTypeOK
        <5>3. Metered'
          BY <1>1, <2>4, <3>1, <3>4, <5>1
          DEF Forward, Brings, LeaseInv, GatewayTypeOK, Metered, Ceiling
        <5> QED
          BY <5>2, <5>3
      <4>2. Within'
        BY <1>1, <2>4, <3>1, <3>2, <3>4, BringsKeeps DEF Forward, GatewayTypeOK
      <4> QED
        BY <3>3, <4>1, <4>2 DEF LeaseInv
    <3>5. CASE UNCHANGED historyVars
      <4>1. GatewayTypeOK' /\ Metered'
        BY <1>1, <2>4, <3>5
        DEF Forward, LeaseInv, GatewayTypeOK, Metered, Ceiling, historyVars
      <4>2. \A u \in Tenants : Outstanding(u)' = Outstanding(u)
        BY <3>2, <3>5 DEF Outstanding, Uncollected, Ceiling, historyVars
      <4>3. Within'
        BY <1>1, <2>4, <3>5, <4>2 DEF Forward, LeaseInv, Within, Positive, historyVars
      <4> QED
        BY <3>3, <4>1, <4>3 DEF LeaseInv
    <3> QED
      BY <2>4, <3>4, <3>5 DEF Forward
  <2>5. CASE BodyIn(r)
    <3>1. lease[r] = "open" /\ r \notin Streamed /\ brought[r] = 0 /\ Ceiling(r) \in Nat
      BY <1>1, <2>5, LimitTypes DEF BodyIn, Finish, Followed, Busy, LeaseInv, Metered
    <3>2. PICK n \in 0 .. Ceiling(r) : used' = [used EXCEPT ![r] = @ + n] /\ Brings(r, n)
      BY <2>5 DEF BodyIn
    <3>3. GatewayTypeOK' /\ Metered'
      <4>1. TenantOf[r] \in Tenants /\ brought[r] \in Nat /\ used[r] \in Nat /\ n \in Nat
        BY <1>1, <3>1, LimitTypes DEF GatewayTypeOK
      <4>2. GatewayTypeOK'
        BY <1>1, <2>5, <3>2, <4>1 DEF BodyIn, Brings, GatewayTypeOK
      <4>3. Metered'
        BY <1>1, <2>5, <3>1, <3>2, <4>1
        DEF BodyIn, Brings, LeaseInv, GatewayTypeOK, Metered, Ceiling
      <4> QED
        BY <4>2, <4>3
    <3>4. \A u \in Tenants : Leased(u)' = Leased(u)
      BY <1>1, <2>5, <3>1 DEF BodyIn, Leased, GatewayTypeOK
    <3>5. Within'
      BY <1>1, <2>5, <3>1, <3>2, <3>4, BringsKeeps DEF BodyIn
    <3>6. LeaseCounts'
      BY <1>1, <2>5, <3>4 DEF BodyIn, LeaseInv, LeaseCounts
    <3>7. Followed'
      BY <1>1, <2>5 DEF BodyIn, Finish, GatewayTypeOK, Followed, Busy, Left
    <3> QED
      BY <3>3, <3>5, <3>6, <3>7 DEF LeaseInv
  <2> QED
    BY <1>4, <2>1, <2>2, <2>3, <2>4, <2>5 DEF Proceed
<1> QED
  BY <1>2, <1>3, <1>4, AdmitKeeps DEF GatewayNext

LEMMA GatewayInvHolds == GatewaySpec => []GatewayInv
<1>1. GatewayInv /\ [GatewayNext]_gatewayVars => GatewayInv'
  <2> SUFFICES ASSUME GatewayInv, [GatewayNext]_gatewayVars PROVE GatewayInv'
    OBVIOUS
  <2>1. SchedulerInv'
    BY StepIsScheduled, NextSchedulerInv DEF GatewayInv
  <2>2. CASE GatewayNext
    BY <2>1, <2>2, NextLeases DEF GatewayInv
  <2>3. CASE UNCHANGED gatewayVars
    <3>1. LeaseInv'
      BY <2>3, UntouchedKeeps DEF GatewayInv, gatewayVars
    <3>2. Followed'
      BY <2>3 DEF GatewayInv, Followed, gatewayVars, leaseVars, vars, reqVars
    <3> QED
      BY <2>1, <3>1, <3>2 DEF GatewayInv
  <2> QED
    BY <2>2, <2>3
<1> QED
  BY <1>1, InitGatewayInv, PTL DEF GatewaySpec

------------------------------------------------------------------------------

\* The types of the leases and of their tenants' accounts (Lease, TenantState).
THEOREM LeasesAreTyped == GatewaySpec => []GatewayTypeOK
<1>1. GatewayInv => GatewayTypeOK
  BY DEF GatewayInv, LeaseInv
<1> QED
  BY <1>1, GatewayInvHolds, PTL

\* Every exit path settles a lease once: a handler under way has one, a handler
\* that is gone has none, and `active` counts them within max_concurrent.
THEOREM LeasesAreSettledOnce == GatewaySpec => []LeasesFollowHandlers
<1>1. GatewayInv => LeasesFollowHandlers
  BY DEF GatewayInv, LeaseInv, Followed, LeaseCounts, LeasesFollowHandlers, Abandoned, Busy, Left
<1> QED
  BY <1>1, GatewayInvHolds, PTL

\* A tenant's requests in the queue, the batch and at the backend whose client
\* is still there are no more than max_concurrent, window or not.
THEOREM LiveShareIsBounded == GatewaySpec => []LiveShareBounded
<1>1. GatewayInv => LiveShareBounded
  <2> SUFFICES ASSUME GatewayInv, NEW t \in Tenants
               PROVE  Cardinality(InSystem(t) \ Abandoned) =< MaxConcurrent[t]
    BY DEF LiveShareBounded
  <2>1. ASSUME NEW r \in InSystem(t) \ Abandoned PROVE r \in Leased(t)
    <3>1. r \in Requests /\ TenantOf[r] = t
      <4>1. Queued \subseteq Requests
        BY QueuedAreRequests DEF GatewayInv
      <4>2. InBatch \subseteq Requests
        BY DEF GatewayInv, SchedulerInv, BatchOK, InBatch, Range
      <4> QED
        BY <2>1, <4>1, <4>2 DEF InSystem, AtBackend
    <3>2. Busy(client[r])
      <4>1. client[r] \in HandlerStates
        BY <3>1 DEF GatewayInv, SchedulerInv, StateTypes
      <4>2. HasSender(r) \/ mail[r] = "ok" \/ client[r] = "holding"
        BY <2>1, <3>1 DEF InSystem, AtBackend, HasSender, Dispatching
      <4> QED
        BY <2>1, <3>1, <4>1, <4>2
        DEF GatewayInv, SchedulerInv, PlacesOK, Abandoned, HandlerStates, Busy
    <3> QED
      BY <3>1, <3>2 DEF GatewayInv, Followed, Leased
  <2>2. Cardinality(InSystem(t) \ Abandoned) =< Cardinality(Leased(t))
    BY <2>1, LeasedIsFinite, FS_Subset
  <2>3. IsFiniteSet(InSystem(t) \ Abandoned)
    BY <2>1, LeasedIsFinite, FS_Subset
  <2>4. MaxConcurrent[t] \in Nat /\ Cardinality(InSystem(t) \ Abandoned) \in Nat
    BY <2>3, GatewayAssumption, FS_CardinalityType
  <2> QED
    BY <2>2, <2>4, LeasedIsFinite DEF GatewayInv, LeaseInv, LeaseCounts
<1> QED
  BY <1>1, GatewayInvHolds, PTL

\* Whatever the interleaving of admissions, replies, hang-ups and refills, the
\* tokens a tenant's replies have brought and those its leases still cover are
\* within its capacity and what it has earned, as long as the backend keeps to
\* max_tokens; frames without a token only cost the tenant more.
THEOREM BudgetsAreNeverOversold == GatewaySpec => []NeverOversold
<1>1. GatewayInv => NeverOversold
  <2> SUFFICES ASSUME GatewayInv, NEW t \in Tenants
               PROVE  Cardinality(Outstanding(t)) =< room[t]
    BY DEF NeverOversold
  <2>1. /\ Cardinality(Outstanding(t)) + Positive(balance[t]) =< room[t]
        /\ balance[t] \in Int /\ room[t] \in Int
    BY DEF GatewayInv, LeaseInv, GatewayTypeOK, Within
  <2>2. Cardinality(Outstanding(t)) \in Nat
    BY OutstandingIsFinite DEF GatewayInv, LeaseInv
  <2> QED
    BY <2>1, <2>2 DEF Positive
<1> QED
  BY <1>1, GatewayInvHolds, PTL

\* But for fairness, which only the runs check, the gateway is the scheduler
\* with leases: it starts as the scheduler does and each of its steps is a step
\* of the scheduler's or a stutter, so the scheduler's safety is the gateway's.
THEOREM GatewayStepsAreScheduler == GatewaySpec => Init /\ [][Next]_vars
<1>1. GatewayInit => Init
  BY DEF GatewayInit
<1>2. [GatewayNext]_gatewayVars => [Next]_vars
  BY StepIsScheduled
<1> QED
  BY <1>1, <1>2, PTL DEF GatewaySpec
==============================================================================
