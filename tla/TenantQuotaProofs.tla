--------------------------- MODULE TenantQuotaProofs ---------------------------
(***************************************************************************)
(* Proofs about TenantQuota: for any rates, capacities, reservations and   *)
(* number of handlers, and however far the two exploration bounds are.     *)
(***************************************************************************)
EXTENDS TenantQuota, FiniteSetTheorems, TLAPS

------------------------------------------------------------------------------
(* Buckets.                                                                 *)

LEMMA Distribute ==
    ASSUME NEW a \in Int, NEW b \in Int, NEW c \in Int
    PROVE  a * (b + c) = a * b + a * c
OBVIOUS

LEMMA NatTimesNat ==
    ASSUME NEW a \in Nat, NEW b \in Nat
    PROVE  a * b \in Nat
OBVIOUS

\* What refilling a bucket up to a time t does, t being older than `last` or
\* not: it credits no more than the seconds `last` moves forward, and takes
\* nothing away when it moves back.
LEMMA RefillCredits ==
    ASSUME NEW cap \in Nat, NEW rate \in Nat, NEW b \in Bucket(cap), NEW t \in 0 .. MaxTime
    PROVE  /\ Refill(b, cap, rate, t) \in Bucket(cap)
           /\ Refill(b, cap, rate, t).last = t
           /\ Refill(b, cap, rate, t).level >= b.level
           /\ Refill(b, cap, rate, t).level
                <= b.level + rate * (t + Excess(b.last, t) - b.last)
<1> DEFINE r == Refill(b, cap, rate, t)
<1>0. MaxTime \in Nat
  BY QuotaAssumption
<1>1. b.level \in Int /\ b.level <= cap /\ b.last \in Nat /\ t \in Nat
  BY <1>0 DEF Bucket
<1>2. CASE t > b.last
  <2>1. rate * (t - b.last) \in Nat
    BY <1>1, <1>2, NatTimesNat
  <2>2. Excess(b.last, t) = 0 /\ t + Excess(b.last, t) - b.last = t - b.last
    BY <1>1, <1>2 DEF Excess
  <2>3. r = [level |-> Lesser(b.level + rate * (t - b.last), cap), last |-> t]
    BY <1>2 DEF Refill
  <2>4. /\ Lesser(b.level + rate * (t - b.last), cap) \in Int
        /\ Lesser(b.level + rate * (t - b.last), cap) <= cap
        /\ Lesser(b.level + rate * (t - b.last), cap) >= b.level
        /\ Lesser(b.level + rate * (t - b.last), cap) <= b.level + rate * (t - b.last)
    BY <1>1, <2>1 DEF Lesser
  <2> QED
    BY <2>2, <2>3, <2>4 DEF Bucket
<1>3. CASE ~(t > b.last)
  <2>1. t + Excess(b.last, t) - b.last = 0
    BY <1>1, <1>3 DEF Excess
  <2>2. rate * 0 = 0
    OBVIOUS
  <2>3. r = [level |-> b.level, last |-> t]
    BY <1>3 DEF Refill
  <2> QED
    BY <1>1, <2>1, <2>2, <2>3 DEF Bucket
<1> QED
  BY <1>2, <1>3

LEMMA RefillType ==
    ASSUME NEW cap \in Nat, NEW rate \in Nat, NEW b \in Bucket(cap), NEW t \in 0 .. MaxTime
    PROVE  /\ Refill(b, cap, rate, t) \in Bucket(cap)
           /\ Refill(b, cap, rate, t).last = t
           /\ Refill(b, cap, rate, t).level >= b.level
<1> DEFINE r == Refill(b, cap, rate, t)
<1>1. r \in Bucket(cap)
  BY RefillCredits
<1>2. r.last = t
  BY DEF Refill
<1>3. r.level >= b.level
  BY RefillCredits
<1> QED
  BY <1>1, <1>2, <1>3

\* The account of a bucket stays balanced when it is refilled, the seconds
\* that `last` goes back being noted.
LEMMA RefillBalances ==
    ASSUME NEW cap \in Nat, NEW rate \in Nat, NEW b \in Bucket(cap), NEW t \in 0 .. MaxTime,
           NEW out \in Int, NEW back \in Nat,
           out + b.level <= cap + rate * (b.last + back)
    PROVE  out + Refill(b, cap, rate, t).level
             <= cap + rate * (t + (back + Excess(b.last, t)))
<1> DEFINE gap == t + Excess(b.last, t) - b.last
<1>0. MaxTime \in Nat
  BY QuotaAssumption
<1>1. b.level \in Int /\ b.last \in Nat /\ t \in Nat
  BY <1>0 DEF Bucket
<1>2. Excess(b.last, t) \in Nat
  BY <1>1 DEF Excess
<1>3. gap \in Int /\ b.last + back \in Int
  BY <1>1, <1>2
<1>4. rate * ((b.last + back) + gap) = rate * (b.last + back) + rate * gap
  BY <1>3, Distribute
<1>5. (b.last + back) + gap = t + (back + Excess(b.last, t))
  BY <1>1, <1>2
<1>6. rate * (b.last + back) \in Int /\ rate * gap \in Int
  BY <1>3
<1>7. /\ Refill(b, cap, rate, t).level \in Int
      /\ Refill(b, cap, rate, t).level <= b.level + rate * gap
  BY RefillCredits DEF Bucket
<1> HIDE DEF gap
<1> QED
  BY <1>1, <1>4, <1>5, <1>6, <1>7

------------------------------------------------------------------------------
(* Types.                                                                   *)

LEMMA RefilledType ==
    ASSUME TypeOK, NEW h \in Handlers
    PROVE  /\ RefilledRequests(h) \in Bucket(ReqCap) /\ RefilledRequests(h).last = now[h]
           /\ RefilledRequests(h).level >= requests.level
           /\ RefilledTokens(h) \in Bucket(TokCap) /\ RefilledTokens(h).last = now[h]
           /\ RefilledTokens(h).level >= tokens.level
           /\ BackInRequests(h) \in Nat /\ BackInTokens(h) \in Nat
<1> USE QuotaAssumption DEF TypeOK
<1>1. now[h] \in 0 .. MaxTime
  OBVIOUS
<1>2. RefilledRequests(h) \in Bucket(ReqCap) /\ RefilledRequests(h).level >= requests.level
  BY <1>1, RefillType DEF RefilledRequests
<1>3. RefilledTokens(h) \in Bucket(TokCap) /\ RefilledTokens(h).level >= tokens.level
  BY <1>1, RefillType DEF RefilledTokens
<1>4. RefilledRequests(h).last = now[h] /\ RefilledTokens(h).last = now[h]
  BY DEF RefilledRequests, RefilledTokens, Refill
<1>5. BackInRequests(h) \in Nat /\ BackInTokens(h) \in Nat
  BY <1>1 DEF BackInRequests, BackInTokens, Excess, Bucket
<1> QED
  BY <1>2, <1>3, <1>4, <1>5

\* Every variable keeps its type; in particular the request bucket is never
\* overdrawn and no bucket holds more than its capacity.
LEMMA TypeStep == TypeOK /\ [Next]_vars => TypeOK'
<1> SUFFICES ASSUME TypeOK, [Next]_vars PROVE TypeOK'
  OBVIOUS
<1> USE QuotaAssumption DEF TypeOK
<1>1. CASE Tick
  BY <1>1 DEF Tick, handlerVars, bucketVars, historyVars
<1>2. CASE Probe
  <2>1. tokens' \in Bucket(TokCap)
    BY <1>2, RefillType DEF Probe
  <2> QED
    BY <1>2, <2>1 DEF Probe, handlerVars, historyVars
<1>3. ASSUME NEW h \in Handlers, NEW n \in Reservations, BeginAdmit(h, n) PROVE TypeOK'
  BY <1>3 DEF BeginAdmit, bucketVars
<1>5. ASSUME NEW h \in Handlers, RefuseConcurrency(h) PROVE TypeOK'
  BY <1>5 DEF RefuseConcurrency, Refused, Return, bucketVars
<1>6. ASSUME NEW h \in Handlers, RefuseRate(h) PROVE TypeOK'
  <2>1. requests' \in Bucket(ReqCap) /\ requests'.level >= 0
    BY RefilledType, <1>6 DEF RefuseRate, Bucket
  <2> QED
    BY RefilledType, <1>6, <2>1 DEF RefuseRate, Refused, Return
<1>7. ASSUME NEW h \in Handlers, RefuseTokens(h) PROVE TypeOK'
  <2>1. requests' \in Bucket(ReqCap) /\ requests'.level >= 0
    BY RefilledType, <1>7 DEF RefuseTokens, Bucket
  <2> QED
    BY RefilledType, <1>7, <2>1 DEF RefuseTokens, Refused, Return
<1>8. ASSUME NEW h \in Handlers, Grant(h) PROVE TypeOK'
  <2>1. requests' \in Bucket(ReqCap) /\ requests'.level >= 0
    BY RefilledType, <1>8 DEF Grant, Take, Bucket
  <2>2. tokens' \in Bucket(TokCap)
    BY RefilledType, <1>8 DEF Grant, Take, Bucket
  <2> QED
    BY RefilledType, <1>8, <2>1, <2>2 DEF Grant
<1>9. ASSUME NEW h \in Handlers, Record(h) PROVE TypeOK'
  BY <1>9 DEF Record, bucketVars, historyVars
<1>10. ASSUME NEW h \in Handlers, BeginDrop(h) PROVE TypeOK'
  BY <1>10 DEF BeginDrop, bucketVars, historyVars
<1>11. ASSUME NEW h \in Handlers, Settle(h) PROVE TypeOK'
  <2>1. tokens' \in Bucket(TokCap)
    BY RefilledType, <1>11 DEF Settle, Lesser, Bucket
  <2>2. active' \in Nat /\ overrun' \in Nat
    BY <1>11 DEF Settle, Excess
  <2> QED
    BY RefilledType, <1>11, <2>1, <2>2 DEF Settle, Return
<1>12. CASE UNCHANGED vars
  BY <1>12 DEF vars, handlerVars, bucketVars, historyVars
<1> QED
  BY <1>1, <1>2, <1>3, <1>5, <1>6, <1>7, <1>8, <1>9, <1>10, <1>11, <1>12
     DEF Next, Refuse

LEMMA TypeInit == Init => TypeOK
BY QuotaAssumption DEF Init, TypeOK, Bucket

\* Every reachable state has the types the module declares.
THEOREM TypeCorrect == Spec => []TypeOK
BY TypeInit, TypeStep, PTL DEF Spec

------------------------------------------------------------------------------
(* Accounts: what a bucket has let through is paid for by what it held and  *)
(* what it was refilled with, every second gone back counted again.         *)

\* No handler and no bucket knows a time that is still to come.
TimesArePast ==
    /\ requests.last <= clock /\ tokens.last <= clock
    /\ \A h \in Handlers : now[h] <= clock

AccountsOK ==
    TypeOK /\ TimesArePast /\ RateUpToRewind /\ TokenAccount /\ DebtOnlyFromOveruse

LEMMA TimesStep == TypeOK /\ TimesArePast /\ [Next]_vars => TimesArePast'
<1> SUFFICES ASSUME TypeOK, TimesArePast, [Next]_vars PROVE TimesArePast'
  OBVIOUS
<1> USE DEF TimesArePast
<1>t. /\ clock \in Nat /\ requests.last \in Nat /\ tokens.last \in Nat
      /\ now \in [Handlers -> Nat]
  BY QuotaAssumption DEF TypeOK, Bucket
<1>r. \A h \in Handlers : RefilledRequests(h).last = now[h] /\ RefilledTokens(h).last = now[h]
  BY DEF RefilledRequests, RefilledTokens, Refill
<1>1. CASE Tick
  BY <1>t, <1>1 DEF Tick, handlerVars, bucketVars
<1>2. CASE Probe
  BY <1>t, <1>2 DEF Probe, Refill, handlerVars
<1>3. ASSUME NEW h \in Handlers, \E n \in Reservations : BeginAdmit(h, n) PROVE TimesArePast'
  BY <1>t, <1>3 DEF BeginAdmit, bucketVars
<1>4. ASSUME NEW h \in Handlers, Refuse(h) PROVE TimesArePast'
  BY <1>t, <1>r, <1>4
     DEF Refuse, RefuseConcurrency, RefuseRate, RefuseTokens, Refused, Return, bucketVars
<1>5. ASSUME NEW h \in Handlers, Grant(h) PROVE TimesArePast'
  BY <1>t, <1>r, <1>5 DEF Grant, Take
<1>6. ASSUME NEW h \in Handlers, Record(h) \/ BeginDrop(h) PROVE TimesArePast'
  BY <1>t, <1>6 DEF Record, BeginDrop, bucketVars
<1>7. ASSUME NEW h \in Handlers, Settle(h) PROVE TimesArePast'
  BY <1>t, <1>7 DEF Settle, Return
<1>8. CASE UNCHANGED vars
  BY <1>8 DEF vars, handlerVars, bucketVars
<1> QED
  BY <1>1, <1>2, <1>3, <1>4, <1>5, <1>6, <1>7, <1>8 DEF Next

\* A refill to a handler's time keeps both accounts balanced.
LEMMA RefillAccounts ==
    ASSUME AccountsOK, NEW h \in Handlers
    PROVE  /\ RefilledRequests(h) \in Bucket(ReqCap) /\ RefilledRequests(h).last = now[h]
           /\ RefilledTokens(h) \in Bucket(TokCap) /\ RefilledTokens(h).last = now[h]
           /\ RefilledTokens(h).level >= tokens.level
           /\ BackInRequests(h) \in Nat /\ BackInTokens(h) \in Nat
           /\ granted * Cost + RefilledRequests(h).level
                <= ReqCap + ReqRate * (now[h] + BackInRequests(h))
           /\ pending + spent + RefilledTokens(h).level
                <= TokCap + TokRate * (now[h] + BackInTokens(h))
<1> USE QuotaAssumption
<1>1. /\ now[h] \in 0 .. MaxTime /\ requests \in Bucket(ReqCap) /\ tokens \in Bucket(TokCap)
      /\ rewound.requests \in Nat /\ rewound.tokens \in Nat
      /\ granted \in Nat /\ pending \in Int /\ spent \in Nat
  BY DEF AccountsOK, TypeOK
<1>2. granted * Cost \in Int /\ pending + spent \in Int
  BY <1>1, NatTimesNat
<1>3. granted * Cost + requests.level <= ReqCap + ReqRate * (requests.last + rewound.requests)
  BY DEF AccountsOK, RateUpToRewind
<1>4. (pending + spent) + tokens.level <= TokCap + TokRate * (tokens.last + rewound.tokens)
  BY <1>1 DEF AccountsOK, TokenAccount, Bucket
<1>5. granted * Cost + RefilledRequests(h).level
        <= ReqCap + ReqRate * (now[h] + BackInRequests(h))
  BY <1>1, <1>2, <1>3, RefillBalances DEF RefilledRequests, BackInRequests
<1>6. (pending + spent) + RefilledTokens(h).level
        <= TokCap + TokRate * (now[h] + BackInTokens(h))
  BY <1>1, <1>2, <1>4, RefillBalances DEF RefilledTokens, BackInTokens
<1>7. TypeOK
  BY DEF AccountsOK
<1> QED
  BY <1>5, <1>6, <1>7, RefilledType

LEMMA AccountsStep == AccountsOK /\ [Next]_vars => AccountsOK'
<1> SUFFICES ASSUME AccountsOK, [Next]_vars PROVE AccountsOK'
  OBVIOUS
<1>0. TypeOK /\ TypeOK' /\ TimesArePast /\ TimesArePast'
  BY TypeStep, TimesStep DEF AccountsOK
<1> DEFINE Goal == RateUpToRewind' /\ TokenAccount' /\ DebtOnlyFromOveruse'
<1> SUFFICES Goal
  BY <1>0 DEF AccountsOK
<1> USE QuotaAssumption DEF RateUpToRewind, TokenAccount, DebtOnlyFromOveruse
<1>a. RateUpToRewind /\ TokenAccount /\ DebtOnlyFromOveruse
  BY DEF AccountsOK
<1>t. /\ requests.level \in Int /\ tokens.level \in Int /\ overrun \in Nat
      /\ granted \in Nat /\ pending \in Int /\ spent \in Nat
      /\ \A h \in Handlers : reserved[h] \in Nat /\ used[h] \in Nat
  BY <1>0 DEF TypeOK, Bucket
<1>1. ASSUME UNCHANGED <<requests, tokens, granted, spent, pending, overrun, rewound>>
      PROVE  Goal
  BY <1>1, <1>a
<1>2. CASE Probe
  <2>1. clock \in 0 .. MaxTime /\ tokens \in Bucket(TokCap) /\ rewound.tokens \in Nat
    BY <1>0 DEF TypeOK
  <2>2. tokens'.last = clock /\ tokens'.level \in Int /\ tokens'.level >= tokens.level
    <3>1. tokens' \in Bucket(TokCap) /\ tokens'.level >= tokens.level
      BY <1>0, <1>2, RefillType DEF Probe, TypeOK
    <3>2. tokens'.last = clock
      BY <1>2 DEF Probe, Refill
    <3> QED
      BY <3>1, <3>2 DEF Bucket
  <2>3. (pending + spent) + tokens'.level
          <= TokCap + TokRate * (clock + (rewound.tokens + Excess(tokens.last, clock)))
    BY <1>a, <1>t, <1>2, <2>1, RefillBalances DEF Probe
  <2>4. rewound.tokens + Excess(tokens.last, clock) = rewound.tokens
    BY <1>0, <2>1 DEF Excess, TimesArePast, Bucket
  <2>5. TokenAccount'
    BY <1>t, <1>2, <2>2, <2>3, <2>4 DEF Probe, historyVars
  <2> QED
    BY <1>a, <1>t, <1>2, <2>2, <2>5 DEF Probe, historyVars
<1>3. ASSUME NEW h \in Handlers, RefuseRate(h) PROVE Goal
  <2>1. /\ requests' = RefilledRequests(h) /\ rewound'.requests = BackInRequests(h)
        /\ rewound'.tokens = rewound.tokens
        /\ UNCHANGED <<tokens, granted, spent, pending, overrun>>
    BY <1>0, <1>3 DEF RefuseRate, Refused, TypeOK
  <2> QED
    BY <1>a, <2>1, RefillAccounts
<1>4. ASSUME NEW h \in Handlers, RefuseTokens(h) PROVE Goal
  <2>1. /\ requests' = RefilledRequests(h) /\ tokens' = RefilledTokens(h)
        /\ rewound' = [requests |-> BackInRequests(h), tokens |-> BackInTokens(h)]
        /\ UNCHANGED <<granted, spent, pending, overrun>>
    BY <1>4 DEF RefuseTokens, Refused
  <2> QED
    BY <1>a, <1>t, <2>1, RefillAccounts DEF Bucket
<1>5. ASSUME NEW h \in Handlers, Grant(h) PROVE Goal
  <2>1. /\ requests' = Take(RefilledRequests(h), Cost)
        /\ tokens' = Take(RefilledTokens(h), reserved[h])
        /\ RefilledTokens(h).level >= reserved[h]
        /\ granted' = granted + 1 /\ pending' = pending + reserved[h]
        /\ rewound' = [requests |-> BackInRequests(h), tokens |-> BackInTokens(h)]
        /\ UNCHANGED <<spent, overrun>>
    BY <1>5 DEF Grant, EnoughTokens
  <2>2. (granted + 1) * Cost = granted * Cost + Cost
    BY <1>t
  <2>3. RefilledRequests(h).level \in Int /\ RefilledTokens(h).level \in Int
    BY RefillAccounts DEF Bucket
  <2>4. granted * Cost \in Int
    BY <1>t, NatTimesNat
  <2>5. RateUpToRewind'
    <3>1. /\ granted' * Cost + requests'.level = granted * Cost + RefilledRequests(h).level
          /\ requests'.last = now[h] /\ rewound'.requests = BackInRequests(h)
      BY <2>1, <2>2, <2>3, <2>4, RefillAccounts DEF Take
    <3> QED
      BY <3>1, RefillAccounts
  <2>6. TokenAccount'
    <3>1. /\ tokens'.level + pending' + spent' = pending + spent + RefilledTokens(h).level
          /\ tokens'.last = now[h] /\ rewound'.tokens = BackInTokens(h)
      BY <1>t, <2>1, <2>3, RefillAccounts DEF Take
    <3> QED
      BY <3>1, RefillAccounts
  <2>7. DebtOnlyFromOveruse'
    BY <1>t, <2>1, <2>3 DEF Take
  <2> QED
    BY <2>5, <2>6, <2>7
<1>6. ASSUME NEW h \in Handlers, Settle(h) PROVE Goal
  <2> DEFINE level == RefilledTokens(h).level + reserved[h] - used[h]
  <2>1. /\ tokens' = [level |-> Lesser(level, TokCap), last |-> now[h]]
        /\ spent' = spent + used[h] /\ pending' = pending - reserved[h]
        /\ overrun' = overrun + Excess(used[h], reserved[h])
        /\ rewound'.requests = rewound.requests /\ rewound'.tokens = BackInTokens(h)
        /\ UNCHANGED <<requests, granted>>
    BY <1>0, <1>6 DEF Settle, TypeOK
  <2>2. RefilledTokens(h).level \in Int /\ level \in Int
    BY <1>t, RefillAccounts DEF Bucket
  <2>3. tokens'.level \in Int /\ tokens'.level <= level
    BY <2>1, <2>2 DEF Lesser
  <2>4. RateUpToRewind'
    BY <1>a, <2>1
  <2>5. TokenAccount'
    <3>1. tokens'.level + pending' + spent' <= pending + spent + RefilledTokens(h).level
      BY <1>t, <2>1, <2>2, <2>3
    <3>2. tokens'.last = now[h]
      BY <2>1
    <3>3. TokRate * (now[h] + BackInTokens(h)) \in Int
      BY <1>0, RefillAccounts DEF TypeOK
    <3>4. tokens'.level + pending' + spent' \in Int
      BY <1>t, <2>1, <2>3
    <3> QED
      BY <1>t, <2>1, <2>2, <3>1, <3>2, <3>3, <3>4, RefillAccounts
  <2>6. DebtOnlyFromOveruse'
    <3>1. RefilledTokens(h).level >= 0 - overrun
      BY <1>a, <1>t, <2>2, RefillAccounts
    <3>2. level >= 0 - (overrun + Excess(used[h], reserved[h]))
      BY <1>t, <2>2, <3>1 DEF Excess
    <3>3. Lesser(level, TokCap) >= 0 - (overrun + Excess(used[h], reserved[h]))
      BY <1>t, <2>2, <3>2 DEF Lesser, Excess
    <3> QED
      BY <2>1, <3>3
  <2> QED
    BY <2>4, <2>5, <2>6
<1>7. ASSUME NEW h \in Handlers,
             \/ \E n \in Reservations : BeginAdmit(h, n)
             \/ RefuseConcurrency(h) \/ Record(h) \/ BeginDrop(h)
      PROVE  Goal
  BY <1>1, <1>7
     DEF BeginAdmit, RefuseConcurrency, Refused, Record, BeginDrop, bucketVars, historyVars
<1>8. CASE Tick \/ UNCHANGED vars
  BY <1>1, <1>8 DEF Tick, vars, bucketVars, historyVars
<1> QED
  BY <1>2, <1>3, <1>4, <1>5, <1>6, <1>7, <1>8 DEF Next, Refuse

LEMMA AccountsInit == Init => AccountsOK
<1> SUFFICES ASSUME Init PROVE AccountsOK
  OBVIOUS
<1>1. TypeOK
  BY TypeInit
<1>2. 0 * Cost = 0 /\ ReqRate * (0 + 0) = 0 /\ TokRate * (0 + 0) = 0
  BY QuotaAssumption
<1> QED
  BY <1>1, <1>2, QuotaAssumption
     DEF Init, AccountsOK, TimesArePast, RateUpToRewind, TokenAccount, DebtOnlyFromOveruse

\* A tenant's requests pass its rate only by the seconds credited twice.
THEOREM RateIsBounded == Spec => []RateUpToRewind
BY AccountsInit, AccountsStep, PTL DEF Spec, AccountsOK

\* No token is reserved, spent or refunded twice, whatever the interleaving
\* of admissions and settlements.
THEOREM TokensAreAccounted == Spec => []TokenAccount
BY AccountsInit, AccountsStep, PTL DEF Spec, AccountsOK

\* A tenant whose replies keep to their reservations is never in debt.
THEOREM DebtIsOveruse == Spec => []DebtOnlyFromOveruse
BY AccountsInit, AccountsStep, PTL DEF Spec, AccountsOK

\* As long as no bucket's `last` has gone back, the bucket is the one its
\* comment describes: the stale time is the only way past the rate.
THEOREM RateHonouredUntilRewind == Spec => [](rewound.requests = 0 => RateHonoured)
<1>1. AccountsOK => (rewound.requests = 0 => RateHonoured)
  <2> SUFFICES ASSUME AccountsOK, rewound.requests = 0 PROVE RateHonoured
    OBVIOUS
  <2>1. /\ requests.level \in Nat /\ requests.last \in Nat /\ clock \in Nat
        /\ requests.last <= clock /\ granted \in Nat
    BY QuotaAssumption DEF AccountsOK, TypeOK, TimesArePast, Bucket
  <2>2. granted * Cost + requests.level <= ReqCap + ReqRate * requests.last
    <3>1. requests.last + rewound.requests = requests.last
      BY <2>1
    <3> QED
      BY <3>1 DEF AccountsOK, RateUpToRewind
  <2>3. ReqRate * clock = ReqRate * requests.last + ReqRate * (clock - requests.last)
    <3>1. requests.last + (clock - requests.last) = clock
      BY <2>1
    <3> QED
      BY <2>1, <3>1, QuotaAssumption, Distribute
  <2>4. ReqRate * (clock - requests.last) \in Nat
    BY <2>1, QuotaAssumption, NatTimesNat
  <2>5. granted * Cost \in Nat /\ ReqRate * requests.last \in Nat /\ ReqRate * clock \in Nat
    BY <2>1, QuotaAssumption, NatTimesNat
  <2> QED
    BY <2>1, <2>2, <2>3, <2>4, <2>5, QuotaAssumption DEF RateHonoured
<1> QED
  BY <1>1, AccountsInit, AccountsStep, PTL DEF Spec

------------------------------------------------------------------------------
(* Leases.                                                                  *)

LEMMA LeasesStep == TypeOK /\ ActiveCountsLeases /\ [Next]_vars => ActiveCountsLeases'
<1> SUFFICES ASSUME TypeOK, ActiveCountsLeases, [Next]_vars PROVE ActiveCountsLeases'
  OBVIOUS
<1> USE QuotaAssumption DEF ActiveCountsLeases
<1>t. active \in Nat /\ pc \in [Handlers -> {"idle", "admitting", "leased", "dropping"}]
  BY DEF TypeOK
<1>f. IsFiniteSet(Leases)
  BY FS_Subset DEF Leases
<1>1. ASSUME Leases' = Leases, active' = active PROVE ActiveCountsLeases'
  BY <1>1
<1>2. ASSUME NEW h \in Handlers, Grant(h) PROVE ActiveCountsLeases'
  <2>1. h \notin Leases /\ Leases' = Leases \cup {h}
    BY <1>t, <1>2 DEF Grant, Leases
  <2>2. Cardinality(Leases') = Cardinality(Leases) + 1
    BY <1>f, <2>1, FS_AddElement
  <2>3. active' = active + 1 /\ active < MaxConcurrent
    BY <1>t, <1>2 DEF Grant, AtLimit
  <2> QED
    BY <1>t, <2>2, <2>3
<1>3. ASSUME NEW h \in Handlers, Settle(h) PROVE ActiveCountsLeases'
  <2>1. h \in Leases /\ Leases' = Leases \ {h}
    BY <1>t, <1>3 DEF Settle, Return, Leases
  <2>2. Cardinality(Leases') = Cardinality(Leases) - 1
    BY <1>f, <2>1, FS_RemoveElement
  <2>3. Cardinality(Leases) # 0
    BY <1>f, <2>1, FS_EmptySet
  <2>4. active' = active - 1
    BY <1>t, <1>3, <2>3 DEF Settle, Excess
  <2> QED
    BY <1>t, <2>2, <2>4
<1>4. ASSUME NEW h \in Handlers,
             \/ \E n \in Reservations : BeginAdmit(h, n)
             \/ Refuse(h) \/ Record(h) \/ BeginDrop(h)
      PROVE  ActiveCountsLeases'
  <2>1. active' = active
    BY <1>4 DEF BeginAdmit, Refuse, RefuseConcurrency, RefuseRate, RefuseTokens, Refused,
                Record, BeginDrop
  <2>2. Leases' = Leases
    <3>1. CASE \E n \in Reservations : BeginAdmit(h, n)
      BY <1>t, <3>1 DEF BeginAdmit, Leases
    <3>2. CASE Refuse(h)
      BY <1>t, <3>2
         DEF Refuse, RefuseConcurrency, RefuseRate, RefuseTokens, Refused, Return, Leases
    <3>3. CASE Record(h) \/ BeginDrop(h)
      BY <1>t, <3>3 DEF Record, BeginDrop, Leases
    <3> QED
      BY <1>4, <3>1, <3>2, <3>3
  <2> QED
    BY <1>1, <2>1, <2>2
<1>5. CASE Tick \/ Probe \/ UNCHANGED vars
  BY <1>1, <1>5 DEF Tick, Probe, vars, handlerVars, Leases
<1> QED
  BY <1>2, <1>3, <1>4, <1>5 DEF Next

\* The concurrency count is exact, so the cap on leases holds and the
\* saturating subtraction of Drop never hides a mismatch.
THEOREM LeasesAreCounted == Spec => []ActiveCountsLeases
<1>1. Init => ActiveCountsLeases
  <2> SUFFICES ASSUME Init PROVE ActiveCountsLeases
    OBVIOUS
  <2>1. Leases = {}
    BY DEF Init, Leases
  <2> QED
    BY <2>1, FS_EmptySet, QuotaAssumption DEF Init, ActiveCountsLeases
<1> QED
  BY <1>1, TypeInit, TypeStep, LeasesStep, PTL DEF Spec

------------------------------------------------------------------------------
(* Refusals.                                                                *)

\* Refilling a bucket on the way loses none of what a later refill gives.
LEMMA RefillTwice ==
    ASSUME NEW cap \in Nat, NEW rate \in Nat, NEW b \in Bucket(cap),
           NEW t \in 0 .. MaxTime, NEW c \in 0 .. MaxTime, t <= c
    PROVE  Refill(Refill(b, cap, rate, t), cap, rate, c).level >= Refill(b, cap, rate, c).level
<1>0. MaxTime \in Nat
  BY QuotaAssumption
<1>1. b.level \in Int /\ b.level <= cap /\ b.last \in Nat /\ t \in Nat /\ c \in Nat
  BY <1>0 DEF Bucket
<1> DEFINE r == Refill(b, cap, rate, t)
           full(n) == Lesser(b.level + n, cap)
<1>2. r \in Bucket(cap) /\ r.last = t
  BY RefillType
<1>3. CASE c <= b.last
  <2>1. Refill(b, cap, rate, c).level = b.level
    BY <1>1, <1>3 DEF Refill
  <2>2. r.level >= b.level
    BY RefillType
  <2>3. Refill(r, cap, rate, c).level >= r.level
    BY <1>2, RefillType
  <2>4. Refill(r, cap, rate, c).level \in Int /\ r.level \in Int
    BY <1>2, RefillType DEF Bucket
  <2> QED
    BY <1>1, <2>1, <2>2, <2>3, <2>4
<1>4. CASE b.last < c /\ t <= b.last
  <2>1. r = [level |-> b.level, last |-> t]
    BY <1>1, <1>4 DEF Refill
  <2>2. Refill(r, cap, rate, c).level = full(rate * (c - t))
    BY <1>1, <1>4, <2>1 DEF Refill
  <2>3. Refill(b, cap, rate, c).level = full(rate * (c - b.last))
    BY <1>1, <1>4 DEF Refill
  <2>4. rate * (c - t) = rate * (c - b.last) + rate * (b.last - t)
    <3>1. (c - b.last) + (b.last - t) = c - t
      BY <1>1
    <3> QED
      BY <1>1, <3>1, Distribute
  <2>5. rate * (b.last - t) \in Nat /\ rate * (c - b.last) \in Nat
    BY <1>1, <1>4, NatTimesNat
  <2> DEFINE u == rate * (c - b.last)
             v == rate * (b.last - t)
  <2>6. full(u + v) >= full(u)
    <3>1. ASSUME NEW m \in Nat, NEW n \in Nat
          PROVE  full(m + n) >= full(m)
      BY <1>1 DEF Lesser
    <3> QED
      BY <2>5, <3>1
  <2> QED
    BY <2>2, <2>3, <2>4, <2>6
<1>5. CASE b.last < t
  <2> DEFINE x == rate * (t - b.last)
             y == rate * (c - t)
  <2>1. r = [level |-> full(x), last |-> t]
    BY <1>1, <1>5 DEF Refill
  <2>2. Refill(b, cap, rate, c).level = full(rate * (c - b.last))
    BY <1>1, <1>5 DEF Refill
  <2>3. rate * (c - b.last) = x + y
    <3>1. (t - b.last) + (c - t) = c - b.last
      BY <1>1
    <3> QED
      BY <1>1, <3>1, Distribute
  <2>4. x \in Nat /\ y \in Nat
    BY <1>1, <1>5, NatTimesNat
  <2>5. CASE t = c
    <3>1. Refill(r, cap, rate, c).level = full(x)
      BY <1>1, <2>1, <2>5 DEF Refill
    <3>2. full(x) \in Int
      BY <1>1, <2>4 DEF Lesser
    <3> QED
      BY <2>1, <2>2, <2>5, <3>1, <3>2
  <2>6. CASE t < c
    <3>1. Refill(r, cap, rate, c).level = Lesser(full(x) + y, cap)
      BY <1>1, <2>1, <2>6 DEF Refill
    <3>2. ASSUME NEW m \in Nat, NEW n \in Nat
          PROVE  Lesser(full(m) + n, cap) >= full(m + n)
      BY <1>1 DEF Lesser
    <3>3. Lesser(full(x) + y, cap) >= full(x + y)
      BY <2>4, <3>2
    <3> QED
      BY <2>2, <2>3, <3>1, <3>3
  <2> QED
    BY <1>1, <2>5, <2>6
<1> QED
  BY <1>1, <1>3, <1>4, <1>5

\* "a refused request has no side effects": neither bucket is worth less after
\* a refusal, at that time or later, and no lease is counted.
THEOREM RefusalsAreFree == Spec => RefusalIsFree
<1> DEFINE Free(h) ==
      /\ Projected(requests', ReqCap, ReqRate) >= Projected(requests, ReqCap, ReqRate)
      /\ Projected(tokens', TokCap, TokRate) >= Projected(tokens, TokCap, TokRate)
      /\ active' = active
<1>1. ASSUME TypeOK, TimesArePast, [Next]_vars, NEW h \in Handlers,
             pc[h] = "admitting", pc'[h] = "idle"
      PROVE  Free(h)
  <2> USE QuotaAssumption
  <2>1. Refuse(h)
    <3>0. pc \in [Handlers -> {"idle", "admitting", "leased", "dropping"}]
      BY <1>1 DEF TypeOK
    <3>1. CASE Tick \/ Probe \/ UNCHANGED vars
      BY <1>1, <3>1 DEF Tick, Probe, vars, handlerVars
    <3>2. ASSUME NEW g \in Handlers, Refuse(g) PROVE Refuse(h)
      BY <1>1, <3>0, <3>2
         DEF Refuse, RefuseConcurrency, RefuseRate, RefuseTokens, Refused, Return
    <3>3. ASSUME NEW g \in Handlers,
                 \/ \E n \in Reservations : BeginAdmit(g, n)
                 \/ Grant(g) \/ Record(g) \/ BeginDrop(g) \/ Settle(g)
          PROVE  FALSE
      BY <1>1, <3>0, <3>3 DEF BeginAdmit, Grant, Record, BeginDrop, Settle, Return
    <3> QED
      BY <1>1, <3>1, <3>2, <3>3 DEF Next
  <2>2. now[h] \in 0 .. MaxTime /\ clock \in 0 .. MaxTime /\ now[h] <= clock
    BY <1>1 DEF TypeOK, TimesArePast
  <2>3. Projected(RefilledRequests(h), ReqCap, ReqRate) >= Projected(requests, ReqCap, ReqRate)
    BY <1>1, <2>2, RefillTwice DEF Projected, RefilledRequests, TypeOK
  <2>4. Projected(RefilledTokens(h), TokCap, TokRate) >= Projected(tokens, TokCap, TokRate)
    BY <1>1, <2>2, RefillTwice DEF Projected, RefilledTokens, TypeOK
  <2>5. /\ Projected(requests, ReqCap, ReqRate) >= Projected(requests, ReqCap, ReqRate)
        /\ Projected(tokens, TokCap, TokRate) >= Projected(tokens, TokCap, TokRate)
    <3>1. /\ Refill(requests, ReqCap, ReqRate, clock) \in Bucket(ReqCap)
          /\ Refill(tokens, TokCap, TokRate, clock) \in Bucket(TokCap)
      BY <1>1, <2>2, RefillType DEF TypeOK
    <3> QED
      BY <3>1 DEF Projected, Bucket
  <2>6. /\ requests' = requests \/ requests' = RefilledRequests(h)
        /\ tokens' = tokens \/ tokens' = RefilledTokens(h)
        /\ active' = active
    BY <2>1 DEF Refuse, RefuseConcurrency, RefuseRate, RefuseTokens, Refused, bucketVars
  <2> QED
    BY <2>3, <2>4, <2>5, <2>6
<1>2. TypeOK /\ TimesArePast /\ [Next]_vars
        => [\A h \in Handlers : pc[h] = "admitting" /\ pc'[h] = "idle" => Free(h)]_vars
  BY <1>1
<1>3. Init => TimesArePast
  BY QuotaAssumption DEF Init, TimesArePast
<1> QED
  BY <1>2, <1>3, TypeInit, TypeStep, TimesStep, PTL DEF Spec, RefusalIsFree
==============================================================================
