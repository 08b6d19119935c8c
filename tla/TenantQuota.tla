----------------------------- MODULE TenantQuota -----------------------------
(***************************************************************************)
(* One tenant's limits, src/src/tenants.rs: a bucket of requests, a bucket *)
(* of tokens and a count of leases, behind a mutex that handlers on        *)
(* several threads take to admit a request and to settle it.               *)
(*                                                                         *)
(* Both critical sections refill the buckets up to a time read BEFORE the  *)
(* lock is taken, so a thread may come in with a time older than the one   *)
(* the bucket has already been refilled to.  Levels are f64 in the code    *)
(* and integers here; Cost parts make one request, so that rates below one *)
(* request per second are integers too.                                    *)
(***************************************************************************)
EXTENDS Integers, FiniteSets

CONSTANTS
    Handlers,       \* request handlers, each with at most one lease
    Cost,           \* parts of the request bucket one request takes
    ReqCap,         \* capacity of the request bucket, in parts
    ReqRate,        \* its parts per second
    TokCap,         \* capacity of the token bucket
    TokRate,        \* its tokens per second
    MaxConcurrent,  \* max_concurrent
    Reservations,   \* what requests reserve
    MaxOveruse,     \* most tokens a reply has beyond its reservation
    MaxTime,        \* BOUND: seconds explored
    MaxCalls        \* BOUND: calls of admit() explored

ASSUME QuotaAssumption ==
    /\ IsFiniteSet(Handlers)
    /\ Cost \in Nat \ {0} /\ ReqCap \in Nat /\ ReqCap >= Cost /\ ReqRate \in Nat \ {0}
    /\ TokCap \in Nat /\ TokRate \in Nat
    /\ MaxConcurrent \in Nat
    /\ Reservations \subseteq Nat
    /\ MaxOveruse \in Nat /\ MaxTime \in Nat /\ MaxCalls \in Nat

VARIABLES
    clock,      \* Instant::now()
    pc,         \* "idle", "admitting", "leased" or "dropping"
    now,        \* the time a handler read before taking the lock
    reserved,   \* Lease.reserved
    used,       \* Lease.used
    requests,   \* the request bucket
    tokens,     \* the token bucket
    active      \* TenantState.active

\* History, read by properties only.
VARIABLES
    calls,      \* calls of admit()
    granted,    \* requests admitted so far
    spent,      \* tokens of settled leases
    pending,    \* tokens reserved by leases not yet settled
    overrun,    \* tokens settled beyond their reservations
    rewound     \* seconds each bucket's `last` has gone back, in all

handlerVars == <<pc, now, reserved, used>>
bucketVars  == <<requests, tokens>>
historyVars == <<calls, granted, spent, pending, overrun, rewound>>
vars == <<clock, handlerVars, bucketVars, active, historyVars>>

Lesser(a, b) == IF a <= b THEN a ELSE b
Excess(a, b) == IF a <= b THEN 0 ELSE a - b

Bucket(cap) == [level : {n \in Int : n <= cap}, last : 0 .. MaxTime]

TypeOK ==
    /\ clock \in 0 .. MaxTime
    /\ pc \in [Handlers -> {"idle", "admitting", "leased", "dropping"}]
    /\ now \in [Handlers -> 0 .. MaxTime]
    /\ reserved \in [Handlers -> Nat]
    /\ used \in [Handlers -> Nat]
    /\ requests \in Bucket(ReqCap) /\ requests.level >= 0
    /\ tokens \in Bucket(TokCap)
    /\ active \in Nat
    /\ calls \in 0 .. MaxCalls
    /\ granted \in Nat /\ spent \in Nat /\ pending \in Int /\ overrun \in Nat
    /\ rewound \in [requests : Nat, tokens : Nat]

Init ==
    /\ clock = 0
    /\ pc = [h \in Handlers |-> "idle"]
    /\ now = [h \in Handlers |-> 0]
    /\ reserved = [h \in Handlers |-> 0]
    /\ used = [h \in Handlers |-> 0]
    /\ requests = [level |-> ReqCap, last |-> 0]
    /\ tokens = [level |-> TokCap, last |-> 0]
    /\ active = 0
    /\ calls = 0 /\ granted = 0 /\ spent = 0 /\ pending = 0 /\ overrun = 0
    /\ rewound = [requests |-> 0, tokens |-> 0]

------------------------------------------------------------------------------

\* Mutations of Refill: no cap; the time credited is not marked as credited.
RefillUncapped(b, cap, rate, t) ==
    [level |-> IF t > b.last THEN b.level + rate * (t - b.last) ELSE b.level, last |-> t]
RefillKeepsLast(b, cap, rate, t) ==
    [level |-> IF t > b.last THEN Lesser(b.level + rate * (t - b.last), cap) ELSE b.level,
     last  |-> b.last]

\* Bucket::refill.  No time has passed when t is not later than `last`, but
\* `last` is set to it all the same.
Refill(b, cap, rate, t) ==
    [level |-> IF t > b.last THEN Lesser(b.level + rate * (t - b.last), cap) ELSE b.level,
     last  |-> t]

RefilledRequests(h) == Refill(requests, ReqCap, ReqRate, now[h])
RefilledTokens(h)   == Refill(tokens, TokCap, TokRate, now[h])

Take(b, n) == [level |-> b.level - n, last |-> b.last]

BackInRequests(h) == rewound.requests + Excess(requests.last, now[h])
BackInTokens(h)   == rewound.tokens + Excess(tokens.last, now[h])

Tick ==
    /\ clock < MaxTime
    /\ clock' = clock + 1
    /\ UNCHANGED <<handlerVars, bucketVars, active, historyVars>>

\* admit() up to its lock.
BeginAdmit(h, n) ==
    /\ pc[h] = "idle" /\ calls < MaxCalls
    /\ calls' = calls + 1
    /\ pc' = [pc EXCEPT ![h] = "admitting"]
    /\ now' = [now EXCEPT ![h] = clock]
    /\ reserved' = [reserved EXCEPT ![h] = n]
    /\ UNCHANGED <<clock, used, bucketVars, active, granted, spent, pending, overrun, rewound>>

\* The call is over and its locals are gone.
Return(h) ==
    /\ pc' = [pc EXCEPT ![h] = "idle"]
    /\ now' = [now EXCEPT ![h] = 0]
    /\ reserved' = [reserved EXCEPT ![h] = 0]
    /\ used' = [used EXCEPT ![h] = 0]

Refused(h) ==
    /\ Return(h)
    /\ UNCHANGED <<clock, active, calls, granted, spent, pending, overrun>>

\* Mutation of AtLimit: off by one.
AtLimitLate == active > MaxConcurrent

AtLimit == active >= MaxConcurrent

\* Mutation of EnoughTokens: some tokens are taken for enough.
SomeTokens(h) == RefilledTokens(h).level > 0

EnoughTokens(h) == RefilledTokens(h).level >= reserved[h]

\* admit() under the lock, one action per return.  The concurrency check
\* comes before any bucket is touched, the rate check before the tokens are.
RefuseConcurrency(h) ==
    /\ pc[h] = "admitting" /\ AtLimit
    /\ Refused(h)
    /\ UNCHANGED <<bucketVars, rewound>>

RefuseRate(h) ==
    /\ pc[h] = "admitting" /\ ~AtLimit
    /\ RefilledRequests(h).level < Cost
    /\ requests' = RefilledRequests(h)
    /\ rewound' = [rewound EXCEPT !.requests = BackInRequests(h)]
    /\ Refused(h)
    /\ UNCHANGED tokens

\* Mutation of RefuseTokens: the request is taken before the tokens are checked.
RefuseTokensCharged(h) ==
    /\ pc[h] = "admitting" /\ ~AtLimit
    /\ RefilledRequests(h).level >= Cost /\ ~EnoughTokens(h)
    /\ requests' = Take(RefilledRequests(h), Cost)
    /\ tokens' = RefilledTokens(h)
    /\ rewound' = [requests |-> BackInRequests(h), tokens |-> BackInTokens(h)]
    /\ Refused(h)

RefuseTokens(h) ==
    /\ pc[h] = "admitting" /\ ~AtLimit
    /\ RefilledRequests(h).level >= Cost /\ ~EnoughTokens(h)
    /\ requests' = RefilledRequests(h)
    /\ tokens' = RefilledTokens(h)
    /\ rewound' = [requests |-> BackInRequests(h), tokens |-> BackInTokens(h)]
    /\ Refused(h)

Grant(h) ==
    /\ pc[h] = "admitting" /\ ~AtLimit
    /\ RefilledRequests(h).level >= Cost /\ EnoughTokens(h)
    /\ requests' = Take(RefilledRequests(h), Cost)
    /\ tokens' = Take(RefilledTokens(h), reserved[h])
    /\ active' = active + 1
    /\ pc' = [pc EXCEPT ![h] = "leased"]
    /\ granted' = granted + 1
    /\ pending' = pending + reserved[h]
    /\ rewound' = [requests |-> BackInRequests(h), tokens |-> BackInTokens(h)]
    /\ UNCHANGED <<clock, now, reserved, used, calls, spent, overrun>>

\* record_tokens(1), once per token forwarded, or once with the usage count.
Record(h) ==
    /\ pc[h] = "leased"
    /\ used[h] < reserved[h] + MaxOveruse
    /\ used' = [used EXCEPT ![h] = @ + 1]
    /\ UNCHANGED <<clock, pc, now, reserved, bucketVars, active, historyVars>>

\* Drop for Lease, up to its lock.
BeginDrop(h) ==
    /\ pc[h] = "leased"
    /\ pc' = [pc EXCEPT ![h] = "dropping"]
    /\ now' = [now EXCEPT ![h] = clock]
    /\ UNCHANGED <<clock, reserved, used, bucketVars, active, historyVars>>

\* Mutation of Settle: the whole reservation is refunded.
SettleFullRefund(h) ==
    /\ pc[h] = "dropping"
    /\ active' = Excess(active, 1)
    /\ tokens' = [level |-> Lesser(RefilledTokens(h).level + reserved[h], TokCap),
                  last  |-> now[h]]
    /\ Return(h)
    /\ spent' = spent + used[h]
    /\ pending' = pending - reserved[h]
    /\ overrun' = overrun + Excess(used[h], reserved[h])
    /\ rewound' = [rewound EXCEPT !.tokens = BackInTokens(h)]
    /\ UNCHANGED <<clock, requests, calls, granted>>

\* Drop for Lease, under the lock: give back the concurrency slot and what was
\* reserved and not used, or charge what was used and not reserved.
Settle(h) ==
    /\ pc[h] = "dropping"
    /\ active' = Excess(active, 1)
    /\ tokens' = [level |-> Lesser(RefilledTokens(h).level + reserved[h] - used[h], TokCap),
                  last  |-> now[h]]
    /\ Return(h)
    /\ spent' = spent + used[h]
    /\ pending' = pending - reserved[h]
    /\ overrun' = overrun + Excess(used[h], reserved[h])
    /\ rewound' = [rewound EXCEPT !.tokens = BackInTokens(h)]
    /\ UNCHANGED <<clock, requests, calls, granted>>

\* tokens_available(): this one reads the clock with the lock held.
Probe ==
    /\ tokens' = Refill(tokens, TokCap, TokRate, clock)
    /\ UNCHANGED <<clock, handlerVars, requests, active, historyVars>>

Refuse(h) == RefuseConcurrency(h) \/ RefuseRate(h) \/ RefuseTokens(h)

Next ==
    \/ Tick
    \/ Probe
    \/ \E h \in Handlers :
          \/ \E n \in Reservations : BeginAdmit(h, n)
          \/ Refuse(h) \/ Grant(h)
          \/ Record(h) \/ BeginDrop(h) \/ Settle(h)

Spec == Init /\ [][Next]_vars

------------------------------------------------------------------------------
(* Properties.                                                              *)

Leases == {h \in Handlers : pc[h] \in {"leased", "dropping"}}

\* `active` is the number of leases that exist and never passes
\* max_concurrent: every exit path "settles the account exactly once"
\* (tenants.rs:237-238), so saturating_sub (line 261) never saturates.
ActiveCountsLeases == active = Cardinality(Leases) /\ active <= MaxConcurrent

\* Requests admitted since the start, against what the bucket held and has
\* been refilled with since: the rate is passed only by the seconds `last`
\* has gone back, which are credited twice (tenants.rs:89, 116-122).
RateUpToRewind ==
    granted * Cost + requests.level
        <= ReqCap + ReqRate * (requests.last + rewound.requests)

\* Every token is in one place: in the bucket, reserved by a lease, or spent.
\* Concurrent admissions cannot reserve the same tokens, nor a settlement
\* refund them twice (ROADMAP D6, "Never overshoots, even under concurrency").
TokenAccount ==
    tokens.level + pending + spent
        <= TokCap + TokRate * (tokens.last + rewound.tokens)

\* The level goes below zero only by what replies had beyond their
\* reservations (tenants.rs:263-265), and admission never lends.
DebtOnlyFromOveruse == tokens.level >= 0 - overrun

\* The level a bucket would show if it were refilled now.
Projected(b, cap, rate) == Refill(b, cap, rate, clock).level

\* "a refused request has no side effects" (tenants.rs:187-189): it leaves
\* both buckets worth at least what they were, and the lease count alone.
RefusalIsFree ==
    [][\A h \in Handlers : pc[h] = "admitting" /\ pc'[h] = "idle" =>
          /\ Projected(requests', ReqCap, ReqRate) >= Projected(requests, ReqCap, ReqRate)
          /\ Projected(tokens', TokCap, TokRate) >= Projected(tokens, TokCap, TokRate)
          /\ active' = active]_vars

\* "A token bucket: holds up to capacity, refills at per_sec"
\* (tenants.rs:89): what any bucket of that description lets through.
RateHonoured == granted * Cost <= ReqCap + ReqRate * clock
==============================================================================
