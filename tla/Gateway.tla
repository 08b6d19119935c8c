------------------------------- MODULE Gateway -------------------------------
(***************************************************************************)
(* A request's way through the gateway, src/src/lib.rs: its tenant admits  *)
(* it and gives it a lease, it goes through the Scheduler, and its reply   *)
(* carries a slot and the lease until the body is through.  Whatever ends  *)
(* the handler (an error, QueueFull, a client that hangs up) drops the     *)
(* lease, which settles the tenant's account.                              *)
(*                                                                         *)
(* The scheduler is the one of module Scheduler, action by action.  The    *)
(* tenant is reduced to the two numbers a lease changes; the arithmetic of *)
(* its buckets and the races on their clock are in module TenantQuota.     *)
(***************************************************************************)
EXTENDS Scheduler

CONSTANTS MaxConcurrent,  \* each tenant's max_concurrent
          Budget,         \* each tenant's capacity of tokens
          MaxTokens,      \* what a request sets max_tokens to
          unset,          \* ... when it does not
          DefaultTokens,  \* default_max_tokens
          Streamed,       \* the requests with stream = true
          BareFrames      \* BOUND: a stream's data: frames that carry no token

ASSUME GatewayAssumption ==
    /\ MaxConcurrent \in [Tenants -> Nat]
    /\ Budget \in [Tenants -> Nat]
    /\ MaxTokens \in [Requests -> Nat \cup {unset}]
    /\ DefaultTokens \in Nat
    /\ Streamed \subseteq Requests
    /\ BareFrames \in Nat

VARIABLES lease,    \* "none", "open", or "settling": about to be dropped, the slot gone
          used,     \* Lease.used
          active,   \* each tenant's leases
          balance   \* each tenant's tokens

\* History, read by NeverOversold only.
VARIABLES brought,  \* the tokens of a request's reply, so far
          room      \* tokens each tenant's replies may still bring: its capacity
                    \* and what it has earned, less what they have brought

historyVars == <<brought, room>>
leaseVars   == <<lease, used, active, balance, historyVars>>
gatewayVars == <<vars, leaseVars>>

\* Mutation of Reserve: only what the client names is reserved.
ReserveAsked(r) == IF MaxTokens[r] = unset THEN 0 ELSE MaxTokens[r]

\* What admission reserves.
Reserve(r) == IF MaxTokens[r] = unset THEN DefaultTokens ELSE MaxTokens[r]

\* max_tokens as the backend gets it, and keeps to it: it bounds the tokens of
\* a reply, not the frames they come in.
Ceiling(r) == IF MaxTokens[r] = unset THEN DefaultTokens ELSE MaxTokens[r]

GatewayTypeOK ==
    /\ lease \in [Requests -> {"none", "open", "settling"}]
    /\ used \in [Requests -> Nat]
    /\ active \in [Tenants -> Nat]
    /\ balance \in [Tenants -> Int]
    /\ brought \in [Requests -> Nat]
    /\ room \in [Tenants -> Int]

GatewayInit ==
    /\ Init
    /\ lease = [r \in Requests |-> "none"]
    /\ used = [r \in Requests |-> 0]
    /\ active = [t \in Tenants |-> 0]
    /\ balance = Budget
    /\ brought = [r \in Requests |-> 0]
    /\ room = Budget

Leased(t) == {r \in Requests : TenantOf[r] = t /\ lease[r] # "none"}

\* What a tenant's leases cover and their replies have not brought.
Uncollected(r) == {r} \X (brought[r] + 1 .. Ceiling(r))
Outstanding(t) == UNION {Uncollected(r) : r \in Leased(t)}

------------------------------------------------------------------------------

\* Mutation of BelowCap: off by one.
BelowCapLate(t) == active[t] <= MaxConcurrent[t]

BelowCap(t) == active[t] < MaxConcurrent[t]

\* tenant.admit(): a refusal answers 429 and changes nothing.
Admit(r) ==
    LET t == TenantOf[r] IN
    /\ client[r] = "idle" /\ lease[r] = "none"
    /\ BelowCap(t) /\ balance[t] >= Reserve(r)
    /\ lease' = [lease EXCEPT ![r] = "open"]
    /\ active' = [active EXCEPT ![t] = @ + 1]
    /\ balance' = [balance EXCEPT ![t] = @ - Reserve(r)]
    /\ UNCHANGED <<vars, used, historyVars>>

\* The lease is dropped: Drop for Lease.
Settle(r) ==
    LET t      == TenantOf[r]
        refund == balance[t] + Reserve(r) - used[r]
    IN  /\ lease' = [lease EXCEPT ![r] = "none"]
        /\ used' = [used EXCEPT ![r] = 0]
        /\ brought' = [brought EXCEPT ![r] = 0]
        /\ UNCHANGED room
        /\ active' = [active EXCEPT ![t] = @ - 1]
        /\ balance' = [balance EXCEPT ![t] = IF refund < Budget[t] THEN refund ELSE Budget[t]]

\* The handler runs from admit() to its first await without a stop.
Enter(r) ==
    /\ lease[r] = "open"
    /\ Submit(r) \/ SubmitFull(r)
    /\ UNCHANGED leaseVars

\* `?` after submit(): the error goes out, the lease is dropped on the way.
Fail(r) == (AnswerFull(r) \/ ReceiveErr(r)) /\ Settle(r)

\* The handler's future is dropped, and its lease with it.
HangUp(r) == HangupWaiting(r) /\ Settle(r)

\* Mutations of Respond: the body's closure keeps the slot and not the lease;
\* the lease and not the slot, "letting the limiter over-admit".
RespondSettled(r) ==
    /\ ReceiveOk(r)
    /\ IF r \in Streamed THEN Settle(r) ELSE UNCHANGED leaseVars
RespondUnslotted(r) == ReceiveOkFrees(r) /\ UNCHANGED leaseVars

Respond(r) == ReceiveOk(r) /\ UNCHANGED leaseVars

\* A reply brings n more tokens.
Brings(r, n) ==
    /\ brought' = [brought EXCEPT ![r] = @ + n]
    /\ room' = [room EXCEPT ![TenantOf[r]] = @ - n]

\* stream_response(): the body's closure owns slot and lease and is dropped
\* with the body, wherever the stream ends.  It counts every data: frame it
\* forwards, with a token or, as the first and the last may be, without one.
Forward(r) ==
    /\ r \in Streamed /\ client[r] = "holding"
    /\ used' = [used EXCEPT ![r] = @ + 1]
    /\ \/ brought[r] < Ceiling(r) /\ Brings(r, 1)
       \/ used[r] - brought[r] < BareFrames /\ UNCHANGED historyVars
    /\ UNCHANGED <<vars, lease, active, balance>>

EndStream(r) == r \in Streamed /\ Finish(r) /\ Settle(r)

\* Mutations of BodyIn: the lease is settled by hand, and by its drop again;
\* it is dropped before the tokens are recorded, and the reply is free.
BodyInSettles(r) ==
    /\ r \notin Streamed
    /\ Finish(r)
    /\ used' = [used EXCEPT ![r] = 0]
    /\ lease' = [lease EXCEPT ![r] = "settling"]
    /\ active' = [active EXCEPT ![TenantOf[r]] = @ - 1]
    /\ UNCHANGED <<balance, historyVars>>
BodyInUnrecorded(r) ==
    /\ r \notin Streamed
    /\ Finish(r)
    /\ \E n \in 0 .. Ceiling(r) : Brings(r, n)
    /\ lease' = [lease EXCEPT ![r] = "settling"]
    /\ UNCHANGED <<used, active, balance>>

\* buffered_response(): the whole body is in, with the backend's own count of
\* its tokens.  The slot is dropped, then the tokens are recorded.
BodyIn(r) ==
    /\ r \notin Streamed
    /\ Finish(r)
    /\ \E n \in 0 .. Ceiling(r) : used' = [used EXCEPT ![r] = @ + n] /\ Brings(r, n)
    /\ lease' = [lease EXCEPT ![r] = "settling"]
    /\ UNCHANGED <<active, balance>>

\* Mutation of SettleBuffered: the reply is sent, the lease stays.
SettleBufferedNever(r) == lease[r] = "settling" /\ UNCHANGED gatewayVars

SettleBuffered(r) ==
    /\ lease[r] = "settling"
    /\ Settle(r)
    /\ UNCHANGED vars

\* It does not parse, breaks off, or the client hangs up: nothing is recorded.
BodyLost(r) == r \notin Streamed /\ Finish(r) /\ Settle(r)

\* Time passes and a token is earned.  (What may be brought never grows past a
\* full bucket and what is outstanding.)
Earn(t) ==
    /\ balance[t] < Budget[t]
    /\ balance' = [balance EXCEPT ![t] = @ + 1]
    /\ room' = IF room[t] < Budget[t] + Cardinality(Outstanding(t))
               THEN [room EXCEPT ![t] = @ + 1] ELSE room
    /\ UNCHANGED <<vars, lease, used, active, brought>>

\* What the handler does on its own, once admitted.
Proceed(r) ==
    \/ Enter(r) \/ Fail(r) \/ Respond(r)
    \/ Notify(r) /\ UNCHANGED leaseVars
    \/ EndStream(r) \/ BodyIn(r) \/ SettleBuffered(r)

Backstage == (Run \/ Deadline \/ \E r \in Requests : Dispatch(r)) /\ UNCHANGED leaseVars

GatewayNext ==
    \/ Backstage
    \/ \E t \in Tenants : Earn(t)
    \/ \E r \in Requests : Admit(r) \/ Proceed(r) \/ HangUp(r) \/ Forward(r) \/ BodyLost(r)

\* A handler that can go on is polled, and a body comes to an end.  Nobody has
\* to send a request, hang up or break off, and no token has to be earned.
\* A handler about to push may find the queue locked over and over, and gets
\* the mutex in the end: pop() holds it for a few passes of its loop.
GatewayFairness ==
    /\ WF_gatewayVars(Run /\ UNCHANGED leaseVars)
    /\ WF_gatewayVars(Deadline /\ UNCHANGED leaseVars)
    /\ \A r \in Requests :
          /\ WF_gatewayVars(Dispatch(r) /\ UNCHANGED leaseVars)
          /\ WF_gatewayVars(Proceed(r))
          /\ SF_gatewayVars(Enter(r))

GatewaySpec == GatewayInit /\ [][GatewayNext]_gatewayVars /\ GatewayFairness

------------------------------------------------------------------------------
(* Properties.                                                              *)

Abandoned == {r \in Requests : client[r] \in {"left", "gone"}}

InSystem(t) == {r \in Queued \cup InBatch \cup AtBackend : TenantOf[r] = t}

\* "Every exit path -- success, error, client disconnect mid-stream -- settles
\* the account exactly once" (tenants.rs:237-238): a handler under way has its
\* lease, one that is gone has none, and `active` counts them all.
LeasesFollowHandlers ==
    /\ \A r \in Requests :
          /\ client[r] \in {"pushed", "refused", "waiting", "holding"} => lease[r] = "open"
          /\ r \in Abandoned => lease[r] = "none"
    /\ \A t \in Tenants : active[t] = Cardinality(Leased(t)) /\ active[t] =< MaxConcurrent[t]

\* What max_concurrent bounds: a tenant's requests in the queue, the batch and
\* at the backend whose client is still there.
LiveShareBounded ==
    \A t \in Tenants : Cardinality(InSystem(t) \ Abandoned) =< MaxConcurrent[t]

\* A budget "never overshoots, even under concurrency" (ROADMAP.md:151-155):
\* what is reserved is a ceiling on what the backend may produce (lib.rs:
\* 176-178), so the tokens a tenant's replies have brought and those its leases
\* still cover never pass its capacity and what it has earned.  Frames that
\* carry no token may put the tenant in debt, which only holds it back.
NeverOversold == \A t \in Tenants : Cardinality(Outstanding(t)) =< room[t]

\* A lease is given back in the end, whatever becomes of its request.
LeasesComeBack == \A r \in Requests : (lease[r] # "none") ~> (lease[r] = "none")

\* Behind its admission and with its leases the gateway still runs the
\* scheduler as specified, its fairness included.
ImplementsScheduler == Spec

\* "requests this tenant has in the system (queued or at the backend)" is what
\* tenants.rs:5-6 says max_concurrent caps.
CapCoversSystem == \A t \in Tenants : Cardinality(InSystem(t)) =< MaxConcurrent[t]
==============================================================================
