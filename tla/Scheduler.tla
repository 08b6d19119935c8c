------------------------------ MODULE Scheduler ------------------------------
(***************************************************************************)
(* src/src/scheduler.rs: handlers submit requests to a bounded fair queue, *)
(* one scheduler task takes a backend slot and then a request, and spawns  *)
(* a dispatch task that sends it and answers the handler.  Everything runs *)
(* on a multi-threaded runtime, so the steps below interleave freely; a    *)
(* handler may be dropped (its client hangs up) at any of its awaits.      *)
(*                                                                         *)
(* A slot is a semaphore permit owned by whatever it is moved into, and is *)
(* freed when its owner is dropped.  `held` names the owners: the          *)
(* scheduler while it looks for a request, then the request, through the   *)
(* batch, the dispatch task, the reply channel and the handler.            *)
(***************************************************************************)
EXTENDS FairQueueOps

CONSTANTS Requests,   \* names of requests; a name is used again once nothing of it is left
          TenantOf,   \* the tenant a request comes from
          TierWeight, \* the tenant's weight, in parts of Unit
          FifoKey,    \* FIFO_KEY, the one key of the unfair mode
          Configs,    \* the SchedulerConfigs considered
          scheduler   \* the owner of the slot taken before its request

Tenants == {TenantOf[r] : r \in Requests}

ASSUME SchedulerAssumption ==
    /\ IsFiniteSet(Requests)
    /\ TierWeight \in [Tenants -> Nat \ {0}]
    /\ Configs \subseteq [window : BOOLEAN, maxInflight : Nat, fair : BOOLEAN]
    /\ scheduler \notin Requests

VARIABLES
    cfg,       \* the configuration spawn() was given
    q,         \* Shared.queue
    notified,  \* Shared.notify holds a permit
    woken,     \* the parked scheduler has been notified and not yet run
    pc,        \* where run() is
    expired,   \* the batching window's deadline has passed
    batch,     \* requests taken from the queue and not yet spawned
    permits,   \* free permits of the limiter (0 when there is none)
    held,      \* owners of a BackendSlot
    client,    \* where each request's handler is
    task,      \* each request's dispatch task
    mail       \* each request's reply channel

queueVars == <<q, notified, woken>>
runVars   == <<pc, expired, batch>>
slotVars  == <<permits, held>>
reqVars   == <<client, task, mail>>
vars      == <<cfg, queueVars, runVars, slotVars, reqVars>>

Keys == Tenants \cup {FifoKey}

\* run(): "slot" awaits the first slot, "pop" and "passing" are inside
\* Shared::pop (the queue locked while passing), "wait" and "parked" await
\* notified(), "window" is the head of the collecting loop, "check" and
\* "spawn" walk the batch.
Places == {"slot", "pop", "passing", "wait", "parked", "window", "check", "spawn"}

\* "pushed" has queued its request and is about to notify; "waiting" awaits
\* the reply; "holding" has the response and its slot and forwards the body.
\* The last two hung up while waiting: "left" before a slot was granted to the
\* request, "gone" after.  "refused" got QueueFull.
HandlerStates == {"idle", "pushed", "refused", "waiting", "holding", "left", "gone"}

TypeOK ==
    /\ cfg \in Configs
    /\ IsQueue(q, Keys, Requests)
    /\ notified \in BOOLEAN
    /\ woken \in BOOLEAN
    /\ pc \in Places
    /\ expired \in BOOLEAN
    /\ batch \in Seq(Requests)
    /\ permits \in Nat
    /\ held \subseteq Requests \cup {scheduler}
    /\ client \in [Requests -> HandlerStates]
    /\ task \in [Requests -> {"none", "sending", "failed"}]
    /\ mail \in [Requests -> {"none", "ok", "err"}]

Init ==
    /\ cfg \in Configs
    /\ q = EmptyQueue
    /\ notified = FALSE /\ woken = FALSE
    /\ pc = "slot" /\ expired = FALSE /\ batch = << >>
    /\ permits = cfg.maxInflight /\ held = {}
    /\ client = [r \in Requests |-> "idle"]
    /\ task = [r \in Requests |-> "none"]
    /\ mail = [r \in Requests |-> "none"]

------------------------------------------------------------------------------
(* Slots.                                                                   *)

Limited == cfg.maxInflight > 0

\* Mutation of SlotFree: a slot is taken whether or not one is free.
SlotFreeAlways == TRUE

SlotFree == Limited => permits > 0

\* acquire_slot() returns.
Acquire(owner) ==
    /\ SlotFree
    /\ permits' = IF Limited THEN permits - 1 ELSE permits
    /\ held' = held \cup {owner}

\* Mutation of Release: the permit is forgotten, not returned.
ReleaseForgotten(owner) == UNCHANGED permits /\ held' = held \ {owner}

\* The owner's BackendSlot is dropped.
Release(owner) ==
    /\ permits' = IF Limited THEN permits + 1 ELSE permits
    /\ held' = held \ {owner}

\* Mutations of DropSlot: the slot leaks; a slot is freed that was never taken.
DropSlotLeaks(r) == UNCHANGED slotVars
DropSlotUnheld(r) == Release(r)

DropSlot(r) == IF r \in held THEN Release(r) ELSE UNCHANGED slotVars

------------------------------------------------------------------------------
(* Handlers: SchedulerHandle::submit and what its caller does with a reply. *)

Unlocked == pc # "passing"

KeyOf(r)    == IF cfg.fair THEN TenantOf[r] ELSE FifoKey
WeightOf(r) == IF cfg.fair THEN TierWeight[TenantOf[r]] ELSE Unit

Submit(r) ==
    /\ client[r] = "idle" /\ Unlocked
    /\ ~IsFull(q)
    /\ q' = PushInto(q, KeyOf(r), WeightOf(r), r)
    /\ client' = [client EXCEPT ![r] = "pushed"]
    /\ UNCHANGED <<cfg, notified, woken, runVars, slotVars, task, mail>>

SubmitFull(r) ==
    /\ client[r] = "idle" /\ Unlocked
    /\ IsFull(q)
    /\ client' = [client EXCEPT ![r] = "refused"]
    /\ UNCHANGED <<cfg, queueVars, runVars, slotVars, task, mail>>

\* Mutation of NotifyOne: notify_waiters(), which stores nothing.
NotifyWaiters ==
    /\ woken' = (woken \/ pc = "parked")
    /\ UNCHANGED notified

\* notify_one(): wake the parked task, or leave one permit for its next wait.
NotifyOne ==
    IF pc = "parked" /\ ~woken
    THEN woken' = TRUE /\ UNCHANGED notified
    ELSE notified' = TRUE /\ UNCHANGED woken

Notify(r) ==
    /\ client[r] = "pushed"
    /\ NotifyOne
    /\ client' = [client EXCEPT ![r] = "waiting"]
    /\ UNCHANGED <<cfg, q, runVars, slotVars, task, mail>>

\* Mutation of ReceiveOk: the slot is freed when the headers arrive.
ReceiveOkFrees(r) ==
    /\ client[r] = "waiting" /\ mail[r] = "ok"
    /\ Release(r)
    /\ client' = [client EXCEPT ![r] = "holding"]
    /\ mail' = [mail EXCEPT ![r] = "none"]
    /\ UNCHANGED <<cfg, queueVars, runVars, task>>

ReceiveOk(r) ==
    /\ client[r] = "waiting" /\ mail[r] = "ok"
    /\ client' = [client EXCEPT ![r] = "holding"]
    /\ mail' = [mail EXCEPT ![r] = "none"]
    /\ UNCHANGED <<cfg, queueVars, runVars, slotVars, task>>

\* The error goes out to the client and the handler is over.
ReceiveErr(r) ==
    /\ client[r] = "waiting" /\ mail[r] = "err"
    /\ client' = [client EXCEPT ![r] = "idle"]
    /\ mail' = [mail EXCEPT ![r] = "none"]
    /\ UNCHANGED <<cfg, queueVars, runVars, slotVars, task>>

AnswerFull(r) ==
    /\ client[r] = "refused"
    /\ client' = [client EXCEPT ![r] = "idle"]
    /\ UNCHANGED <<cfg, queueVars, runVars, slotVars, task, mail>>

\* The body is in, or its last frame is out, or it broke off, or the client
\* hung up and the body was dropped.
Finish(r) ==
    /\ client[r] = "holding"
    /\ Release(r)
    /\ client' = [client EXCEPT ![r] = "idle"]
    /\ UNCHANGED <<cfg, queueVars, runVars, task, mail>>

\* The handler is dropped while it awaits the reply.  A reply already in the
\* channel is dropped with the receiver, and the slot inside it.
HangupWaiting(r) ==
    /\ client[r] = "waiting"
    /\ client' = [client EXCEPT ![r] = IF mail[r] # "none" THEN "idle"
                                       ELSE IF r \in held \/ task[r] = "failed" THEN "gone" ELSE "left"]
    /\ mail' = [mail EXCEPT ![r] = "none"]
    /\ IF mail[r] = "ok" THEN Release(r) ELSE UNCHANGED slotVars
    /\ UNCHANGED <<cfg, queueVars, runVars, task>>

------------------------------------------------------------------------------
(* The scheduler task.                                                      *)

\* `let Some(first_slot) = acquire_slot(&limiter).await`
AcquireFirst ==
    /\ pc = "slot"
    /\ Acquire(scheduler)
    /\ pc' = "pop"
    /\ UNCHANGED <<cfg, queueVars, expired, batch, reqVars>>

Popping == pc \in {"pop", "passing"}

PopEmpty ==
    /\ Popping /\ q.active = << >>
    /\ pc' = "wait"
    /\ UNCHANGED <<cfg, queueVars, expired, batch, slotVars, reqVars>>

PopPass ==
    /\ Popping /\ q.active # << >> /\ ~CanServe(q)
    /\ q' = PassOn(q)
    /\ pc' = "passing"
    /\ UNCHANGED <<cfg, notified, woken, expired, batch, slotVars, reqVars>>

\* The first request of a batch takes over the scheduler's slot.
PopFirst ==
    /\ Popping /\ q.active # << >> /\ CanServe(q) /\ batch = << >>
    /\ q' = Serve(q)
    /\ batch' = <<FrontItem(q)>>
    /\ held' = (held \ {scheduler}) \cup {FrontItem(q)}
    /\ pc' = IF cfg.window THEN "window" ELSE "check"
    /\ expired' = FALSE
    /\ UNCHANGED <<cfg, notified, woken, permits, reqVars>>

\* Mutation of PopNext: a timeout strikes between the pop and the return.
PopNextLoses ==
    /\ Popping /\ q.active # << >> /\ CanServe(q) /\ batch # << >>
    /\ q' = Serve(q)
    /\ batch' = IF expired THEN batch ELSE Append(batch, FrontItem(q))
    /\ pc' = "window"
    /\ UNCHANGED <<cfg, notified, woken, expired, slotVars, reqVars>>

\* The others join it without a slot.
PopNext ==
    /\ Popping /\ q.active # << >> /\ CanServe(q) /\ batch # << >>
    /\ q' = Serve(q)
    /\ batch' = Append(batch, FrontItem(q))
    /\ pc' = "window"
    /\ UNCHANGED <<cfg, notified, woken, expired, slotVars, reqVars>>

\* notified(): a stored permit is used up at once, else the task parks.
TakePermit ==
    /\ pc = "wait" /\ notified
    /\ notified' = FALSE
    /\ pc' = "pop"
    /\ UNCHANGED <<cfg, q, woken, expired, batch, slotVars, reqVars>>

Park ==
    /\ pc = "wait" /\ ~notified
    /\ pc' = "parked"
    /\ UNCHANGED <<cfg, queueVars, expired, batch, slotVars, reqVars>>

Wake ==
    /\ pc = "parked" /\ woken
    /\ woken' = FALSE
    /\ pc' = "pop"
    /\ UNCHANGED <<cfg, q, notified, expired, batch, slotVars, reqVars>>

Collecting == batch # << >> /\ pc \in {"pop", "passing", "wait", "parked", "window"}

\* Time passes `deadline`.
Deadline ==
    /\ Collecting /\ ~expired
    /\ expired' = TRUE
    /\ UNCHANGED <<cfg, queueVars, pc, batch, slotVars, reqVars>>

\* Mutation of Timeout: what was collected goes with the future.
TimeoutDropsBatch ==
    /\ pc = "parked" /\ Collecting /\ expired
    /\ notified' = (notified \/ woken)
    /\ woken' = FALSE
    /\ batch' = << >>
    /\ pc' = "slot"
    /\ UNCHANGED <<cfg, q, expired, slotVars, reqVars>>

\* timeout() drops the future parked in notified().  A notification it was
\* given in the meantime is passed on: nobody else waits, so it is stored.
Timeout ==
    /\ pc = "parked" /\ Collecting /\ expired
    /\ notified' = (notified \/ woken)
    /\ woken' = FALSE
    /\ pc' = "check"
    /\ UNCHANGED <<cfg, q, expired, batch, slotVars, reqVars>>

\* Mutation of WindowOpen: wait for a notification before looking.
WindowOpenWaits ==
    /\ pc = "window" /\ ~expired
    /\ pc' = "wait"
    /\ UNCHANGED <<cfg, queueVars, expired, batch, slotVars, reqVars>>

WindowOpen ==
    /\ pc = "window" /\ ~expired
    /\ pc' = "pop"
    /\ UNCHANGED <<cfg, queueVars, expired, batch, slotVars, reqVars>>

WindowShut ==
    /\ pc = "window" /\ expired
    /\ pc' = "check"
    /\ UNCHANGED <<cfg, queueVars, expired, batch, slotVars, reqVars>>

\* Mutation of IsClosed: nobody looks whether the client is still there.
IsClosedNever(r) == FALSE

IsClosed(r) == client[r] \in {"left", "gone"}

Rest == IF Len(batch) = 1 THEN "slot" ELSE "check"

\* `continue`: a client that hung up is not sent; its slot, if any, is freed.
SkipClosed ==
    /\ pc = "check" /\ IsClosed(Head(batch))
    /\ DropSlot(Head(batch))
    /\ client' = [client EXCEPT ![Head(batch)] = "idle"]
    /\ batch' = Tail(batch)
    /\ pc' = Rest
    /\ UNCHANGED <<cfg, queueVars, expired, task, mail>>

KeepOpen ==
    /\ pc = "check" /\ ~IsClosed(Head(batch))
    /\ pc' = "spawn"
    /\ UNCHANGED <<cfg, queueVars, expired, batch, slotVars, reqVars>>

\* Mutation of Spawn: batch members are sent without a slot of their own.
SpawnUnlimited ==
    /\ pc = "spawn"
    /\ task' = [task EXCEPT ![Head(batch)] = "sending"]
    /\ batch' = Tail(batch)
    /\ pc' = Rest
    /\ UNCHANGED <<cfg, queueVars, expired, slotVars, client, mail>>

\* Spawn the dispatch of the batch's head, once it has a slot.
Spawn ==
    /\ pc = "spawn"
    /\ IF Head(batch) \in held THEN UNCHANGED slotVars ELSE Acquire(Head(batch))
    /\ task' = [task EXCEPT ![Head(batch)] = "sending"]
    /\ batch' = Tail(batch)
    /\ pc' = Rest
    /\ UNCHANGED <<cfg, queueVars, expired, client, mail>>

------------------------------------------------------------------------------
(* Dispatch tasks.                                                          *)

\* The backend answered; the Reply owns the slot.
ReplyOk(r) ==
    /\ task[r] = "sending" /\ ~IsClosed(r)
    /\ task' = [task EXCEPT ![r] = "none"]
    /\ mail' = [mail EXCEPT ![r] = "ok"]
    /\ UNCHANGED <<cfg, queueVars, runVars, slotVars, client>>

\* It answered, but the client is gone: the Reply is dropped with its slot.
ReplyDropped(r) ==
    /\ task[r] = "sending" /\ IsClosed(r)
    /\ Release(r)
    /\ task' = [task EXCEPT ![r] = "none"]
    /\ client' = [client EXCEPT ![r] = "idle"]
    /\ UNCHANGED <<cfg, queueVars, runVars, mail>>

\* send() failed or timed out: the slot goes first, the error after it.
SendFail(r) ==
    /\ task[r] = "sending"
    /\ Release(r)
    /\ task' = [task EXCEPT ![r] = "failed"]
    /\ UNCHANGED <<cfg, queueVars, runVars, client, mail>>

\* Mutation of ReplyErr: the error is logged and not sent.
ReplyErrSilent(r) ==
    /\ task[r] = "failed"
    /\ task' = [task EXCEPT ![r] = "none"]
    /\ UNCHANGED <<cfg, queueVars, runVars, slotVars, client, mail>>

ReplyErr(r) ==
    /\ task[r] = "failed"
    /\ task' = [task EXCEPT ![r] = "none"]
    /\ IF IsClosed(r)
       THEN client' = [client EXCEPT ![r] = "idle"] /\ UNCHANGED mail
       ELSE mail' = [mail EXCEPT ![r] = "err"] /\ UNCHANGED client
    /\ UNCHANGED <<cfg, queueVars, runVars, slotVars>>

------------------------------------------------------------------------------

Handler(r) ==
    \/ Notify(r) \/ ReceiveOk(r) \/ ReceiveErr(r) \/ AnswerFull(r) \/ Finish(r)

Client(r) == Submit(r) \/ SubmitFull(r) \/ HangupWaiting(r)

Run ==
    \/ AcquireFirst
    \/ PopEmpty \/ PopPass \/ PopFirst \/ PopNext
    \/ TakePermit \/ Park \/ Wake
    \/ Timeout \/ WindowOpen \/ WindowShut
    \/ SkipClosed \/ KeepOpen \/ Spawn

Dispatch(r) == ReplyOk(r) \/ ReplyDropped(r) \/ SendFail(r) \/ ReplyErr(r)

Next ==
    \/ Run
    \/ Deadline
    \/ \E r \in Requests : Client(r) \/ Handler(r) \/ Dispatch(r)

\* The runtime polls every task that can make progress.  send() returns: the
\* reqwest client has timeouts.  A body comes to an end: the client that reads
\* it finishes or gives up.  Nobody has to submit or hang up.
Fairness ==
    /\ WF_vars(Run)
    /\ WF_vars(Deadline)
    /\ \A r \in Requests : WF_vars(Handler(r)) /\ WF_vars(Dispatch(r))

Spec == Init /\ [][Next]_vars /\ Fairness

------------------------------------------------------------------------------
(* Properties.                                                              *)

Queued == QueuedItems(q)
InBatch == Range(batch)
Dispatching == {r \in Requests : task[r] # "none"}

\* Requests the backend is busy with: sent, or answered and still streaming.
AtBackend == {r \in Requests : task[r] = "sending" \/ mail[r] = "ok" \/ client[r] = "holding"}

\* No permit is lost or freed twice on any path: reply, error, skip, hang-up
\* (scheduler.rs:26-32, "there is no code path that can forget to do it").
SlotConservation == Limited => permits + Cardinality(held) = cfg.maxInflight

\* Every slot in use is accounted for: by the scheduler looking for its first
\* request, by a request of the batch, or by one the backend works on.
SlotsHaveOwners ==
    /\ held \ {scheduler} \subseteq InBatch \cup AtBackend
    /\ scheduler \in held <=> batch = << >> /\ pc \notin {"slot", "check", "spawn"}

\* "Capped by max_inflight" (telemetry.rs:17-19, scheduler.rs:73-75): the
\* backend never has more than max_inflight requests, each holding a slot from
\* dispatch until its body is through.
LimiterHolds ==
    /\ AtBackend \subseteq held
    /\ Limited => Cardinality(AtBackend) =< cfg.maxInflight

\* "No lost wakeups" (scheduler.rs:111-113): while requests wait, a scheduler
\* about to sleep or asleep has a wakeup, or one is on its way.
NoLostWakeup ==
    pc \in {"wait", "parked"} /\ q.len > 0 =>
        notified \/ woken \/ \E r \in Requests : client[r] = "pushed"

\* A request is in at most one of the queue, the batch and a dispatch task.
InOnePlace ==
    /\ Queued \cap InBatch = {}
    /\ (Queued \cup InBatch) \cap Dispatching = {}

\* Until its answer is in the channel a request has exactly one sender for it,
\* in the queue, the batch or a dispatch task, so that SchedulerGone
\* (scheduler.rs:165) is never the answer and no handler waits on nobody: "a
\* timeout can't lose a request" (lines 220-222).
OneSenderEach ==
    /\ InOnePlace
    /\ \A r \in Requests :
          client[r] \in {"pushed", "waiting", "left", "gone"} =>
              (r \in Queued \cup InBatch \cup Dispatching <=> mail[r] = "none")

\* A request taken from the queue already has its slot.
NothingInLimbo == InBatch \subseteq held

\* A request whose client hung up before a slot was granted to it does not
\* reach the backend: sending it "would burn a slot producing tokens nobody
\* will read" (scheduler.rs:242-244).
AbandonedNotSent == \A r \in Requests : client[r] = "left" => task[r] = "none"

\* "Order matters: take a backend slot FIRST, then a request" (scheduler.rs:
\* 200-207): without a batching window no request is "in limbo -- out of the
\* queue, not at the backend", nor is one sent whose client hung up in line.
SlotBeforeRequest == ~cfg.window => NothingInLimbo /\ AbandonedNotSent

\* Under every configuration, a request is in the queue, in the batch or behind
\* a slot; only a batching window lets it leave the queue ahead of its slot.
Limiter == INSTANCE Admission
    WITH Depth <- Capacity, slots <- cfg.maxInflight, batched <- cfg.window,
         queue <- Queued, taken <- InBatch \ held, service <- held \ {scheduler}

ImplementsAdmission == Limiter!Spec

\* Every submitted request is answered, whatever the other tenants keep
\* submitting, and under every configuration.
EveryRequestAnswered ==
    \A r \in Requests : (client[r] \in {"pushed", "waiting"}) ~> (client[r] \notin {"pushed", "waiting"})

\* A slot in use is given up in the end, whatever becomes of its request.
SlotsComeBack == \A r \in Requests : (r \in held) ~> (r \notin held)

\* The gauge of BackendSlot::new and drop: one per slot in existence.
BackendInflight == Cardinality(held)

\* "Requests currently occupying a backend slot (from dispatch until the last
\* byte is forwarded)" is what telemetry.rs:17-19 says the gauge counts.
GaugeCountsRequests == BackendInflight =< Cardinality(AtBackend \cup InBatch)
==============================================================================
