# oxideGate in TLA+

oxideGate is a gateway in front of an LLM inference server. It authenticates a
client, checks its tenant's limits, queues the request fairly among tenants,
admits a bounded number of requests to the backend, and streams the reply back.
This directory holds TLA+ models of its stateful parts, TLC configurations that
check them on small instances, and TLAPS proofs for every value of the
constants. Paths such as `scheduler.rs` are under `src/src/`.

- [1. The system](#1-the-system): components, hard behaviours, what is correct
- [2. The modules and the code](#2-the-modules-and-the-code)
- [3. What is checked](#3-what-is-checked): runs, bounds, fairness
- [4. Where the code and its documentation part](#4-where-the-code-and-its-documentation-part)
- [5. What is proved](#5-what-is-proved)
- [6. What is not modelled](#6-what-is-not-modelled)
- [7. Plan](#7-plan)

## 1. The system

### Components

| component | source | state | operations | model |
|---|---|---|---|---|
| fair queue | `fairqueue.rs` | map tenant → (FIFO, weight, deficit), rotation, `turn_started`, `len` | `push`, `pop`, `len` | `FairQueueOps`, `FairQueue`, `FairQueueShare`, `MultiFifo` |
| scheduler | `scheduler.rs` | the queue behind a mutex, a `Notify`, a `Semaphore` of backend slots, the batch in `run()`, one oneshot channel per request | `submit`, `next`/`pop`, `acquire_slot`, `run`, `dispatch`, `BackendSlot` drop | `Scheduler`, `Admission` |
| tenant limits | `tenants.rs` | per tenant: request bucket, token bucket, `active`; per request: a `Lease` | `admit`, `tokens_available`, `record_tokens`, `Lease` drop, `Bucket::refill` | `TenantQuota` |
| request handlers | `lib.rs` | the lease and the slot each handler or body owns | `serve`, `buffered_response`, `stream_response` | `Gateway` |
| SSE frame counter | `lib.rs` | the bytes of an unfinished line | `feed`, `count_line` | `FrameCounter` |
| tenant registry | `tenants.rs` | a map from key to tenant, built once, read-only after | `load`, `from_configs`, `resolve` | `Frontend` |
| request edge | `lib.rs` | the gauge `INFLIGHT`, the counter `REQUESTS_TOTAL` | `authenticate`, `chat_completions_handler` | `Frontend` |
| errors | `error.rs` | none | error → status and body | `Status`, in `Frontend` |
| backend client | `lib.rs`, `types.rs` | none | `Backend::send` | environment of `Scheduler` |
| telemetry | `telemetry.rs` | counters and gauges, written only | – | one gauge in `Scheduler`, one gauge and one counter in `Frontend` |
| startup | `main.rs` | none | environment → configuration | `Frontend` (tenants), `Configs` in `Scheduler` |
| load generator | `bin/loadgen.rs` | a phase; per phase a shared counter, and per worker its statistics | the worker's loop, `one_request`, `main` | `LoadGen` |
| mock backend, benchmarks | `tools/`, `benches/`, `bench/` | – | – | – |

### How they interact

`main` loads the tenants or exits. For each request `authenticate` looks its key
up, `chat_completions_handler` raises `INFLIGHT`, awaits `serve`, lowers the gauge
and counts the outcome. `serve` (one tokio task per request) calls `Tenant::admit`, which takes the
tenant's mutex and hands out a `Lease`; calls `SchedulerHandle::submit`, which
takes the queue's mutex, pushes, releases it, and then calls `notify_one`; and
awaits its oneshot. One scheduler task takes a slot, pops a request (waiting on
the `Notify` while the queue is empty), perhaps collects more of them for a
window of time, and spawns a dispatch task per request. The dispatch task calls
the backend and sends the response, together with the slot, through the oneshot.
The handler, or the body of a streamed response, then owns slot and lease and
drops both at the end.

Two resources are thus returned by `Drop` alone: the slot (a semaphore permit)
and the lease (a place and a reservation of tokens). A client that hangs up
drops the handler's future at whatever await it is at.

The load generator is a program of its own: a pool of workers over one atomic
counter, first for the warm-up, then for the measured run.

### What is hard

- *Interleavings.* Handlers, scheduler and dispatch tasks run in parallel. The
  queue's mutex is not held between a push and its notification, nor between an
  empty `pop` and `notified()`.
- *Cancellation.* A hang-up drops the handler's future, and with it lines that
  were to run after the await; the batching window's timeout drops the future of
  `next()`.
- *Stale values.* `admit` and the lease's drop read the clock before they take
  the lock. The scheduler asks whether a client is still there and only then
  waits for a slot.
- *Ownership.* A slot moves from the scheduler to a batch, a dispatch task, a
  channel and a body, and has to come back once from each.
- *Long sequences.* Fairness depends on credit carried over many calls.
- *Boundaries.* Full queue, bucket in debt, chunk that ends within a line or
  within `[DONE]`, a rate that is no number, a schedule the workers fall behind.

The full list, with lines and the properties that guard each, is under
`hazards` in `PROJECT.json`.

### What makes each component correct

- *Fair queue:* a tenant's requests leave in arrival order; a push is refused
  exactly when the queue is full; `pop` returns, and returns something unless
  nothing waits; tenants with work are served in proportion to their weights, and
  nobody is passed more often than that entails.
- *Scheduler:* no slot is lost or freed twice; there are never more than
  `max_inflight` requests at the backend; every request accepted is answered; a
  request is either in line or has a slot; a request nobody waits for is not sent.
- *Tenant limits:* `active` counts the leases and stays within the cap; requests
  and tokens are granted at no more than the configured rate; tokens are neither
  reserved nor refunded twice; a refusal costs nothing.
- *Handlers:* a lease is settled exactly once, in the end, on every path; what
  is reserved is what the backend may produce; a budget is never promised twice.
- *Frame counter:* each token frame counts once however the bytes are cut.
- *Registry and request edge:* a file with an ambiguous or unusable entry is
  refused; a request is charged to the tenant whose key it brought; counters agree
  with the answers sent.
- *Load generator:* each request is sent once and lands in the statistics once; no
  worker sleeps while a request that is due waits; latencies count from the schedule.

## 2. The modules and the code

`PROJECT.json` maps every definition to its lines. The conventions:

- Code between two awaits or lock operations is one action. Where a computation
  inside matters (a pass of `pop`'s loop, a pass of `feed`'s loop), it is several,
  and what the lock excludes is a guard (`Unlocked`).
- `\* Mutation of D:` precedes a variant of `D` with a plausible bug in it. No
  specification uses it; substituting it for `D` shows that a property notices.

| module | models | correspondence |
|---|---|---|
| `FairQueueOps` | the value of a `FairQueue` and the effect of each step on it | `queues`, `active`, `turnStarted`, `len` are the fields of the same name; `PushInto` is `push` after its capacity test; `Serve` and `PassOn` are the two outcomes of a pass of `pop`'s loop |
| `FairQueue` | `push` and `pop` as a state machine | one step per `push`, one per pass of `pop` |
| `FairQueueShare` | the same, with two history variables | `lead` and `overtaken` measure who was served while who waited |
| `MultiFifo` | what the queue promises its caller | abstract: FIFOs with one bound |
| `Scheduler` | `submit`, `run`, `next`, `dispatch`, slots | `pc` is the position in `run`; `notified`/`woken` are the `Notify`; `permits` and `held` the semaphore and its owners; `client`, `task`, `mail` a handler, its dispatch task and its oneshot |
| `Admission` | what the limiter promises (`ROADMAP.md`, D5) | abstract: a bounded queue before a bounded service; only with a batching window are requests `taken` from the one ahead of the other |
| `TenantQuota` | one tenant's buckets and leases | `now` is the local read before the lock; each return of `admit` under the lock is an action |
| `Gateway` | `serve` and the two responses, composed with `Scheduler` | its steps are `Scheduler`'s steps joined with what they do to the lease; `used`, `active` and `balance` are the code's, `brought` and `room` history variables |
| `FrameCounter` | `feed` over a stream in arbitrary chunks | one step per line completed |
| `Frontend` | `main`'s loading of the tenants, `authenticate`, `chat_completions_handler` | one step per entry of the file (`Reject`, `Insert`); one from a request's arrival to the await of `serve`; one from its result, or from the drop, to the end |
| `LoadGen` | `main` of the load generator and its workers | one step per stretch of a worker between two awaits; `start`, `next`, `stats`, `merged` are the phase's start, the counter, the workers' and `main`'s `Stats` |
| `*Proofs` | section 5 | |
| `MC*` | the instances TLC checks | |

`Scheduler` extends `FairQueueOps`: the data structure is the same in both and the
scheduler supplies the mutex. `Gateway` extends `Scheduler` and constrains its
actions. `Scheduler` is in turn the abstract specification that `Gateway`
implements. `Frontend` has only the two ends of a handler: what lies between is
`Gateway`'s, and there `serve` returns any result it has or is dropped.

Abstractions, and what they cost:

- *Credit* is an integer in parts of `Unit`. The weights of the code are 0.5 and
  1.0, exact in `f64` as are their sums, so `Unit = 2` is exact.
- *Buckets* hold `f64` in the code and integers here; a request costs `Cost` parts
  so that rates below one per second exist. Rounding is not modelled, nor are the
  infinite buckets of an unlimited tenant.
- *Text* in `FrameCounter` is five symbols. `"data:"` is two of them so that a
  chunk may end inside it; out of that place they stand for any other text.
- *`Gateway`'s tenant* is the two numbers a lease changes; `Earn` refills by a
  token at any time. Rates and clocks are `TenantQuota`'s. A request that
  `Admit` does not allow is refused without effect, which is `RefusalIsFree` there.
- *The backend* answers, fails, or streams. In `Gateway` its replies have at most
  `max_tokens` tokens (`Ceiling`). The code counts frames of a stream, not tokens
  (`lib.rs:257`, "about one token per frame", 273-276), and does not stop at
  `max_tokens`: `Forward` counts each `data:` frame, those that bring a
  token and up to `BareFrames` that bring none (role, finish) alike. A stream may thus be charged
  more than it reserved and leave a debt. Frames of several tokens are not
  modelled. A buffered reply that is lost before it is read brings nothing, and is
  refunded in full as in the code. In `TenantQuota` a reply may use `MaxOveruse` more
  than it reserved, for whatever reason.
- *Keys* in `Frontend` are a text with or without white space around it, which is
  what `bearer` trims from a header and `from_configs` does not from a file. Rates
  are integers or NaN.
- *The clock* of `LoadGen` counts units of time; a request is due every `Interval`.
  Replies are symbols, `[DONE]` two of them so that a chunk may end inside it.
  Histograms are bags. Percentiles and the report are left out.
- *Panics*, a closed semaphore and `SchedulerGone` do not occur. `OneSenderEach`
  is why a handler cannot meet the last.

## 3. What is checked

### Passing runs

| run | asks | states |
|---|---|---|
| `fairqueue` | Is the structure consistent, does `pop` return, are the calls those of a bounded store of FIFOs? | 14 thousand |
| `fairshare` | Over every sequence of calls, who is served how often? | 64 thousand |
| `scheduler` | Every interleaving of handlers, scheduler and dispatch tasks, hang-ups and backend failures, with one slot, two slots, no limiter (the default), one FIFO, and with a batching window | 211 thousand |
| `tenant_quota` | Three handlers that admit, record and settle against one tenant while time passes | 2.6 million |
| `gateway` | Three requests of a tenant that may run two at a time, from admission to the end of their body, through the scheduler | 93 thousand |
| `frame_counter` | Every stream of eight symbols in every cut into chunks of one or two | 2.4 million |
| `frontend` | Every tenants file of up to three entries, good and bad, and three requests with every kind of header and end | 146 thousand |
| `loadgen` | Warm-up and run in open and closed loop with two workers, and one worker that reads streamed replies in any cut | 145 thousand |

**`fairqueue`.** `QueueWellFormed`: the rotation names exactly the tenants that
have something queued, each once, and credit for a dispatch is held by nobody but
the tenant whose turn it is. `LenCountsItems`: the separate `len` is right and
within the capacity. `PopTerminates`. `ImplementsMultiFifo`: by calls, the queue
is a `MultiFifo`, including that pops are answered.

**`fairshare`.** `ProportionalShare`: while two tenants are both backlogged,
their dispatches stay proportional to their weights to within a turn and the
credit they may hold back. `BoundedBypass`: between two services a tenant is
passed by each other one at most once per turn it needs, also by tenants that
drain and come back at once.

**`scheduler`.** `SlotConservation`, `SlotsHaveOwners`: permits and owners always
add up, and the owner is known. `LimiterHolds`. `NoLostWakeup`: the scheduler
never sleeps beside a queued request. `OneSenderEach`: each waiting request has
exactly one holder of its channel's sender, so that none is lost to a cancelled
`next()`. `SlotBeforeRequest`: without a window a request is in line or has a
slot, and one whose client left before it had a slot is not sent; with a window
neither holds, see section 4. `ImplementsAdmission` holds in all five set-ups. `EveryRequestAnswered` and
`SlotsComeBack` (liveness).

**`tenant_quota`.** `ActiveCountsLeases`, `TokenAccount` (tokens in the bucket,
reserved and spent never exceed what was put in), `RateUpToRewind`,
`DebtOnlyFromOveruse`, and the action property `RefusalIsFree`. `TokenAccount` and
`RateUpToRewind` carry a term `rewound`, the seconds by which racing handlers have set a
bucket's clock back: section 4 shows why they must, section 5 that nothing else
must be added.

**`gateway`.** `LeasesFollowHandlers`: a handler under way has an open lease, one
that is gone has none. `LiveShareBounded`: the cap covers a tenant's requests
whose client is still there, wherever in the scheduler they are. `NeverOversold`: the
tokens a tenant's replies have brought and those its open leases still cover stay
within its capacity and what it has earned, with two leases on one budget,
settlements of short, long and lost replies, and after debts. It needs what is reserved
to be what is sent along as `max_tokens`, and tokens to be recorded before the lease
is dropped.
`LeasesComeBack`. `ImplementsScheduler`: with admission in front and leases in
its handlers, the gateway still satisfies `Scheduler!Spec`, fairness included, so
what `scheduler` shows holds behind it.

**`frame_counter`.** `CountsEachFrameOnce` compares with a definition of the frames
over the whole stream, which knows no chunks. `LongLinesCostThemselves`: a line
over `MAX_PARTIAL` can be miscounted by one and spoils no other.

**`frontend`.** `ServesOnlySoundFiles`: the gateway serves a file only if its keys
are distinct and its rates positive numbers, and otherwise names the first entry
at fault. `ChargedToOwner`: a request gets the tenant whose key it brought, and in
keyed mode never the anonymous one. `CountersMatchAnswers`: the outcome counters
are the answers, by status class. `InflightCoversServed`: `INFLIGHT` never reads
lower than the requests being served. It may read higher: a handler dropped between
the gauge's two lines leaves it up for good. The repository nowhere says that it does
not, so this is listed as a hazard and is no finding.

**`loadgen`.** `EachRequestOnce`: a number is claimed by one worker, and every
number handed out is in progress or in exactly one place of the statistics, up to
the report. `NobodyIdle`: workers claim before they sleep, and yet no request that is
due waits for one that sleeps, since numbers are claimed in the order they fall due.
`LatencyFromSchedule`: a success is recorded with its latency since its place in the
schedule, however late the worker came to it (no coordinated omission).
`JudgedByWholeReply`: a reply is judged by its last `TailMax` symbols wherever its
chunks were cut. `RunEnds` (liveness).

### Bounds, and why they are enough

- *Scheduler:* three requests, two of one tenant and one of another,
  a queue of two. This is the least with a full queue while a slot is taken, two
  requests of one tenant in different places, and two tenants in the rotation.
  A request's name is used again once nothing of it is left, so behaviours are
  infinite and the instance bounds only what is concurrent. One and two slots
  have the slot refused and granted out of order; zero is "no limiter".
- *Gateway:* three requests of one tenant under a `max_concurrent` of two and a budget
  of two: two leases share the budget while a third request waits for a place, and a queue of two
  behind one slot. One request streams and names its `max_tokens`, two are
  buffered and take the default. `BareFrames = 1` is enough for a debt.
  Tenants share nothing but the scheduler, and what happens between them there is the
  scheduler's run.
- *Fair queue:* weights of half, one and one and a half dispatches, so that a
  turn may earn too little, exactly enough, or leave a remainder; one tenant id
  pushed with two weights. Four items in a queue of three for the refinement
  (each tenant may be alone or with both others, and one push is too many); five
  in a queue of five for shares, where two tenants stay backlogged over several
  rotations. Items are symmetric in `fairshare`, whose properties are invariants.
- *`TenantQuota`:* `MaxTime` two seconds, `MaxCalls` four admissions, three
  handlers under a cap of two. A clock set back needs two handlers and two
  times; the refusals need one limit exhausted each; a debt needs
  `MaxOveruse = 1`. All histories of that length are explored, and the theorems
  lift the bounds.
- *`FrameCounter`:* `MaxPartial = 3`, `MaxChunk = 2`, `MaxSent = 8`: enough for a
  frame over four chunks and for a line over the limit with a token frame before or
  after it. A `[DONE]` with white space is then counted right within a chunk but too
  long to be carried over; that it is with a larger `MaxPartial` is part of the theorems.
- *`Frontend`:* three entries from five: two sound ones, a key that differs from
  another by white space, a rate of zero and one of NaN, an id used twice. Three
  requests, which are symmetric, give every header an answer, a drop, and a
  failure of each kind beside one another.
- *`LoadGen`:* up to two workers and four requests, so that workers run out of sync
  and a schedule is behind; `MaxTime = 3` a phase, the last slot's time;
  `HistMax = 2`, so that a latency saturates; `TailMax = 3` and `MaxReply = 4`, so
  that a reply outgrows its tail; `MaxChunk = 2`, so that `[DONE]` comes whole or cut.
  After `MaxTime` the clock stands: what a slower reply adds is a larger latency,
  and those saturate.

Deadlock is checked except where the system comes to an end: the bounded stream of
`frame_counter`, the program of `loadgen`, and `frontend`, whose requests are each
sent once and whose `main` may exit.

### Fairness

- `Run`, `Handler`, `Dispatch` are weakly fair: tokio polls every task that can go
  on. `Dispatch` includes the backend's answer or failure: `reqwest` has timeouts.
- `Deadline` is weakly fair: time passes.
- `Finish` (in `Handler`) is weakly fair: a body ends, or its client goes. The
  code sets no limit on a client that keeps its connection and does not read.
  This is an assumption, and listed as a hazard no property covers.
- `Enter` in `Gateway` is *strongly* fair: the handler needs the queue's mutex,
  which the scheduler takes and releases again and again; the mutex is acquired
  in the end. In `Scheduler` submitting is the client's choice and not fair at all.
- `pop`'s loop is weakly fair. Nobody has to call, submit, or hang up.
- In `LoadGen` `Main`, each worker and the clock are weakly fair. That covers the
  replies: the client has a timeout (`loadgen.rs:205`).

## 4. Where the code and its documentation part

Four runs check what a comment or document says and are expected to fail.

| run | what is said | what happens |
|---|---|---|
| `abandoned` | a client that hung up while queued is skipped (`scheduler.rs:242-244`) | with a window, requests leave the queue before they have a slot ("in limbo", which `scheduler.rs:202-207` means to rule out) and the check comes before the wait for it; a hang-up during the wait goes unseen |
| `gauge` | the gauge counts requests at the backend, from dispatch (`telemetry.rs:17-19`) | it counts slots, and an idle scheduler holds one |
| `rate_race` | a bucket refills at its rate (`tenants.rs:89`) | two handlers read the clock in one order and take the lock in the other: the second between is credited twice |
| `concurrency_cap` | the cap is on a tenant's requests "queued or at the backend" (`tenants.rs:5-6`) | a hang-up settles the lease while the request is still queued or at the backend; the tenant may send another |

The passing properties say how far each goes: of the first, `SlotBeforeRequest`
says that it is the window which makes the difference; the excess of the third is what the
clock was set back by (`RateIsBounded`, `RateHonouredUntilRewind`); the cap of the
fourth does hold for requests whose client is there (`LiveShareBounded`).

## 5. What is proved

For all values of the constants that satisfy the named assumptions
(`QueueAssumption`, `OfferedAssumption`, `ShareAssumption`, `SchedulerAssumption`,
`QuotaAssumption`, `GatewayAssumption`, `SettingsAssumption`,
`RequestsAssumption`, `LoadAssumption`, `FrameAssumption`): finitely many requests and handlers,
positive weights and costs, of which each tenant has finitely many (a tier each, two in
the code), and inputs of the type the code parses them to.

**`TenantQuotaProofs`.** `TypeCorrect`, `LeasesAreCounted`, `RateIsBounded`,
`TokensAreAccounted`, `DebtIsOveruse`, `RefusalsAreFree`. The invariant is
`AccountsOK`: types, the two accounts, the bound on debt, and `TimesArePast` (no
handler and no bucket has a time later than the clock). The accounts are
inductive because a refill that moves `last` back by `d` seconds adds `d` to
`rewound` and nothing to the level. `RateHonouredUntilRewind` is the reverse of
run `rate_race`: while `last` has not gone back the documented rate holds.

**`FairQueueOpsProofs`** has lemmas only. `GoodQueue` gathers what every step
keeps: types, the rotation's agreement with the map, credit that only the front
tenant has, tenants' items that are disjoint and without repetition, and `len`
equal to their number. `PushIsGood`, `ServeIsGood` and `PassIsGood` say that the
operators keep it and what they do to the set of queued items. `FairQueueProofs`
and `SchedulerProofs` both rest on them.

**`FairQueueProofs`.** `TypeCorrect`, `QueueStaysWellFormed`, `LenIsCount`, by
`QueueInv`: `GoodQueue` and `len` within the capacity. `QueueStepsAreFifo` is the
safety part of `ImplementsMultiFifo`: a push appends to one line, a pop that answers
takes the head of one, a pass that only grants credit changes none. The store bounds
what waits in all lines and the queue bounds `len`; a bijection between the places
in the lines and the queued items makes the two numbers one.

`PassesRunOut` is the variant of `pop`'s loop: a pass that answers nothing leaves fewer
parts of credit lacking for a dispatch, over all tenants in line. TLC adds the fairness and has
`PopTerminates`.

`SharesAreProportional` weighs the two tenants' dispatches and credits against each
other in one number, `Balance(t, u)`: dispatches t had ahead of u, in parts of a dispatch,
plus t's credit, less u's, each times the other's weight. A dispatch takes off t's credit
what it adds to the lead, so that only the credit a turn brings moves the balance: up by
the product of the weights when it is t's, down by it when it is u's. `PairLead` bounds it
by what it can be when the second of the two joins, and one such product more unless t is
the next of the two to have its turn (`IsNext`); turns alternate as long as both stay in
line (`TurnOrder`, `TurnHolder`, `PushOrder`). What the balance says of the dispatches is exact up to the
credits, and `CreditsOK` bounds these: weights are those offered, the credit left in a
turn is less than the turn brought, and a tenant out of turn has less than a dispatch.

`BypassIsBounded` counts fruitless turns: while t waits for service it has had some
number j of turns, each of which left it its weight (`PassedUpTo`), so that j times its
weight is at most its credit, which is less than a dispatch; another tenant has passed it
at most a quota per turn, the most dispatches its heaviest weight and the rest of its
credit can pay (`Quota`), and one quota more while t is next, the other having had its
turn since. A tenant that drains and comes back joins the end of the line, and so gets
no turn before t has another.

**`SchedulerProofs`.** `SchedulerInv` has five parts:

- `StateTypes`, and `QueueOK`, which is `GoodQueue`;
- `BatchOK`: the batch repeats nobody, is empty before the first slot and not
  empty where `run` needs its head;
- `PlacesOK`: for each request, the handler's state determines whether the queue,
  the batch or a dispatch task has its sender, or the channel has its answer. It is
  `OneSenderEach` and in addition the converse for handlers that are not waiting:
  without it, a name used again could find an old request of its own;
- `SlotsOK`: `SlotConservation`, `SlotsHaveOwners`, and that what is at the backend
  has a slot. None of the three is inductive without `PlacesOK`, which is what
  makes the request that takes a slot one that had none.

From it follow `TypeCorrect`, `SlotsAreConserved`, `SlotsAreOwned`,
`LimiterIsKept`, `EachHasOneSender`. `NoWakeupIsLost` is inductive relative to it.
`SlotFirst` adds what is true without a window, namely that everything in the
batch has a slot and that a request whose client left before it had one is not about
to be spawned; `SlotComesFirst` follows from it. `AdmissionIsImplemented`: under every
configuration each step of the scheduler is a step of `Admission` or a stutter.

**`GatewayProofs`.** `LeasesAreTyped`, `LeasesAreSettledOnce`, `LiveShareIsBounded`,
`BudgetsAreNeverOversold`, by `GatewayInv`. As each step of the gateway is one of the
scheduler's or leaves its variables alone (`GatewayStepsAreScheduler`, the safety part
of `ImplementsScheduler`), `SchedulerInv` is part of it. It adds that a handler which
owns a lease has it open and one about to be settled has no handler that might do so
again (`Followed`), that `active` counts the leases (`LeaseCounts`), that a lease has
used at least what its reply has brought (`Metered`), and that the tokens outstanding
and the balance together stay within `room` (`Within`). `NeverOversold` leaves the balance
out and is not inductive: the next admission would spend it. Of a debt `Within` takes
nothing off, since a frame without a token costs the balance and not the room. The theorems
hold under every configuration of the scheduler, where the run has one.

**`FrontendProofs`.** `OnlySoundFilesAreServed` by `LoadInv`: `byKey` holds exactly the
entries read so far, all of them sound and with different keys. It is also what makes
`RequestsAreChargedToOwners` (`OwnerInv`) true: with a file fully read, the key of an
entry leads to it alone. `CountersAreOfAnswers` and `InflightIsNeverLow` by
`CountInv`, over finitely many requests of which each step moves one.

**`LoadGenProofs`.** `NobodySitsIdle`, `LatencyIsFromSchedule`: `LoadGenInv` says of
each worker that its number is its own and below the counter and, in open loop, that it
measures from that number's slot. `RepliesAreJudgedWhole` adds `StreamsOK`: what a
worker keeps is the end of the whole reply, because cutting the end of an end and a
chunk gives the end of both (`KeepsTheEnd`), and it has a first byte's time as soon as
it has a byte, without which no reply holds `[DONE]`. `TypeCorrect` adds `FiguresOK`,
histograms within their range. `RequestsAreCountedOnce` adds `CountsOK`: the numbers
handed out, `total` at most, are as many as the busy workers, the requests in the
figures of the workers not joined, and those in main's. Each step moves one request
between two of the three, and a join moves a worker's to main; at the end the first two
are empty and the counter has reached `total`, as some worker has found it there: this
needs one worker at least, which `main` sees to.

**`FrameCounterProofs`.** `EachFrameIsCountedOnce`, `LongLinesAreAlone`, by
`FrameInv`, which says what the two variables of the code are in terms of the stream
read so far and so makes them independent of the chunks: `partial` is the line under
way unless that is too long, and `counted` is the size of some set of complete lines
that differs from the set of token frames by lines too long at most. The set is not
determined: whether a line too long is counted depends on how it was cut.

**Only model-checked.** Liveness (`PopTerminates`, `EveryRequestAnswered`,
`SlotsComeBack`, `LeasesComeBack`, `RunEnds`) and the refinements that include
fairness (`ImplementsMultiFifo`, `ImplementsScheduler`), as the prover does not reach
fairness and `ENABLED`; the safety part of both refinements is proved. Every invariant
and every action property of the passing runs is a theorem.

## 6. What is not modelled

- *HTTP, JSON, logs, histograms:* no state, or state that is only written.
- *The numbers of the environment* (`env_num`): a value that does not parse counts as
  unset, so that every outcome is a value the constants of the models range over.
- *Percentiles and the printed report* of the load generator.
- *Mock backend, benchmarks:* a test double with a counter of requests in progress,
  and measurements. Neither is part of the gateway.
- *`Gateway` under the other configurations in TLC:* with a window the composition
  is beyond what TLC explores in minutes. The theorems cover its safety.
- *Floating point:* rounding, infinity and NaN in the buckets.
- *Memory order within a step, poisoned locks, panics, shutdown.*

## 7. Plan

The order was: what every request depends on first, and parts before what they
compose.

1. `FairQueueOps`, `FairQueue`, `MultiFifo`, `FairQueueShare` – done
2. `Scheduler`, `Admission` – done
3. `TenantQuota` – done
4. `Gateway` over `Scheduler` – done
5. `FrameCounter` – done
6. Proofs of `TenantQuota`, the queue's operators, `FairQueue`, `Scheduler` – done
7. `Scheduler` with and without a window against one `Admission` – done
8. `Frontend`: registry, authentication, the edge of a request – done
9. `LoadGen` – done
10. Proofs of `Gateway`, `Frontend`, `LoadGen` – done
11. Proofs of `FairQueue`'s steps as steps of `MultiFifo`, and of `FrameCounter` – done
12. Proofs of the queue's shares, of `LoadGen`'s figures and replies – done

Open:

13. *Proofs:* the variants behind the other liveness properties, as `PassesRunOut` is
    for `pop`: what a request in line still has to wait for (`EveryRequestAnswered`)
    and what is left of a phase (`RunEnds`).
