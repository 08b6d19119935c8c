--------------------------- MODULE SchedulerProofs ---------------------------
(***************************************************************************)
(* Theorems about Scheduler, for any requests, tenants, weights, queue     *)
(* depth and configuration.                                                *)
(*                                                                         *)
(* The slots are safe because a request is in one place at a time, and the *)
(* place says whether it has a slot.  So the invariant has these parts:    *)
(* the queue is good (FairQueueOpsProofs), run() has a batch where it      *)
(* needs one, every request is where its handler's state says, and slots   *)
(* belong to the scheduler, to requests of the batch and to those at the   *)
(* backend.                                                                *)
(***************************************************************************)
EXTENDS Scheduler, FairQueueOpsProofs

StateTypes ==
    /\ cfg \in Configs
    /\ notified \in BOOLEAN /\ woken \in BOOLEAN /\ expired \in BOOLEAN
    /\ pc \in Places
    /\ permits \in Nat
    /\ held \subseteq Requests \cup {scheduler}
    /\ client \in [Requests -> HandlerStates]
    /\ task \in [Requests -> {"none", "sending", "failed"}]
    /\ mail \in [Requests -> {"none", "ok", "err"}]

QueueOK == GoodQueue(q, Keys, Requests)

\* The batch repeats nobody, and is there where run() needs its head.
BatchOK ==
    /\ batch \in Seq(Requests) /\ IsInjective(batch)
    /\ pc \in {"check", "spawn", "window"} => batch # << >>
    /\ pc = "slot" => batch = << >>

\* Somebody has the sender of r's reply channel.
HasSender(r) == r \in Queued \cup InBatch \cup Dispatching

PlacesOK ==
    /\ InOnePlace
    /\ \A r \in Requests :
          /\ client[r] \in {"idle", "refused", "holding"} => ~HasSender(r) /\ mail[r] = "none"
          /\ client[r] \in {"pushed", "waiting"} => (HasSender(r) <=> mail[r] = "none")
          /\ client[r] \in {"left", "gone"} => HasSender(r) /\ mail[r] = "none"

SlotsOK == SlotsHaveOwners /\ AtBackend \subseteq held /\ SlotConservation

SchedulerInv == StateTypes /\ QueueOK /\ BatchOK /\ PlacesOK /\ SlotsOK

------------------------------------------------------------------------------
(* Facts about the state.                                                   *)

LEMMA ConfigTypes ==
    ASSUME StateTypes
    PROVE  /\ cfg.window \in BOOLEAN /\ cfg.maxInflight \in Nat /\ cfg.fair \in BOOLEAN
           /\ \A r \in Requests : KeyOf(r) \in Keys /\ WeightOf(r) \in Nat \ {0}
<1>1. cfg.window \in BOOLEAN /\ cfg.maxInflight \in Nat /\ cfg.fair \in BOOLEAN
  BY SchedulerAssumption DEF StateTypes
<1>2. ASSUME NEW r \in Requests PROVE KeyOf(r) \in Keys /\ WeightOf(r) \in Nat \ {0}
  BY SchedulerAssumption, QueueAssumption DEF KeyOf, WeightOf, Keys, Tenants
<1> QED
  BY <1>1, <1>2

LEMMA HeldIsFinite ==
    ASSUME StateTypes
    PROVE  IsFiniteSet(held) /\ Cardinality(held) \in Nat
<1>1. IsFiniteSet(Requests \cup {scheduler})
  BY SchedulerAssumption, FS_AddElement
<1>2. IsFiniteSet(held)
  BY <1>1, FS_Subset DEF StateTypes
<1> QED
  BY <1>2, FS_CardinalityType

\* The item pop() serves next is a queued request, and nowhere else.
LEMMA FrontIsQueued ==
    ASSUME SchedulerInv, q.active # << >>, CanServe(q)
    PROVE  /\ FrontItem(q) \in Queued /\ FrontItem(q) \in Requests
           /\ FrontItem(q) \notin InBatch /\ task[FrontItem(q)] = "none"
           /\ mail[FrontItem(q)] = "none" /\ client[FrontItem(q)] # "holding"
           /\ FrontItem(q) \notin AtBackend /\ FrontItem(q) \notin held
<1> DEFINE r == FrontItem(q)
<1>1. r \in Queued
  BY ServeIsGood DEF SchedulerInv, QueueOK, Queued
<1>2. r \in Requests
  <2>1. Typed(q, Keys, Requests)
    BY DEF SchedulerInv, QueueOK, GoodQueue
  <2>2. PICK k \in Dom(q) : r \in Range(Its(q, k))
    BY <1>1, QueuedIsUnion DEF Queued
  <2>3. Its(q, k) \in Seq(Requests)
    BY <2>1, <2>2 DEF Typed
  <2> QED
    BY <2>2, <2>3 DEF Range
<1>3. r \notin InBatch /\ r \notin Dispatching
  BY <1>1 DEF SchedulerInv, PlacesOK, InOnePlace
<1>4. task[r] = "none" /\ HasSender(r)
  BY <1>1, <1>2, <1>3 DEF Dispatching, HasSender
<1>5. client[r] \in {"pushed", "waiting", "left", "gone"} /\ mail[r] = "none"
  BY <1>2, <1>4 DEF SchedulerInv, PlacesOK, StateTypes, HandlerStates
<1>6. r \notin AtBackend
  BY <1>4, <1>5 DEF AtBackend
<1>7. r # scheduler
  BY <1>2, SchedulerAssumption
<1>8. r \notin held
  BY <1>3, <1>6, <1>7 DEF SchedulerInv, SlotsOK, SlotsHaveOwners
<1> QED
  BY <1>1, <1>2, <1>3, <1>4, <1>5, <1>6, <1>8

\* The first of the batch is in no other place.
LEMMA HeadIsBatched ==
    ASSUME SchedulerInv, pc \in {"check", "spawn"}
    PROVE  /\ Head(batch) \in Requests /\ Head(batch) \in InBatch
           /\ Tail(batch) \in Seq(Requests) /\ IsInjective(Tail(batch))
           /\ Range(Tail(batch)) = InBatch \ {Head(batch)}
           /\ (Rest = "slot" => Tail(batch) = << >>)
           /\ (Rest = "check" => Tail(batch) # << >>)
           /\ Rest \in {"slot", "check"}
           /\ Head(batch) \notin Queued /\ task[Head(batch)] = "none"
           /\ mail[Head(batch)] = "none" /\ Head(batch) \notin AtBackend
<1> DEFINE r == Head(batch)
<1>1. batch \in Seq(Requests) /\ batch # << >> /\ IsInjective(batch)
  BY DEF SchedulerInv, BatchOK
<1>2. /\ Tail(batch) \in Seq(Requests) /\ r \in Requests
      /\ InBatch = Range(Tail(batch)) \cup {r}
      /\ IsInjective(Tail(batch)) /\ r \notin Range(Tail(batch))
      /\ Len(batch) # 1 => Tail(batch) # << >>
      /\ Len(batch) = 1 => Tail(batch) = << >>
  BY <1>1, RangeTail DEF InBatch
<1>3. r \in InBatch /\ Range(Tail(batch)) = InBatch \ {r}
  BY <1>2
<1>4. r \notin Queued /\ r \notin Dispatching
  BY <1>3 DEF SchedulerInv, PlacesOK, InOnePlace
<1>5. task[r] = "none" /\ HasSender(r)
  BY <1>2, <1>3, <1>4 DEF Dispatching, HasSender
<1>6. client[r] \in {"pushed", "waiting", "left", "gone"} /\ mail[r] = "none"
  BY <1>2, <1>5 DEF SchedulerInv, PlacesOK, StateTypes, HandlerStates
<1>7. r \notin AtBackend
  BY <1>5, <1>6 DEF AtBackend
<1>8. /\ Rest = "slot" => Tail(batch) = << >>
      /\ Rest = "check" => Tail(batch) # << >>
      /\ Rest \in {"slot", "check"}
  BY <1>2 DEF Rest
<1> QED
  BY <1>2, <1>3, <1>4, <1>5, <1>6, <1>7, <1>8

LEMMA InitSchedulerInv == Init => SchedulerInv
<1> SUFFICES ASSUME Init PROVE SchedulerInv
  OBVIOUS
<1>1. cfg.maxInflight \in Nat
  BY SchedulerAssumption DEF Init
<1>2. StateTypes
  BY <1>1 DEF Init, StateTypes, Places, HandlerStates
<1>3. QueueOK /\ Queued = {}
  BY EmptyIsGood DEF Init, QueueOK, Queued
<1>4. InBatch = {} /\ Dispatching = {}
  BY DEF Init, InBatch, Dispatching, Range
<1>5. BatchOK
  BY DEF Init, BatchOK, IsInjective
<1>6. PlacesOK
  BY <1>3, <1>4 DEF Init, PlacesOK, InOnePlace, HasSender
<1>7. AtBackend = {}
  BY DEF Init, AtBackend
<1>8. SlotsOK
  BY <1>1, <1>4, <1>7, FS_EmptySet DEF Init, SlotsOK, SlotsHaveOwners, SlotConservation, Limited
<1> QED
  BY <1>2, <1>3, <1>5, <1>6, <1>8 DEF SchedulerInv

------------------------------------------------------------------------------
(* Every step keeps the types.                                              *)

LEMMA AcquireTypes ==
    ASSUME StateTypes, NEW x \in Requests \cup {scheduler}, Acquire(x)
    PROVE  permits' \in Nat /\ held' \subseteq Requests \cup {scheduler}
<1>1. permits' \in Nat
  BY DEF StateTypes, Acquire, SlotFree
<1> QED
  BY <1>1 DEF StateTypes, Acquire

LEMMA ReleaseTypes ==
    ASSUME StateTypes, NEW r, Release(r)
    PROVE  permits' \in Nat /\ held' \subseteq Requests \cup {scheduler}
BY DEF StateTypes, Release

LEMMA NextStateTypes ==
    ASSUME SchedulerInv, Next
    PROVE  StateTypes'
<1>1. StateTypes
  BY DEF SchedulerInv
<1>2. ASSUME NEW r \in Requests, Client(r) PROVE StateTypes'
  <2>1. CASE Submit(r)
    BY <1>1, <2>1 DEF Submit, StateTypes, HandlerStates, runVars, slotVars
  <2>2. CASE SubmitFull(r)
    BY <1>1, <2>2 DEF SubmitFull, StateTypes, HandlerStates, queueVars, runVars, slotVars
  <2>3. CASE HangupWaiting(r)
    <3>1. permits' \in Nat /\ held' \subseteq Requests \cup {scheduler}
      BY <1>1, <2>3, ReleaseTypes DEF HangupWaiting, StateTypes, slotVars
    <3> QED
      BY <1>1, <2>3, <3>1 DEF HangupWaiting, StateTypes, HandlerStates, queueVars, runVars
  <2> QED
    BY <1>2, <2>1, <2>2, <2>3 DEF Client
<1>3. ASSUME NEW r \in Requests, Handler(r) PROVE StateTypes'
  <2>1. CASE Notify(r)
    BY <1>1, <2>1 DEF Notify, NotifyOne, StateTypes, HandlerStates, runVars, slotVars
  <2>2. CASE ReceiveOk(r)
    BY <1>1, <2>2 DEF ReceiveOk, StateTypes, HandlerStates, queueVars, runVars, slotVars
  <2>3. CASE ReceiveErr(r)
    BY <1>1, <2>3 DEF ReceiveErr, StateTypes, HandlerStates, queueVars, runVars, slotVars
  <2>4. CASE AnswerFull(r)
    BY <1>1, <2>4 DEF AnswerFull, StateTypes, HandlerStates, queueVars, runVars, slotVars
  <2>5. CASE Finish(r)
    BY <1>1, <2>5, ReleaseTypes DEF Finish, StateTypes, HandlerStates, queueVars, runVars
  <2> QED
    BY <1>3, <2>1, <2>2, <2>3, <2>4, <2>5 DEF Handler
<1>4. ASSUME NEW r \in Requests, Dispatch(r) PROVE StateTypes'
  <2>1. CASE ReplyOk(r)
    BY <1>1, <2>1 DEF ReplyOk, StateTypes, queueVars, runVars, slotVars
  <2>2. CASE ReplyDropped(r)
    BY <1>1, <2>2, ReleaseTypes DEF ReplyDropped, StateTypes, HandlerStates, queueVars, runVars
  <2>3. CASE SendFail(r)
    BY <1>1, <2>3, ReleaseTypes DEF SendFail, StateTypes, queueVars, runVars
  <2>4. CASE ReplyErr(r)
    BY <1>1, <2>4 DEF ReplyErr, StateTypes, HandlerStates, queueVars, runVars, slotVars
  <2> QED
    BY <1>4, <2>1, <2>2, <2>3, <2>4 DEF Dispatch
<1>5. CASE Run
  <2>1. CASE AcquireFirst
    BY <1>1, <2>1, AcquireTypes DEF AcquireFirst, StateTypes, Places, queueVars, reqVars
  <2>2. CASE PopEmpty \/ Park \/ WindowOpen \/ WindowShut \/ KeepOpen
    BY <1>1, <2>2
    DEF PopEmpty, Park, WindowOpen, WindowShut, KeepOpen, StateTypes, Places, queueVars,
        slotVars, reqVars
  <2>3. CASE PopPass
    BY <1>1, <2>3 DEF PopPass, StateTypes, Places, slotVars, reqVars
  <2>4. CASE PopFirst
    BY <1>1, <2>4, FrontIsQueued DEF PopFirst, StateTypes, Places, reqVars
  <2>5. CASE PopNext
    BY <1>1, <2>5 DEF PopNext, StateTypes, Places, slotVars, reqVars
  <2>6. CASE TakePermit \/ Wake \/ Timeout
    BY <1>1, <2>6 DEF TakePermit, Wake, Timeout, StateTypes, Places, slotVars, reqVars
  <2>7. CASE SkipClosed
    <3>1. permits' \in Nat /\ held' \subseteq Requests \cup {scheduler}
      BY <1>1, <2>7, ReleaseTypes DEF SkipClosed, DropSlot, StateTypes, slotVars
    <3>2. Head(batch) \in Requests /\ Rest \in {"slot", "check"}
      BY <2>7, HeadIsBatched DEF SkipClosed
    <3> QED
      BY <1>1, <2>7, <3>1, <3>2 DEF SkipClosed, StateTypes, Places, HandlerStates, queueVars
  <2>8. CASE Spawn
    <3>1. Head(batch) \in Requests /\ Rest \in {"slot", "check"}
      BY <2>8, HeadIsBatched DEF Spawn
    <3>2. permits' \in Nat /\ held' \subseteq Requests \cup {scheduler}
      BY <1>1, <2>8, <3>1, AcquireTypes DEF Spawn, StateTypes, slotVars
    <3> QED
      BY <1>1, <2>8, <3>1, <3>2 DEF Spawn, StateTypes, Places, queueVars
  <2> QED
    BY <1>5, <2>1, <2>2, <2>3, <2>4, <2>5, <2>6, <2>7, <2>8 DEF Run
<1>6. CASE Deadline
  BY <1>1, <1>6 DEF Deadline, StateTypes, queueVars, slotVars, reqVars
<1> QED
  BY <1>2, <1>3, <1>4, <1>5, <1>6 DEF Next

------------------------------------------------------------------------------
(* What the steps that touch the queue and the batch do to them.            *)

LEMMA SubmitAdds ==
    ASSUME SchedulerInv, NEW r \in Requests, Submit(r)
    PROVE  QueueOK' /\ Queued' = Queued \cup {r}
<1>1. client[r] = "idle" /\ q' = PushInto(q, KeyOf(r), WeightOf(r), r)
  BY DEF Submit
<1>2. r \notin QueuedItems(q)
  BY <1>1 DEF SchedulerInv, PlacesOK, HasSender, Queued
<1>3. KeyOf(r) \in Keys /\ WeightOf(r) \in Nat \ {0}
  BY ConfigTypes DEF SchedulerInv
<1>4. GoodQueue(q', Keys, Requests) /\ QueuedItems(q') = QueuedItems(q) \cup {r}
  BY <1>1, <1>2, <1>3, PushIsGood DEF SchedulerInv, QueueOK
<1> QED
  BY <1>4 DEF QueueOK, Queued

LEMMA PassKeeps ==
    ASSUME SchedulerInv, PopPass
    PROVE  QueueOK' /\ Queued' = Queued
<1>1. q.active # << >> /\ ~CanServe(q) /\ q' = PassOn(q)
  BY DEF PopPass
<1>2. GoodQueue(q', Keys, Requests) /\ QueuedItems(q') = QueuedItems(q)
  BY <1>1, PassIsGood DEF SchedulerInv, QueueOK
<1> QED
  BY <1>2 DEF QueueOK, Queued

LEMMA ServeTakes ==
    ASSUME SchedulerInv, PopFirst \/ PopNext
    PROVE  QueueOK' /\ Queued' = Queued \ {FrontItem(q)}
<1>1. q.active # << >> /\ CanServe(q) /\ q' = Serve(q)
  BY DEF PopFirst, PopNext
<1>2. /\ GoodQueue(q', Keys, Requests)
      /\ QueuedItems(q') = QueuedItems(q) \ {FrontItem(q)}
  BY <1>1, ServeIsGood DEF SchedulerInv, QueueOK
<1> QED
  BY <1>2 DEF QueueOK, Queued

\* Steps of the scheduler that leave queue and batch alone.
Control ==
    \/ AcquireFirst \/ PopEmpty \/ TakePermit \/ Park \/ Wake
    \/ Timeout \/ WindowOpen \/ WindowShut \/ KeepOpen \/ Deadline

\* Steps of a request that leave the queue alone.
Aside(r) ==
    \/ SubmitFull(r) \/ HangupWaiting(r) \/ Handler(r) \/ Dispatch(r)

LEMMA StepsByEffect ==
    ASSUME Next
    PROVE  \/ Control \/ PopPass \/ PopFirst \/ PopNext \/ SkipClosed \/ Spawn
           \/ \E r \in Requests : Submit(r) \/ Aside(r)
BY DEF Next, Run, Client, Control, Aside

LEMMA ControlKeeps ==
    ASSUME Control
    PROVE  /\ q' = q /\ batch' = batch /\ UNCHANGED reqVars /\ Queued' = Queued
           /\ InBatch' = InBatch /\ cfg' = cfg
<1>1. q' = q /\ batch' = batch /\ UNCHANGED reqVars /\ cfg' = cfg
  BY DEF Control, AcquireFirst, PopEmpty, TakePermit, Park, Wake, Timeout, WindowOpen,
         WindowShut, KeepOpen, Deadline, queueVars
<1> QED
  BY <1>1 DEF Queued, InBatch

LEMMA AsideKeeps ==
    ASSUME NEW r \in Requests, Aside(r)
    PROVE  /\ q' = q /\ batch' = batch /\ pc' = pc /\ Queued' = Queued /\ InBatch' = InBatch
           /\ cfg' = cfg
<1>1. q' = q /\ UNCHANGED runVars /\ cfg' = cfg
  BY DEF Aside, Handler, Dispatch, SubmitFull, HangupWaiting, Notify, ReceiveOk, ReceiveErr,
         AnswerFull, Finish, ReplyOk, ReplyDropped, SendFail, ReplyErr, queueVars
<1>2. batch' = batch /\ pc' = pc
  BY <1>1 DEF runVars
<1> QED
  BY <1>1, <1>2 DEF Queued, InBatch

LEMMA NextQueueOK ==
    ASSUME SchedulerInv, Next
    PROVE  QueueOK'
<1>1. ASSUME q' = q PROVE QueueOK'
  BY <1>1 DEF SchedulerInv, QueueOK
<1>2. CASE Control
  BY <1>1, <1>2, ControlKeeps
<1>3. CASE PopPass
  BY <1>3, PassKeeps
<1>4. CASE PopFirst \/ PopNext
  BY <1>4, ServeTakes
<1>5. CASE SkipClosed \/ Spawn
  BY <1>1, <1>5 DEF SkipClosed, Spawn, queueVars
<1>6. ASSUME NEW r \in Requests, Submit(r) PROVE QueueOK'
  BY <1>6, SubmitAdds
<1>7. ASSUME NEW r \in Requests, Aside(r) PROVE QueueOK'
  BY <1>1, <1>7, AsideKeeps
<1> QED
  BY <1>2, <1>3, <1>4, <1>5, <1>6, <1>7, StepsByEffect

LEMMA NextBatchOK ==
    ASSUME SchedulerInv, Next
    PROVE  BatchOK'
<1>1. /\ batch \in Seq(Requests) /\ IsInjective(batch)
      /\ pc \in {"check", "spawn", "window"} => batch # << >>
      /\ pc = "slot" => batch = << >>
  BY DEF SchedulerInv, BatchOK
<1>2. CASE Control
  <2>1. batch' = batch
    BY <1>2, ControlKeeps
  <2>2. pc' # "slot" \/ pc' = pc
    BY <1>2 DEF Control, AcquireFirst, PopEmpty, TakePermit, Park, Wake, Timeout, WindowOpen,
                WindowShut, KeepOpen, Deadline
  <2>3. ASSUME pc' \in {"check", "spawn", "window"} PROVE batch # << >>
    BY <1>1, <1>2, <2>3
    DEF Control, AcquireFirst, PopEmpty, TakePermit, Park, Wake, Timeout, WindowOpen,
        WindowShut, KeepOpen, Deadline, Collecting
  <2> QED
    BY <1>1, <2>1, <2>2, <2>3 DEF BatchOK
<1>3. CASE PopPass
  BY <1>1, <1>3 DEF PopPass, BatchOK
<1>4. CASE PopFirst
  <2>1. FrontItem(q) \in Requests
    BY <1>4, FrontIsQueued DEF PopFirst
  <2>2. batch' = <<FrontItem(q)>> /\ pc' \in {"window", "check"}
    BY <1>4 DEF PopFirst
  <2> QED
    BY <2>1, <2>2 DEF BatchOK, IsInjective
<1>5. CASE PopNext
  <2>1. FrontItem(q) \in Requests /\ FrontItem(q) \notin Range(batch)
    BY <1>5, FrontIsQueued DEF PopNext, InBatch
  <2>2. batch' = Append(batch, FrontItem(q)) /\ pc' = "window"
    BY <1>5 DEF PopNext
  <2>3. batch' \in Seq(Requests) /\ batch' # << >> /\ IsInjective(batch')
    BY <1>1, <2>1, <2>2, RangeAppend
  <2> QED
    BY <2>2, <2>3 DEF BatchOK
<1>6. CASE SkipClosed \/ Spawn
  <2>1. pc \in {"check", "spawn"} /\ batch' = Tail(batch) /\ pc' = Rest
    BY <1>6 DEF SkipClosed, Spawn
  <2>2. /\ Tail(batch) \in Seq(Requests) /\ IsInjective(Tail(batch))
        /\ Rest = "slot" => Tail(batch) = << >>
        /\ Rest = "check" => Tail(batch) # << >>
        /\ Rest \in {"slot", "check"}
    BY <2>1, HeadIsBatched
  <2> QED
    BY <2>1, <2>2 DEF BatchOK
<1>7. ASSUME NEW r \in Requests, Submit(r) PROVE BatchOK'
  BY <1>1, <1>7 DEF Submit, runVars, BatchOK
<1>8. ASSUME NEW r \in Requests, Aside(r) PROVE BatchOK'
  BY <1>1, <1>8, AsideKeeps DEF BatchOK
<1> QED
  BY <1>2, <1>3, <1>4, <1>5, <1>6, <1>7, <1>8, StepsByEffect

------------------------------------------------------------------------------
(* Every step leaves each request in the place its handler's state says.    *)

\* PlacesOK for one request.
Placed(r) ==
    LET sent == r \in Queued \/ r \in InBatch \/ task[r] # "none"
    IN  /\ r \in Queued => r \notin InBatch /\ task[r] = "none"
        /\ r \in InBatch => task[r] = "none"
        /\ client[r] \in {"idle", "refused", "holding"} => ~sent /\ mail[r] = "none"
        /\ client[r] \in {"pushed", "waiting"} => (sent <=> mail[r] = "none")
        /\ client[r] \in {"left", "gone"} => sent /\ mail[r] = "none"

LEMMA EachIsPlaced ==
    ASSUME SchedulerInv, NEW r \in Requests
    PROVE  Placed(r)
<1>1. InOnePlace /\ (HasSender(r) <=> r \in Queued \/ r \in InBatch \/ task[r] # "none")
  BY DEF SchedulerInv, PlacesOK, HasSender, Dispatching
<1>2. /\ r \in Queued => r \notin InBatch /\ task[r] = "none"
      /\ r \in InBatch => task[r] = "none"
  BY <1>1 DEF InOnePlace, Dispatching
<1> QED
  BY <1>1, <1>2 DEF Placed, SchedulerInv, PlacesOK

LEMMA PlacesFromPlaced ==
    ASSUME BatchOK', \A r \in Requests : Placed(r)'
    PROVE  PlacesOK'
<1>1. InBatch' \subseteq Requests
  BY DEF BatchOK, InBatch, Range
<1>2. \A r \in Requests :
         HasSender(r)' <=> r \in Queued' \/ r \in InBatch' \/ task'[r] # "none"
  BY DEF HasSender, Dispatching
<1>3. InOnePlace'
  BY <1>1 DEF Placed, InOnePlace, Dispatching
<1> QED
  BY <1>2, <1>3 DEF Placed, PlacesOK

\* A step of r's own: it disturbs no other request.
LEMMA OthersStayPlaced ==
    ASSUME SchedulerInv, NEW r, NEW s \in Requests, s # r,
           s \in Queued' <=> s \in Queued, s \in InBatch' <=> s \in InBatch,
           client'[s] = client[s], task'[s] = task[s], mail'[s] = mail[s]
    PROVE  Placed(s)'
BY EachIsPlaced DEF Placed

LEMMA NextPlacesOK ==
    ASSUME SchedulerInv, Next
    PROVE  PlacesOK'
<1>1. StateTypes
  BY DEF SchedulerInv
<1>2. SUFFICES ASSUME NEW s \in Requests PROVE Placed(s)'
  BY NextBatchOK, PlacesFromPlaced
<1>3. Placed(s)
  BY EachIsPlaced
<1>4. ASSUME Queued' = Queued, InBatch' = InBatch, UNCHANGED reqVars PROVE Placed(s)'
  BY <1>3, <1>4 DEF Placed, reqVars
<1>5. CASE Control
  BY <1>4, <1>5, ControlKeeps
<1>6. CASE PopPass
  BY <1>4, <1>6, PassKeeps DEF PopPass, InBatch
<1>7. CASE PopFirst \/ PopNext
  <2>1. /\ Queued' = Queued \ {FrontItem(q)} /\ UNCHANGED reqVars
        /\ FrontItem(q) \in Queued /\ FrontItem(q) \notin InBatch
    BY <1>7, ServeTakes, FrontIsQueued DEF PopFirst, PopNext
  <2>2. InBatch' = InBatch \cup {FrontItem(q)}
    <3>1. CASE PopFirst
      BY <3>1 DEF PopFirst, InBatch, Range
    <3>2. CASE PopNext
      <4>1. FrontItem(q) \in Requests /\ batch \in Seq(Requests)
        BY <3>2, FrontIsQueued DEF PopNext, SchedulerInv, BatchOK
      <4> QED
        BY <3>2, <4>1, RangeAppend DEF PopNext, InBatch
    <3> QED
      BY <1>7, <3>1, <3>2
  <2> QED
    BY <1>3, <2>1, <2>2 DEF Placed, reqVars
<1>8. CASE SkipClosed
  <2> DEFINE r == Head(batch)
  <2>1. /\ r \in Requests /\ r \notin Queued /\ task[r] = "none" /\ mail[r] = "none"
        /\ Range(Tail(batch)) = InBatch \ {r}
    BY <1>8, HeadIsBatched DEF SkipClosed
  <2>2. /\ Queued' = Queued /\ InBatch' = InBatch \ {r} /\ task' = task /\ mail' = mail
        /\ client' = [client EXCEPT ![r] = "idle"]
    BY <1>8, <2>1 DEF SkipClosed, queueVars, Queued, InBatch
  <2>3. CASE s = r
    BY <1>1, <2>1, <2>2, <2>3 DEF Placed, StateTypes
  <2>4. CASE s # r
    BY <1>1, <2>1, <2>2, <2>4, OthersStayPlaced DEF StateTypes
  <2> QED
    BY <2>3, <2>4
<1>9. CASE Spawn
  <2> DEFINE r == Head(batch)
  <2>1. /\ r \in Requests /\ r \notin Queued /\ r \in InBatch
        /\ Range(Tail(batch)) = InBatch \ {r}
    BY <1>9, HeadIsBatched DEF Spawn
  <2>2. /\ Queued' = Queued /\ InBatch' = InBatch \ {r} /\ client' = client /\ mail' = mail
        /\ task' = [task EXCEPT ![r] = "sending"]
    BY <1>9, <2>1 DEF Spawn, queueVars, Queued, InBatch
  <2>3. CASE s = r
    BY <1>1, <1>3, <2>1, <2>2, <2>3 DEF Placed, StateTypes
  <2>4. CASE s # r
    BY <1>1, <2>1, <2>2, <2>4, OthersStayPlaced DEF StateTypes
  <2> QED
    BY <2>3, <2>4
<1>10. ASSUME NEW r \in Requests, Submit(r) PROVE Placed(s)'
  <2>1. /\ Queued' = Queued \cup {r} /\ InBatch' = InBatch /\ task' = task /\ mail' = mail
        /\ client[r] = "idle" /\ client' = [client EXCEPT ![r] = "pushed"]
    BY <1>10, SubmitAdds DEF Submit, runVars, InBatch
  <2>2. CASE s = r
    BY <1>1, <1>3, <2>1, <2>2 DEF Placed, StateTypes
  <2>3. CASE s # r
    BY <1>1, <2>1, <2>3, OthersStayPlaced DEF StateTypes
  <2> QED
    BY <2>2, <2>3
<1>11. ASSUME NEW r \in Requests, Aside(r) PROVE Placed(s)'
  <2>1. Queued' = Queued /\ InBatch' = InBatch
    BY <1>11, AsideKeeps
  <2>2. CASE s = r
    <3>1. CASE SubmitFull(r)
      BY <1>1, <1>3, <2>1, <2>2, <3>1 DEF SubmitFull, Placed, StateTypes
    <3>2. CASE HangupWaiting(r)
      <4>1. CASE mail[r] # "none"
        BY <1>1, <1>3, <2>1, <2>2, <3>2, <4>1 DEF HangupWaiting, Placed, StateTypes
      <4>2. CASE mail[r] = "none"
        BY <1>1, <1>3, <2>1, <2>2, <3>2, <4>2 DEF HangupWaiting, Placed, StateTypes
      <4> QED
        BY <4>1, <4>2
    <3>3. CASE Notify(r)
      BY <1>1, <1>3, <2>1, <2>2, <3>3 DEF Notify, Placed, StateTypes
    <3>4. CASE ReceiveOk(r) \/ ReceiveErr(r)
      BY <1>1, <1>3, <2>1, <2>2, <3>4 DEF ReceiveOk, ReceiveErr, Placed, StateTypes
    <3>5. CASE AnswerFull(r)
      BY <1>1, <1>3, <2>1, <2>2, <3>5 DEF AnswerFull, Placed, StateTypes
    <3>6. CASE Finish(r)
      BY <1>1, <1>3, <2>1, <2>2, <3>6 DEF Finish, Placed, StateTypes
    <3>7. CASE ReplyOk(r)
      BY <1>1, <1>3, <2>1, <2>2, <3>7
      DEF ReplyOk, IsClosed, Placed, StateTypes, HandlerStates
    <3>8. CASE ReplyDropped(r)
      BY <1>1, <1>3, <2>1, <2>2, <3>8 DEF ReplyDropped, IsClosed, Placed, StateTypes
    <3>9. CASE SendFail(r)
      BY <1>1, <1>3, <2>1, <2>2, <3>9 DEF SendFail, Placed, StateTypes
    <3>10. CASE ReplyErr(r)
      BY <1>1, <1>3, <2>1, <2>2, <3>10
      DEF ReplyErr, IsClosed, Placed, StateTypes, HandlerStates
    <3> QED
      BY <1>11, <3>1, <3>2, <3>3, <3>4, <3>5, <3>6, <3>7, <3>8, <3>9, <3>10
      DEF Aside, Handler, Dispatch
  <2>3. CASE s # r
    <3>1. client'[s] = client[s] /\ task'[s] = task[s] /\ mail'[s] = mail[s]
      BY <1>1, <1>11, <2>3
      DEF StateTypes, Aside, Handler, Dispatch, SubmitFull, HangupWaiting, Notify, ReceiveOk,
          ReceiveErr, AnswerFull, Finish, ReplyOk, ReplyDropped, SendFail, ReplyErr
    <3> QED
      BY <2>1, <2>3, <3>1, OthersStayPlaced
  <2> QED
    BY <2>2, <2>3
<1> QED
  BY <1>5, <1>6, <1>7, <1>8, <1>9, <1>10, <1>11, StepsByEffect

------------------------------------------------------------------------------
(* Every step accounts for the slots.                                       *)

LEMMA AtBackendIs ==
    ASSUME NEW r \in Requests
    PROVE  r \in AtBackend <=> task[r] = "sending" \/ mail[r] = "ok" \/ client[r] = "holding"
BY DEF AtBackend

\* A step that neither takes nor frees a slot.
LEMMA SlotsUntouched ==
    ASSUME SchedulerInv, UNCHANGED slotVars, cfg' = cfg, AtBackend' = AtBackend,
           InBatch \subseteq InBatch',
           (batch' = << >> /\ pc' \notin {"slot", "check", "spawn"})
              <=> (batch = << >> /\ pc \notin {"slot", "check", "spawn"})
    PROVE  SlotsOK'
BY DEF SchedulerInv, SlotsOK, SlotsHaveOwners, SlotConservation, Limited, slotVars

\* The arithmetic of a slot freed, and of a slot taken.
LEMMA ReleaseConserves ==
    ASSUME SchedulerInv, NEW r, r \in held, Release(r), cfg' = cfg
    PROVE  SlotConservation'
<1>1. IsFiniteSet(held) /\ Cardinality(held) \in Nat /\ permits \in Nat
  BY HeldIsFinite DEF SchedulerInv, StateTypes
<1>2. held' = held \ {r} /\ Cardinality(held') = Cardinality(held) - 1
  BY <1>1, FS_RemoveElement DEF Release
<1> QED
  BY <1>1, <1>2 DEF Release, SchedulerInv, SlotsOK, SlotConservation, Limited

LEMMA AcquireConserves ==
    ASSUME SchedulerInv, NEW r, r \notin held, Acquire(r), cfg' = cfg
    PROVE  SlotConservation'
<1>1. IsFiniteSet(held) /\ Cardinality(held) \in Nat /\ permits \in Nat
  BY HeldIsFinite DEF SchedulerInv, StateTypes
<1>2. held' = held \cup {r} /\ Cardinality(held') = Cardinality(held) + 1
  BY <1>1, FS_AddElement DEF Acquire
<1> QED
  BY <1>1, <1>2 DEF Acquire, SchedulerInv, SlotsOK, SlotConservation, Limited

\* A request leaves the backend and its slot is freed.
LEMMA SlotFreed ==
    ASSUME SchedulerInv, NEW r \in Requests, r \in AtBackend, r \notin InBatch, Release(r),
           AtBackend' = AtBackend \ {r}, InBatch' = InBatch, batch' = batch, pc' = pc, cfg' = cfg
    PROVE  SlotsOK'
<1>1. r \in held /\ r # scheduler
  BY SchedulerAssumption DEF SchedulerInv, SlotsOK
<1>2. held' = held \ {r} /\ SlotConservation'
  BY <1>1, ReleaseConserves DEF Release
<1> QED
  BY <1>1, <1>2 DEF SchedulerInv, SlotsOK, SlotsHaveOwners

LEMMA NextSlotsOK ==
    ASSUME SchedulerInv, Next
    PROVE  SlotsOK'
<1>1. StateTypes /\ BatchOK
  BY DEF SchedulerInv
<1>2. ASSUME client' = client, task' = task, mail' = mail PROVE AtBackend' = AtBackend
  BY <1>2 DEF AtBackend
<1>3. CASE Control
  <2>1. batch' = batch /\ InBatch' = InBatch /\ AtBackend' = AtBackend /\ cfg' = cfg
    BY <1>2, <1>3, ControlKeeps DEF reqVars
  <2>2. CASE AcquireFirst
    <3>1. scheduler \notin held /\ batch = << >>
      BY <1>1, <2>2 DEF AcquireFirst, BatchOK, SchedulerInv, SlotsOK, SlotsHaveOwners
    <3>2. SlotConservation'
      BY <2>1, <2>2, <3>1, AcquireConserves DEF AcquireFirst
    <3>3. held' = held \cup {scheduler} /\ pc' = "pop"
      BY <2>2 DEF AcquireFirst, Acquire
    <3> QED
      BY <2>1, <3>1, <3>2, <3>3 DEF SchedulerInv, SlotsOK, SlotsHaveOwners
  <2>3. CASE ~AcquireFirst
    <3>1. UNCHANGED slotVars
      BY <1>3, <2>3 DEF Control, PopEmpty, TakePermit, Park, Wake, Timeout, WindowOpen,
                        WindowShut, KeepOpen, Deadline
    <3>2. \/ pc \notin {"slot", "check", "spawn"} /\ pc' \notin {"slot", "check", "spawn"}
          \/ batch # << >>
          \/ pc' = pc
      BY <1>1, <1>3, <2>3
      DEF BatchOK, Control, PopEmpty, Popping, TakePermit, Park, Wake, Timeout, WindowOpen,
          WindowShut, KeepOpen, Deadline, Collecting
    <3> QED
      BY <2>1, <3>1, <3>2, SlotsUntouched
  <2> QED
    BY <2>2, <2>3
<1>4. CASE PopPass
  <2>1. UNCHANGED slotVars /\ cfg' = cfg /\ AtBackend' = AtBackend /\ InBatch' = InBatch
    BY <1>2, <1>4 DEF PopPass, reqVars, InBatch
  <2> QED
    BY <1>4, <2>1, SlotsUntouched DEF PopPass, Popping
<1>5. CASE PopFirst
  <2> DEFINE r == FrontItem(q)
  <2>1. r \in Requests /\ r \notin held /\ r # scheduler
    BY <1>5, FrontIsQueued, SchedulerAssumption DEF PopFirst
  <2>2. batch = << >> /\ scheduler \in held
    BY <1>5 DEF PopFirst, Popping, SchedulerInv, SlotsOK, SlotsHaveOwners
  <2>3. /\ held' = (held \ {scheduler}) \cup {r} /\ permits' = permits /\ cfg' = cfg
        /\ AtBackend' = AtBackend /\ batch' = <<r>> /\ InBatch' = {r}
    BY <1>2, <1>5 DEF PopFirst, reqVars, InBatch, Range
  <2>4. Cardinality(held') = Cardinality(held)
    <3>1. IsFiniteSet(held) /\ Cardinality(held) \in Nat
      BY <1>1, HeldIsFinite
    <3>2. /\ IsFiniteSet(held \ {scheduler})
          /\ Cardinality(held \ {scheduler}) = Cardinality(held) - 1
      BY <2>2, <3>1, FS_RemoveElement
    <3>3. Cardinality(held') = Cardinality(held \ {scheduler}) + 1
      BY <2>1, <2>3, <3>2, FS_AddElement
    <3> QED
      BY <3>1, <3>2, <3>3
  <2>5. SlotConservation'
    BY <2>3, <2>4 DEF SchedulerInv, SlotsOK, SlotConservation, Limited
  <2>6. InBatch = {} /\ scheduler \notin AtBackend
    BY <2>2, SchedulerAssumption DEF InBatch, Range, AtBackend
  <2>7. held' \ {scheduler} \subseteq InBatch' \cup AtBackend' /\ AtBackend' \subseteq held'
    BY <2>3, <2>6 DEF SchedulerInv, SlotsOK, SlotsHaveOwners
  <2>8. scheduler \notin held' /\ batch' # << >>
    BY <2>1, <2>3
  <2> QED
    BY <2>5, <2>7, <2>8 DEF SlotsOK, SlotsHaveOwners
<1>6. CASE PopNext
  <2>1. /\ UNCHANGED slotVars /\ cfg' = cfg /\ AtBackend' = AtBackend
        /\ batch # << >> /\ batch' = Append(batch, FrontItem(q)) /\ FrontItem(q) \in Requests
    BY <1>2, <1>6, FrontIsQueued DEF PopNext, reqVars
  <2>2. InBatch \subseteq InBatch' /\ batch' # << >>
    BY <1>1, <2>1, RangeAppend DEF BatchOK, InBatch
  <2> QED
    BY <2>1, <2>2, SlotsUntouched
<1>7. CASE SkipClosed
  <2> DEFINE r == Head(batch)
  <2>1. /\ r \in Requests /\ r \in InBatch /\ r \notin AtBackend /\ r # scheduler
        /\ Range(Tail(batch)) = InBatch \ {r} /\ Rest \in {"slot", "check"}
    BY <1>7, HeadIsBatched, SchedulerAssumption DEF SkipClosed
  <2>2. /\ InBatch' = InBatch \ {r} /\ task' = task /\ mail' = mail /\ pc' = Rest /\ cfg' = cfg
        /\ client' = [client EXCEPT ![r] = "idle"] /\ DropSlot(r) /\ pc = "check"
    BY <1>7, <2>1 DEF SkipClosed, InBatch
  <2>3. AtBackend' = AtBackend
    BY <1>1, <2>1, <2>2 DEF AtBackend, StateTypes
  <2>4. held' = held \ {r} /\ SlotConservation'
    <3>1. CASE r \in held
      BY <2>2, <3>1, ReleaseConserves DEF DropSlot, Release
    <3>2. CASE r \notin held
      BY <2>2, <3>2 DEF DropSlot, slotVars, SchedulerInv, SlotsOK, SlotConservation, Limited
    <3> QED
      BY <3>1, <3>2
  <2> QED
    BY <2>1, <2>2, <2>3, <2>4 DEF SchedulerInv, SlotsOK, SlotsHaveOwners
<1>8. CASE Spawn
  <2> DEFINE r == Head(batch)
  <2>1. /\ r \in Requests /\ r \in InBatch /\ r # scheduler
        /\ Range(Tail(batch)) = InBatch \ {r} /\ Rest \in {"slot", "check"}
    BY <1>8, HeadIsBatched, SchedulerAssumption DEF Spawn
  <2>2. /\ InBatch' = InBatch \ {r} /\ client' = client /\ mail' = mail /\ pc' = Rest
        /\ task' = [task EXCEPT ![r] = "sending"] /\ pc = "spawn" /\ cfg' = cfg
    BY <1>8, <2>1 DEF Spawn, InBatch
  <2>3. AtBackend' = AtBackend \cup {r}
    BY <1>1, <2>1, <2>2 DEF AtBackend, StateTypes
  <2>4. held' = held \cup {r} /\ SlotConservation'
    <3>1. CASE r \in held
      BY <1>8, <2>2, <3>1 DEF Spawn, slotVars, SchedulerInv, SlotsOK, SlotConservation, Limited
    <3>2. CASE r \notin held
      BY <1>8, <2>2, <3>2, AcquireConserves DEF Spawn, Acquire
    <3> QED
      BY <3>1, <3>2
  <2> QED
    BY <2>1, <2>2, <2>3, <2>4 DEF SchedulerInv, SlotsOK, SlotsHaveOwners
<1>9. ASSUME NEW r \in Requests, Submit(r) PROVE SlotsOK'
  <2>1. AtBackend' = AtBackend
    BY <1>1, <1>9 DEF Submit, AtBackend, StateTypes
  <2>2. InBatch' = InBatch
    BY <1>9 DEF Submit, runVars, InBatch
  <2> QED
    BY <1>9, <2>1, <2>2, SlotsUntouched DEF Submit, runVars
<1>10. ASSUME NEW r \in Requests, Aside(r) PROVE SlotsOK'
  <2>1. batch' = batch /\ pc' = pc /\ InBatch' = InBatch /\ cfg' = cfg
    BY <1>10, AsideKeeps
  <2>2. Placed(r)
    BY EachIsPlaced
  <2>3. ASSUME UNCHANGED slotVars, AtBackend' = AtBackend PROVE SlotsOK'
    BY <2>1, <2>3, SlotsUntouched
  <2>4. ASSUME Release(r), r \in AtBackend, r \notin InBatch, AtBackend' = AtBackend \ {r}
        PROVE  SlotsOK'
    BY <2>1, <2>4, SlotFreed
  <2>5. CASE SubmitFull(r) \/ Notify(r) \/ ReceiveErr(r) \/ AnswerFull(r) \/ ReplyErr(r)
    <3>1. AtBackend' = AtBackend
      <4>1. CASE ReplyErr(r)
        <5>1. mail[r] = "none" /\ client[r] # "holding"
          BY <1>1, <2>2, <4>1 DEF ReplyErr, Placed, StateTypes, HandlerStates
        <5> QED
          BY <1>1, <4>1, <5>1 DEF ReplyErr, AtBackend, StateTypes
      <4>2. CASE SubmitFull(r) \/ AnswerFull(r)
        BY <1>1, <4>2 DEF SubmitFull, AnswerFull, AtBackend, StateTypes
      <4>3. CASE Notify(r) \/ ReceiveErr(r)
        BY <1>1, <4>3 DEF Notify, ReceiveErr, AtBackend, StateTypes
      <4> QED
        BY <2>5, <4>1, <4>2, <4>3
    <3> QED
      BY <2>3, <2>5, <3>1 DEF SubmitFull, Notify, ReceiveErr, AnswerFull, ReplyErr
  <2>6. CASE ReceiveOk(r) \/ ReplyOk(r)
    <3>1. AtBackend' = AtBackend
      BY <1>1, <2>2, <2>6 DEF ReceiveOk, ReplyOk, AtBackend, StateTypes
    <3> QED
      BY <2>3, <2>6, <3>1 DEF ReceiveOk, ReplyOk
  <2>7. CASE Finish(r)
    <3>1. r \in AtBackend /\ r \notin InBatch /\ AtBackend' = AtBackend \ {r}
      BY <1>1, <2>2, <2>7 DEF Finish, AtBackend, StateTypes, Placed
    <3> QED
      BY <2>4, <2>7, <3>1 DEF Finish
  <2>8. CASE HangupWaiting(r)
    <3>1. CASE mail[r] = "ok"
      <4>1. r \in AtBackend /\ r \notin InBatch /\ AtBackend' = AtBackend \ {r}
        BY <1>1, <2>2, <2>8, <3>1 DEF HangupWaiting, AtBackend, StateTypes, Placed
      <4> QED
        BY <2>4, <2>8, <3>1, <4>1 DEF HangupWaiting
    <3>2. CASE mail[r] # "ok"
      <4>1. AtBackend' = AtBackend
        BY <1>1, <2>8, <3>2 DEF HangupWaiting, AtBackend, StateTypes
      <4> QED
        BY <2>3, <2>8, <3>2, <4>1 DEF HangupWaiting
    <3> QED
      BY <3>1, <3>2
  <2>9. CASE ReplyDropped(r)
    <3>1. r \in AtBackend /\ r \notin InBatch /\ AtBackend' = AtBackend \ {r}
      BY <1>1, <2>2, <2>9 DEF ReplyDropped, IsClosed, AtBackend, StateTypes, Placed
    <3> QED
      BY <2>4, <2>9, <3>1 DEF ReplyDropped
  <2>10. CASE SendFail(r)
    <3>1. r \in AtBackend /\ r \notin InBatch /\ AtBackend' = AtBackend \ {r}
      BY <1>1, <2>2, <2>10 DEF SendFail, AtBackend, StateTypes, Placed, HandlerStates
    <3> QED
      BY <2>4, <2>10, <3>1 DEF SendFail
  <2> QED
    BY <1>10, <2>5, <2>6, <2>7, <2>8, <2>9, <2>10 DEF Aside, Handler, Dispatch
<1> QED
  BY <1>3, <1>4, <1>5, <1>6, <1>7, <1>8, <1>9, <1>10, StepsByEffect

------------------------------------------------------------------------------
(* What follows from the invariant.                                         *)

LEMMA NextSchedulerInv == SchedulerInv /\ [Next]_vars => SchedulerInv'
<1>1. ASSUME SchedulerInv, Next PROVE SchedulerInv'
  BY <1>1, NextStateTypes, NextQueueOK, NextBatchOK, NextPlacesOK, NextSlotsOK DEF SchedulerInv
<1>2. ASSUME SchedulerInv, UNCHANGED vars PROVE SchedulerInv'
  <2>1. /\ UNCHANGED <<cfg, q, notified, woken, pc, expired, batch>>
        /\ UNCHANGED <<permits, held, client, task, mail>>
    BY <1>2 DEF vars, queueVars, runVars, slotVars, reqVars
  <2>2. StateTypes'
    BY <1>2, <2>1 DEF SchedulerInv, StateTypes
  <2>3. QueueOK' /\ BatchOK'
    BY <1>2, <2>1 DEF SchedulerInv, QueueOK, BatchOK
  <2>4. Queued' = Queued /\ InBatch' = InBatch /\ AtBackend' = AtBackend
    BY <2>1 DEF Queued, InBatch, AtBackend
  <2>5. \A r \in Requests : Placed(r)'
    BY <1>2, <2>1, <2>4, EachIsPlaced DEF Placed
  <2>6. PlacesOK'
    BY <2>3, <2>5, PlacesFromPlaced
  <2>7. SlotsOK'
    BY <1>2, <2>1, <2>4, SlotsUntouched DEF slotVars
  <2> QED
    BY <2>2, <2>3, <2>6, <2>7 DEF SchedulerInv
<1> QED
  BY <1>1, <1>2

LEMMA SchedulerInvHolds == Spec => []SchedulerInv
BY InitSchedulerInv, NextSchedulerInv, PTL DEF Spec

\* The types of the scheduler's state.
THEOREM TypeCorrect == Spec => []TypeOK
<1>1. ASSUME SchedulerInv PROVE TypeOK
  <2>1. IsQueue(q, Keys, Requests)
    BY <1>1, GoodIsQueue DEF SchedulerInv, QueueOK
  <2> QED
    BY <1>1, <2>1 DEF SchedulerInv, StateTypes, BatchOK, TypeOK
<1> QED
  BY <1>1, SchedulerInvHolds, PTL

\* No permit is lost or freed twice on any path: reply, error, skip, hang-up.
THEOREM SlotsAreConserved == Spec => []SlotConservation
<1>1. SchedulerInv => SlotConservation
  BY DEF SchedulerInv, SlotsOK
<1> QED
  BY <1>1, SchedulerInvHolds, PTL

\* Every slot in use belongs to the scheduler looking for a request, to a
\* request of the batch, or to one the backend works on.
THEOREM SlotsAreOwned == Spec => []SlotsHaveOwners
<1>1. SchedulerInv => SlotsHaveOwners
  BY DEF SchedulerInv, SlotsOK
<1> QED
  BY <1>1, SchedulerInvHolds, PTL

\* The backend never has more than max_inflight requests, each with a slot.
THEOREM LimiterIsKept == Spec => []LimiterHolds
<1>1. ASSUME SchedulerInv PROVE LimiterHolds
  <2>1. AtBackend \subseteq held /\ SlotConservation /\ StateTypes
    BY <1>1 DEF SchedulerInv, SlotsOK
  <2>2. /\ Cardinality(AtBackend) \in Nat /\ Cardinality(held) \in Nat
        /\ Cardinality(AtBackend) =< Cardinality(held)
    BY <2>1, HeldIsFinite, FS_Subset, FS_CardinalityType
  <2>3. cfg.maxInflight \in Nat /\ permits \in Nat
    BY <2>1, ConfigTypes DEF StateTypes
  <2> QED
    BY <2>1, <2>2, <2>3 DEF LimiterHolds, SlotConservation, Limited
<1> QED
  BY <1>1, SchedulerInvHolds, PTL

\* Until its answer is in the channel a request has exactly one sender for it,
\* so no handler waits on nobody.
THEOREM EachHasOneSender == Spec => []OneSenderEach
<1>1. ASSUME SchedulerInv PROVE OneSenderEach
  <2>1. PlacesOK
    BY <1>1 DEF SchedulerInv
  <2>2. ASSUME NEW r \in Requests, client[r] \in {"pushed", "waiting", "left", "gone"}
        PROVE  r \in Queued \cup InBatch \cup Dispatching <=> mail[r] = "none"
    BY <2>1, <2>2 DEF PlacesOK, HasSender
  <2> QED
    BY <2>1, <2>2 DEF PlacesOK, OneSenderEach
<1> QED
  BY <1>1, SchedulerInvHolds, PTL

------------------------------------------------------------------------------
(* Wakeups.                                                                 *)

LEMMA InitNoLostWakeup == Init => NoLostWakeup
BY DEF Init, NoLostWakeup

LEMMA EmptyRotation ==
    ASSUME SchedulerInv, q.active = << >>
    PROVE  q.len = 0
<1>1. Dom(q) = {}
  BY DEF SchedulerInv, QueueOK, GoodQueue, Rotating, Act, Range
<1>2. QueuedItems(q) = {}
  BY <1>1, QueuedIsUnion
<1> QED
  BY <1>2, GoodIsQueue, FS_EmptySet DEF SchedulerInv, QueueOK

LEMMA NextNoLostWakeup ==
    ASSUME SchedulerInv, NoLostWakeup, [Next]_vars
    PROVE  NoLostWakeup'
<1>1. CASE UNCHANGED vars
  BY <1>1 DEF NoLostWakeup, vars, queueVars, runVars, reqVars
<1>2. CASE Control
  <2>1. q' = q /\ client' = client
    BY <1>2, ControlKeeps DEF reqVars
  <2>2. CASE PopEmpty
    BY <2>1, <2>2, EmptyRotation DEF PopEmpty, NoLostWakeup
  <2>3. CASE Park
    BY <2>1, <2>3 DEF Park, queueVars, NoLostWakeup
  <2>4. CASE Deadline
    BY <2>1, <2>4 DEF Deadline, queueVars, NoLostWakeup
  <2>5. CASE AcquireFirst \/ TakePermit \/ Wake \/ Timeout \/ WindowOpen \/ WindowShut \/ KeepOpen
    <3>1. pc' \notin {"wait", "parked"}
      BY <2>5 DEF AcquireFirst, TakePermit, Wake, Timeout, WindowOpen, WindowShut, KeepOpen
    <3> QED
      BY <3>1 DEF NoLostWakeup
  <2> QED
    BY <1>2, <2>2, <2>3, <2>4, <2>5 DEF Control
<1>3. CASE PopPass \/ PopFirst \/ PopNext
  <2>1. pc' \notin {"wait", "parked"}
    BY <1>3 DEF PopPass, PopFirst, PopNext
  <2> QED
    BY <2>1 DEF NoLostWakeup
<1>4. CASE SkipClosed \/ Spawn
  <2>1. pc' = Rest /\ Rest \in {"slot", "check"}
    BY <1>4, HeadIsBatched DEF SkipClosed, Spawn
  <2> QED
    BY <2>1 DEF NoLostWakeup
<1>5. ASSUME NEW r \in Requests, Submit(r) PROVE NoLostWakeup'
  <2>1. client'[r] = "pushed"
    BY <1>5 DEF Submit, SchedulerInv, StateTypes
  <2> QED
    BY <2>1 DEF NoLostWakeup
<1>6. ASSUME NEW r \in Requests, Notify(r) PROVE NoLostWakeup'
  BY <1>6 DEF Notify, NotifyOne, NoLostWakeup
<1>7. ASSUME NEW r \in Requests, Aside(r), ~Notify(r) PROVE NoLostWakeup'
  <2>1. q' = q /\ pc' = pc
    BY <1>7, AsideKeeps
  <2>2. notified' = notified /\ woken' = woken
    BY <1>7 DEF Aside, Handler, Dispatch, SubmitFull, HangupWaiting, ReceiveOk, ReceiveErr,
                AnswerFull, Finish, ReplyOk, ReplyDropped, SendFail, ReplyErr, queueVars
  <2>3. ASSUME NEW s \in Requests, client[s] = "pushed" PROVE client'[s] = "pushed"
    BY <1>7, <2>3
    DEF Aside, Handler, Dispatch, SubmitFull, HangupWaiting, ReceiveOk, ReceiveErr, AnswerFull,
        Finish, ReplyOk, ReplyDropped, SendFail, ReplyErr, IsClosed, SchedulerInv, StateTypes
  <2> QED
    BY <2>1, <2>2, <2>3 DEF NoLostWakeup
<1> QED
  BY <1>1, <1>2, <1>3, <1>4, <1>5, <1>6, <1>7, StepsByEffect

\* While requests wait, a scheduler about to sleep or asleep has a wakeup, or
\* one is on its way.
THEOREM NoWakeupIsLost == Spec => []NoLostWakeup
<1>1. SchedulerInv /\ NoLostWakeup /\ [Next]_vars => NoLostWakeup'
  BY NextNoLostWakeup
<1> QED
  BY <1>1, InitNoLostWakeup, SchedulerInvHolds, PTL DEF Spec

------------------------------------------------------------------------------
(* Without a batching window a request has its slot before it leaves the    *)
(* queue; with one it may not, as run abandoned shows.                      *)

SlotFirst ==
    /\ pc \in {"slot", "pop", "passing", "wait", "parked"} => batch = << >>
    /\ pc # "window"
    /\ InBatch \subseteq held
    /\ \A r \in Requests :
          client[r] = "left" => task[r] = "none" /\ (pc = "spawn" => r # Head(batch))

LEMMA InitSlotFirst == Init => SlotFirst
BY DEF Init, SlotFirst, InBatch, Range

LEMMA NextSlotFirst ==
    ASSUME SchedulerInv, SchedulerInv', SlotFirst, ~cfg.window, [Next]_vars
    PROVE  SlotFirst' /\ ~cfg'.window
<1>1. StateTypes /\ BatchOK /\ BatchOK'
  BY DEF SchedulerInv
<1>2. CASE UNCHANGED vars
  BY <1>2 DEF SlotFirst, InBatch, vars, runVars, slotVars, reqVars
<1>3. CASE Control
  <2>1. batch' = batch /\ UNCHANGED reqVars /\ InBatch' = InBatch /\ cfg' = cfg
    BY <1>3, ControlKeeps
  <2>2. held \subseteq held'
    BY <1>3 DEF Control, AcquireFirst, Acquire, PopEmpty, TakePermit, Park, Wake, Timeout,
                WindowOpen, WindowShut, KeepOpen, Deadline, slotVars
  <2>3. /\ pc' \in {"slot", "pop", "passing", "wait", "parked"} => batch = << >>
        /\ pc' # "window"
    BY <1>1, <1>3
    DEF SlotFirst, BatchOK, Control, AcquireFirst, PopEmpty, Popping, TakePermit, Park, Wake,
        Timeout, WindowOpen, WindowShut, KeepOpen, Deadline
  <2>4. ASSUME NEW r \in Requests, client[r] = "left", pc' = "spawn" PROVE r # Head(batch)
    BY <1>3, <2>4
    DEF SlotFirst, Control, AcquireFirst, PopEmpty, TakePermit, Park, Wake, Timeout,
        WindowOpen, WindowShut, KeepOpen, IsClosed, Deadline
  <2> QED
    BY <2>1, <2>2, <2>3, <2>4 DEF SlotFirst, reqVars
<1>4. CASE PopPass
  BY <1>4 DEF PopPass, Popping, SlotFirst, InBatch, slotVars, reqVars
<1>5. CASE PopFirst
  <2>1. /\ batch' = <<FrontItem(q)>> /\ InBatch' = {FrontItem(q)} /\ FrontItem(q) \in held'
        /\ pc' = "check" /\ UNCHANGED <<client, task, cfg>>
    BY <1>5 DEF PopFirst, InBatch, Range, reqVars
  <2> QED
    BY <2>1 DEF SlotFirst
<1>6. CASE PopNext
  BY <1>6 DEF PopNext, Popping, SlotFirst
<1>7. CASE SkipClosed
  <2> DEFINE r == Head(batch)
  <2>1. /\ r \in Requests /\ Range(Tail(batch)) = InBatch \ {r} /\ Rest \in {"slot", "check"}
    BY <1>7, HeadIsBatched DEF SkipClosed
  <2>2. /\ batch' = Tail(batch) /\ task' = task /\ pc' = Rest /\ cfg' = cfg
        /\ client' = [client EXCEPT ![r] = "idle"] /\ InBatch' = InBatch \ {r}
        /\ held \ {r} \subseteq held'
    BY <1>7, <2>1 DEF SkipClosed, InBatch, DropSlot, Release, slotVars
  <2> QED
    BY <1>1, <2>1, <2>2 DEF SlotFirst, BatchOK, StateTypes
<1>8. CASE Spawn
  <2> DEFINE r == Head(batch)
  <2>1. /\ r \in Requests /\ Range(Tail(batch)) = InBatch \ {r} /\ Rest \in {"slot", "check"}
        /\ pc = "spawn"
    BY <1>8, HeadIsBatched DEF Spawn
  <2>2. /\ batch' = Tail(batch) /\ client' = client /\ pc' = Rest /\ cfg' = cfg
        /\ task' = [task EXCEPT ![r] = "sending"] /\ InBatch' = InBatch \ {r}
        /\ held \subseteq held'
    BY <1>8, <2>1 DEF Spawn, InBatch, Acquire, slotVars
  <2> QED
    BY <1>1, <2>1, <2>2 DEF SlotFirst, BatchOK, StateTypes
<1>9. ASSUME NEW r \in Requests, Submit(r) PROVE SlotFirst' /\ ~cfg'.window
  <2>1. /\ UNCHANGED <<batch, pc, held, task, cfg>> /\ InBatch' = InBatch
        /\ client' = [client EXCEPT ![r] = "pushed"]
    BY <1>9 DEF Submit, runVars, slotVars, InBatch
  <2> QED
    BY <1>1, <2>1 DEF SlotFirst, StateTypes
<1>10. ASSUME NEW r \in Requests, Aside(r) PROVE SlotFirst' /\ ~cfg'.window
  <2>1. batch' = batch /\ pc' = pc /\ InBatch' = InBatch /\ cfg' = cfg
    BY <1>10, AsideKeeps
  <2>2. Placed(r)
    BY EachIsPlaced
  <2>3. held \ {r} \subseteq held'
    BY <1>10 DEF Aside, Handler, Dispatch, SubmitFull, HangupWaiting, Notify, ReceiveOk,
                 ReceiveErr, AnswerFull, Finish, ReplyOk, ReplyDropped, SendFail, ReplyErr,
                 Release, slotVars
  <2>4. r \in InBatch => r \in held'
    <3>1. ASSUME r \in InBatch PROVE task[r] = "none" /\ mail[r] # "ok" /\ client[r] # "holding"
      BY <1>1, <2>2, <3>1 DEF Placed, StateTypes, HandlerStates
    <3>2. ASSUME r \in InBatch PROVE UNCHANGED slotVars
      BY <1>10, <3>1, <3>2
      DEF Aside, Handler, Dispatch, SubmitFull, HangupWaiting, Notify, ReceiveOk, ReceiveErr,
          AnswerFull, Finish, ReplyOk, ReplyDropped, SendFail, ReplyErr
    <3> QED
      BY <3>2 DEF SlotFirst, slotVars
  <2>5. ASSUME NEW s \in Requests, client'[s] = "left"
        PROVE  task'[s] = "none" /\ (pc' = "spawn" => s # Head(batch'))
    <3>1. CASE s = r /\ HangupWaiting(r) /\ client[r] # "left"
      <4>1. r \notin held /\ task[r] # "failed" /\ task' = task
        BY <1>1, <2>5, <3>1 DEF HangupWaiting, StateTypes
      <4>2. task[r] # "sending"
        BY <4>1 DEF SchedulerInv, SlotsOK, AtBackend
      <4>3. pc = "spawn" => Head(batch) \in held
        BY HeadIsBatched DEF SlotFirst
      <4> QED
        BY <1>1, <2>1, <3>1, <4>1, <4>2, <4>3 DEF StateTypes
    <3>2. CASE client[s] = "left"
      <4>1. task[s] = "none" /\ (pc = "spawn" => s # Head(batch))
        BY <3>2 DEF SlotFirst
      <4>2. task'[s] = "none"
        BY <1>1, <1>10, <4>1
        DEF StateTypes, Aside, Handler, Dispatch, SubmitFull, HangupWaiting, Notify, ReceiveOk,
            ReceiveErr, AnswerFull, Finish, ReplyOk, ReplyDropped, SendFail, ReplyErr
      <4> QED
        BY <2>1, <4>1, <4>2
    <3>3. client[s] = "left" \/ (s = r /\ HangupWaiting(r))
      BY <1>1, <1>10, <2>5
      DEF StateTypes, Aside, Handler, Dispatch, SubmitFull, HangupWaiting, Notify, ReceiveOk,
          ReceiveErr, AnswerFull, Finish, ReplyOk, ReplyDropped, SendFail, ReplyErr
    <3> QED
      BY <3>1, <3>2, <3>3
  <2>6. InBatch' \subseteq held'
    BY <2>1, <2>3, <2>4 DEF SlotFirst
  <2> QED
    BY <2>1, <2>5, <2>6 DEF SlotFirst
<1> QED
  BY <1>2, <1>3, <1>4, <1>5, <1>6, <1>7, <1>8, <1>9, <1>10, StepsByEffect

LEMMA ConfigIsFixed == [Next]_vars => cfg' = cfg
<1>1. Next => cfg' = cfg
  <2>1. Control => cfg' = cfg
    BY ControlKeeps
  <2>2. \A r \in Requests : Aside(r) => cfg' = cfg
    BY AsideKeeps
  <2> QED
    BY <2>1, <2>2, StepsByEffect DEF PopPass, PopFirst, PopNext, SkipClosed, Spawn, Submit
<1> QED
  BY <1>1 DEF vars

LEMMA SlotFirstHolds == Spec => [](~cfg.window => SlotFirst)
<1>1. /\ SchedulerInv /\ SchedulerInv' /\ (~cfg.window => SlotFirst) /\ [Next]_vars
      => (~cfg.window => SlotFirst)'
  BY NextSlotFirst, ConfigIsFixed
<1>2. Init => (~cfg.window => SlotFirst)
  BY InitSlotFirst
<1> QED
  BY <1>1, <1>2, SchedulerInvHolds, PTL DEF Spec

\* Without a batching window no request is out of the queue without a slot, and
\* none whose client hung up in the queue reaches the backend.
THEOREM SlotComesFirst == Spec => []SlotBeforeRequest
<1>1. (~cfg.window => SlotFirst) => SlotBeforeRequest
  BY DEF SlotFirst, SlotBeforeRequest, NothingInLimbo, AbandonedNotSent
<1> QED
  BY <1>1, SlotFirstHolds, PTL

------------------------------------------------------------------------------
(* The scheduler implements Admission.                                      *)

Service == held \ {scheduler}
Taken == InBatch \ held

LEMMA InitAdmission == Init => Limiter!Init
<1>1. ASSUME Init PROVE cfg.maxInflight \in Nat /\ cfg.window \in BOOLEAN
  BY <1>1, SchedulerAssumption DEF Init
<1>2. ASSUME Init PROVE InBatch = {} /\ Queued = {} /\ held = {}
  BY <1>2, EmptyIsGood DEF Init, Queued, InBatch, Range
<1> QED
  BY <1>1, <1>2 DEF Limiter!Init

\* The instance has a copy of FiniteSets of its own.
LEMMA SameCardinality == \A S : Limiter!Cardinality(S) = Cardinality(S)
BY DEF Limiter!Cardinality, Cardinality

\* A slot given up by the scheduler's own loop or by a request is one that
\* leaves the service.
LEMMA ReleaseLeaves ==
    ASSUME SchedulerInv, NEW r \in Requests, r \in held, Release(r), r \notin InBatch',
           InBatch \ {r} = InBatch' \ {r}, Queued' = Queued, cfg' = cfg
    PROVE  Limiter!Next
<1>1. r \in Service /\ Service' = Service \ {r}
  BY SchedulerAssumption DEF Release, Service
<1>2. Taken' = Taken
  BY DEF Release, Taken
<1>3. Limiter!Leave(r)
  BY <1>1, <1>2 DEF Limiter!Leave, Service, Taken
<1> QED
  BY <1>3 DEF Limiter!Next

\* With a slot for the scheduler's asking, the service has room.
LEMMA RoomInService ==
    ASSUME SchedulerInv, SlotFree \/ scheduler \in held
    PROVE  cfg.maxInflight > 0 => Cardinality(Service) < cfg.maxInflight
<1> SUFFICES ASSUME Limited PROVE Cardinality(Service) < cfg.maxInflight
  BY DEF Limited
<1>1. IsFiniteSet(held) /\ Cardinality(held) \in Nat
  BY HeldIsFinite DEF SchedulerInv
<1>2. permits \in Nat /\ cfg.maxInflight \in Nat
  BY ConfigTypes DEF SchedulerInv, StateTypes
<1>3. permits + Cardinality(held) = cfg.maxInflight
  BY DEF SchedulerInv, SlotsOK, SlotConservation
<1>4. CASE scheduler \in held
  <2>1. Cardinality(Service) = Cardinality(held) - 1
    BY <1>1, <1>4, FS_RemoveElement DEF Service
  <2> QED
    BY <1>1, <1>2, <1>3, <2>1
<1>5. CASE scheduler \notin held
  <2>1. Service = held /\ permits > 0
    BY <1>5 DEF Service, SlotFree
  <2> QED
    BY <1>1, <1>2, <1>3, <2>1
<1> QED
  BY <1>4, <1>5

LEMMA NextAdmission ==
    ASSUME SchedulerInv, ~cfg.window => SlotFirst, [Next]_vars
    PROVE  [Limiter!Next]_Limiter!vars
<1>1. ASSUME Queued' = Queued, Taken' = Taken, Service' = Service, cfg' = cfg
      PROVE  UNCHANGED Limiter!vars
  BY <1>1 DEF Limiter!vars, Service, Taken
<1>2. CASE UNCHANGED vars
  BY <1>1, <1>2 DEF vars, queueVars, runVars, slotVars, Queued, Service, Taken, InBatch
<1>3. CASE Control
  <2>1. held' = held \/ held' = held \cup {scheduler}
    BY <1>3 DEF Control, AcquireFirst, Acquire, PopEmpty, TakePermit, Park, Wake, Timeout,
                WindowOpen, WindowShut, KeepOpen, Deadline, slotVars
  <2>2. InBatch' = InBatch /\ Queued' = Queued /\ cfg' = cfg
    BY <1>3, ControlKeeps
  <2>3. scheduler \notin InBatch
    BY SchedulerAssumption DEF SchedulerInv, BatchOK, InBatch, Range
  <2> QED
    BY <1>1, <2>1, <2>2, <2>3 DEF Service, Taken
<1>4. CASE PopPass
  BY <1>1, <1>4, PassKeeps DEF PopPass, slotVars, Service, Taken, InBatch
<1>5. CASE PopFirst
  <2> DEFINE r == FrontItem(q)
  <2>1. /\ r \in Queued /\ r \in Requests /\ Queued' = Queued \ {r} /\ r # scheduler
    BY <1>5, FrontIsQueued, ServeTakes, SchedulerAssumption DEF PopFirst
  <2>2. Service' = Service \cup {r} /\ cfg' = cfg
    BY <1>5, <2>1 DEF PopFirst, Service
  <2>3. Taken' = Taken
    BY <1>5 DEF PopFirst, Taken, InBatch, Range
  <2>4. scheduler \in held
    BY <1>5 DEF PopFirst, Popping, SchedulerInv, SlotsOK, SlotsHaveOwners
  <2>5. Limiter!Grant(r)
    BY <2>1, <2>2, <2>3, <2>4, RoomInService, SameCardinality
    DEF Limiter!Grant, Limiter!Free, Service, Taken
  <2> QED
    BY <2>1, <2>5 DEF Limiter!Next
<1>6. CASE PopNext
  <2> DEFINE r == FrontItem(q)
  <2>1. /\ r \in Queued /\ r \in Requests /\ Queued' = Queued \ {r}
    BY <1>6, FrontIsQueued, ServeTakes DEF PopNext
  <2>2. cfg.window
    BY <1>6 DEF PopNext, Popping, SlotFirst
  <2>3. r \notin held
    <3>1. r \notin InBatch /\ task[r] = "none" /\ mail[r] # "ok" /\ client[r] # "holding"
      BY <2>1, EachIsPlaced DEF Placed, SchedulerInv, StateTypes, HandlerStates
    <3> QED
      BY <2>1, <3>1, SchedulerAssumption DEF SchedulerInv, SlotsOK, SlotsHaveOwners, AtBackend
  <2>4. InBatch' = InBatch \cup {r} /\ held' = held /\ cfg' = cfg
    BY <1>6, <2>1, AppendProperties DEF PopNext, InBatch, slotVars, SchedulerInv, StateTypes, Range
  <2>5. Limiter!Take(r)
    BY <2>1, <2>2, <2>3, <2>4 DEF Limiter!Take, Service, Taken
  <2> QED
    BY <2>1, <2>5 DEF Limiter!Next
<1>7. CASE SkipClosed
  <2> DEFINE r == Head(batch)
  <2>1. r \in Requests /\ r \in InBatch /\ InBatch' = InBatch \ {r}
    BY <1>7, HeadIsBatched DEF SkipClosed, InBatch
  <2>2. Queued' = Queued /\ cfg' = cfg /\ DropSlot(r)
    BY <1>7 DEF SkipClosed, queueVars, Queued
  <2>3. CASE r \in held
    BY <2>1, <2>2, <2>3, ReleaseLeaves DEF DropSlot
  <2>4. CASE r \notin held
    <3>1. Limiter!Drop(r)
      BY <2>1, <2>2, <2>4 DEF Limiter!Drop, DropSlot, slotVars, Service, Taken
    <3> QED
      BY <2>1, <3>1 DEF Limiter!Next
  <2> QED
    BY <2>3, <2>4
<1>8. CASE Spawn
  <2> DEFINE r == Head(batch)
  <2>1. r \in Requests /\ r \in InBatch /\ InBatch' = InBatch \ {r} /\ r # scheduler
    BY <1>8, HeadIsBatched, SchedulerAssumption DEF Spawn, InBatch
  <2>2. Queued' = Queued /\ cfg' = cfg
    BY <1>8 DEF Spawn, queueVars, Queued
  <2>3. CASE r \in held
    BY <1>1, <1>8, <2>1, <2>2, <2>3 DEF Spawn, slotVars, Service, Taken
  <2>4. CASE r \notin held
    <3>1. SlotFree /\ held' = held \cup {r}
      BY <1>8, <2>4 DEF Spawn, Acquire
    <3>2. Limiter!GrantTaken(r)
      BY <2>1, <2>2, <2>4, <3>1, RoomInService, SameCardinality
      DEF Limiter!GrantTaken, Limiter!Free, Service, Taken
    <3> QED
      BY <2>1, <3>2 DEF Limiter!Next
  <2> QED
    BY <2>3, <2>4
<1>9. ASSUME NEW r \in Requests, Submit(r) PROVE Limiter!Next
  <2>1. /\ Queued' = Queued \cup {r} /\ Service' = Service /\ Taken' = Taken /\ cfg' = cfg
    BY <1>9, SubmitAdds DEF Submit, slotVars, runVars, Service, Taken, InBatch
  <2>2. r \notin Queued /\ r \notin InBatch /\ r \notin AtBackend
    BY <1>9, EachIsPlaced DEF Submit, Placed, AtBackend
  <2>3. r \notin Service
    BY <2>2 DEF Service, SchedulerInv, SlotsOK, SlotsHaveOwners
  <2>4. q.len = Cardinality(Queued) /\ q.len \in Nat /\ Capacity \in Nat
    BY GoodIsQueue, QueueAssumption DEF SchedulerInv, QueueOK, Queued, IsQueue
  <2>5. Cardinality(Queued) < Capacity
    BY <1>9, <2>4 DEF Submit, IsFull
  <2>6. Limiter!Enter(r)
    BY <2>1, <2>2, <2>3, <2>5, SameCardinality DEF Limiter!Enter, Service, Taken
  <2> QED
    BY <2>6 DEF Limiter!Next
<1>10. ASSUME NEW r \in Requests, Aside(r) PROVE [Limiter!Next]_Limiter!vars
  <2>1. Queued' = Queued /\ cfg' = cfg /\ InBatch' = InBatch
    BY <1>10, AsideKeeps
  <2>2. CASE UNCHANGED slotVars
    BY <1>1, <2>1, <2>2 DEF slotVars, Service, Taken
  <2>3. CASE Release(r) /\ r \in AtBackend
    <3>1. r \in held
      BY <2>3 DEF SchedulerInv, SlotsOK
    <3>2. task[r] # "none" \/ mail[r] # "none" \/ client[r] = "holding"
      BY <2>3 DEF AtBackend
    <3>3. r \notin InBatch
      BY <3>2, EachIsPlaced DEF Placed, SchedulerInv, StateTypes, HandlerStates
    <3> QED
      BY <2>1, <2>3, <3>1, <3>3, ReleaseLeaves
  <2>4. UNCHANGED slotVars \/ (Release(r) /\ r \in AtBackend)
    BY <1>10 DEF Aside, Handler, Dispatch, SubmitFull, HangupWaiting, Notify, ReceiveOk,
                 ReceiveErr, AnswerFull, Finish, ReplyOk, ReplyDropped, SendFail, ReplyErr,
                 AtBackend
  <2> QED
    BY <2>2, <2>3, <2>4
<1> QED
  BY <1>2, <1>3, <1>4, <1>5, <1>6, <1>7, <1>8, <1>9, <1>10, StepsByEffect

\* Under every configuration each step of the scheduler is one a request makes
\* through Admission, or none: from the queue straight to a slot, and only with
\* a batching window by way of the batch.
THEOREM AdmissionIsImplemented == Spec => ImplementsAdmission
<1>1. SchedulerInv /\ (~cfg.window => SlotFirst) /\ [Next]_vars => [Limiter!Next]_Limiter!vars
  BY NextAdmission
<1> QED
  BY <1>1, InitAdmission, SchedulerInvHolds, SlotFirstHolds, PTL
  DEF Spec, ImplementsAdmission, Limiter!Spec
==============================================================================
