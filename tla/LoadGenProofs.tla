---------------------------- MODULE LoadGenProofs ----------------------------
(***************************************************************************)
(* Theorems about LoadGen, for any command lines, schedule and replies.    *)
(*                                                                         *)
(* A worker with a request in hand has a number that was handed out to it  *)
(* alone, in open loop measures from that number's place in the schedule,  *)
(* and keeps the end of its reply however the reply is cut.  Every number  *)
(* handed out is with a worker or recorded once.                           *)
(***************************************************************************)
EXTENDS LoadGen, FiniteSetTheorems, SequenceTheorems, TLAPS

\* The fields of a worker and of a Stats, and a function with a given domain.
Fields == {"at", "num", "from", "ttft", "tail", "reply"}
Figures == {"count", "ttft", "e2e"}

IsOver(x, S) == x = [f \in S |-> x[f]]

ControlTypes ==
    /\ args \in Commands
    /\ main \in {"start", "warmup", "measured", "reported", "failed"}
    /\ clock \in Nat /\ start \in Nat /\ start =< clock
    /\ next \in Nat /\ joined \in Nat

WorkerTypes ==
    /\ worker = [w \in Workers |-> worker[w]]
    /\ \A w \in Workers :
          /\ worker[w] = [f \in Fields |-> worker[w][f]]
          /\ worker[w].at \in Places /\ worker[w].num \in Nat /\ worker[w].from \in Nat

StatsTypes ==
    /\ stats = [w \in Workers |-> stats[w]]
    /\ \A w \in Workers :
          /\ IsOver(stats[w], Figures)
          /\ stats[w].count \in [Kinds -> Nat]

\* What is known of one worker.
WorkerOK(w) ==
    /\ worker[w].at = "done" => next >= Total
    /\ w \in Busy => worker[w].num < next
    /\ worker[w].at = "asleep" => OpenLoop
    /\ w \in Busy /\ OpenLoop => worker[w].from = Due(worker[w].num)
    /\ w \in Busy /\ worker[w].at # "asleep" => worker[w].from =< clock

ClaimsUnique == \A v, w \in Busy : v # w => worker[v].num # worker[w].num

\* main awaits only workers that are done, and outside a phase nobody works.
MainOK ==
    /\ \A w \in Workers : w =< joined => worker[w].at = "done"
    /\ ~InPhase => Busy = {}

LoadGenInv ==
    /\ ControlTypes /\ WorkerTypes /\ StatsTypes
    /\ (InPhase => \A w \in Workers : WorkerOK(w)) /\ ClaimsUnique /\ MainOK

------------------------------------------------------------------------------

LEMMA ArgTypes ==
    ASSUME args \in Commands
    PROVE  /\ args.concurrency \in Nat /\ args.requests \in Nat /\ args.warmup \in Nat
           /\ Total \in Nat /\ Interval \in Nat
BY LoadAssumption DEF Total

\* The schedule never runs backwards.
LEMMA DueIsMonotone ==
    ASSUME start \in Nat, NEW i \in Nat, NEW j \in Nat, i =< j
    PROVE  Due(i) \in Nat /\ Due(j) \in Nat /\ Due(i) =< Due(j)
<1>1. Interval \in Nat
  BY LoadAssumption
<1>2. \A a, b, c \in Nat : a =< b => a * c \in Nat /\ b * c \in Nat /\ a * c =< b * c
  OBVIOUS
<1> QED
  BY <1>1, <1>2 DEF Due

LEMMA FreshIs ==
    /\ Fresh = [f \in Fields |-> Fresh[f]] /\ Fresh.at = "claim"
    /\ Fresh.num = 0 /\ Fresh.from = 0
    /\ IsOver(NoStats, Figures) /\ NoStats.count = [k \in Kinds |-> 0]
BY DEF Fresh, NoStats, Fields, Figures, IsOver

\* The beginning of a phase, and of the program: everybody is about to claim.
LEMMA AllFresh ==
    ASSUME ControlTypes', worker' = [w \in Workers |-> Fresh], stats' = [w \in Workers |-> NoStats],
           args' = args, joined' = 0
    PROVE  LoadGenInv'
<1>1. Workers' = Workers
  BY DEF Workers
<1>2. \A w \in Workers : worker'[w].at = "claim"
  BY FreshIs
<1>3. Busy' = {}
  BY <1>1, <1>2 DEF Busy
<1>4. WorkerTypes' /\ StatsTypes'
  BY <1>1, FreshIs DEF WorkerTypes, StatsTypes, Places
<1>5. \A w \in Workers' : WorkerOK(w)'
  BY <1>1, <1>2, <1>3 DEF WorkerOK
<1>6. ClaimsUnique' /\ MainOK'
  BY <1>1, <1>3, ArgTypes DEF ClaimsUnique, MainOK, Workers
<1> QED
  BY <1>4, <1>5, <1>6 DEF LoadGenInv

LEMMA InitLoadGen == Init => LoadGenInv
<1> SUFFICES ASSUME Init PROVE LoadGenInv
  OBVIOUS
<1>1. ControlTypes
  BY DEF Init, ControlTypes
<1>2. \A w \in Workers : worker[w].at = "claim"
  BY FreshIs DEF Init
<1>3. Busy = {}
  BY <1>2 DEF Busy
<1>4. WorkerTypes /\ StatsTypes
  <2>1. worker = [w \in Workers |-> Fresh] /\ stats = [w \in Workers |-> NoStats]
    BY DEF Init
  <2>2. WorkerTypes
    BY <2>1, FreshIs DEF WorkerTypes, Places
  <2>3. StatsTypes
    BY <2>1, FreshIs DEF StatsTypes
  <2> QED
    BY <2>2, <2>3
<1>5. \A w \in Workers : WorkerOK(w)
  BY <1>2, <1>3 DEF WorkerOK
<1>6. ClaimsUnique /\ MainOK
  BY <1>3, <1>1, ArgTypes DEF ClaimsUnique, MainOK, Workers, Init
<1> QED
  BY <1>1, <1>4, <1>5, <1>6 DEF LoadGenInv

------------------------------------------------------------------------------
(* A worker's steps.                                                        *)

\* One worker goes on; the others and main stay where they are.
LEMMA OneGoes ==
    ASSUME LoadGenInv, InPhase, NEW w \in Workers, NEW new,
           worker' = [worker EXCEPT ![w] = new],
           new = [f \in Fields |-> new[f]], new.at \in Places, new.num \in Nat, new.from \in Nat,
           UNCHANGED <<args, main, clock, start, joined>>,
           next' \in Nat, next' >= next, StatsTypes',
           worker[w].at # "done",
           new.at = "done" => next' >= Total,
           new.at \notin {"claim", "done"} =>
               /\ new.num < next'
               /\ OpenLoop => new.from = Due(new.num)
               /\ new.at # "asleep" => new.from =< clock
               /\ \A v \in Busy \ {w} : worker[v].num # new.num,
           new.at = "asleep" => OpenLoop
    PROVE  LoadGenInv'
<1>1. /\ Workers' = Workers /\ Total' = Total /\ OpenLoop' = OpenLoop /\ InPhase' = InPhase
      /\ \A i : Due(i)' = Due(i)
  BY DEF Workers, Total, OpenLoop, InPhase, Due
<1>2. /\ worker'[w] = new /\ \A v \in Workers \ {w} : worker'[v] = worker[v]
      /\ worker' = [v \in Workers |-> worker'[v]]
  BY DEF LoadGenInv, WorkerTypes
<1>3. ControlTypes'
  BY DEF LoadGenInv, ControlTypes
<1>4. WorkerTypes'
  BY <1>1, <1>2 DEF LoadGenInv, WorkerTypes
<1>5. /\ w \in Busy' <=> new.at \notin {"claim", "done"}
      /\ \A v \in Workers \ {w} : v \in Busy' <=> v \in Busy
      /\ Busy' \subseteq Workers
  BY <1>1, <1>2 DEF Busy
<1>6. ASSUME NEW v \in Workers PROVE WorkerOK(v)'
  <2>1. CASE v = w
    BY <1>1, <1>2, <1>5, <2>1 DEF WorkerOK
  <2>2. CASE v # w
    <3>1. /\ WorkerOK(v) /\ worker'[v] = worker[v] /\ (v \in Busy' <=> v \in Busy)
          /\ worker[v].num \in Nat /\ next \in Nat /\ Total \in Nat
      BY <1>2, <1>5, <2>2, ArgTypes DEF LoadGenInv, WorkerTypes, ControlTypes
    <3> QED
      BY <1>1, <3>1 DEF WorkerOK
  <2> QED
    BY <2>1, <2>2
<1>7. ClaimsUnique'
  BY <1>2, <1>5 DEF LoadGenInv, ClaimsUnique
<1>8. MainOK'
  BY <1>1, <1>2 DEF LoadGenInv, MainOK
<1> QED
  BY <1>1, <1>3, <1>4, <1>6, <1>7, <1>8 DEF LoadGenInv

\* A worker in any place but the two ends has a request in hand, in a phase.
LEMMA AtWork ==
    ASSUME LoadGenInv, NEW w \in Workers, worker[w].at \notin {"claim", "done"}
    PROVE  InPhase /\ w \in Busy /\ WorkerOK(w)
<1>1. w \in Busy
  BY DEF Busy
<1> QED
  BY <1>1 DEF LoadGenInv, MainOK

\* It goes from one such place to the next with its number and its clock.
LEMMA GoesOn ==
    ASSUME LoadGenInv, NEW w \in Workers, worker[w].at \notin {"claim", "done"},
           NEW new, Go(w, new), UNCHANGED next,
           new = [f \in Fields |-> new[f]],
           new.at \in Places \ {"claim", "asleep", "done"},
           new.num = worker[w].num, new.from = worker[w].from,
           worker[w].from =< clock
    PROVE  LoadGenInv'
<1>1. InPhase /\ w \in Busy /\ WorkerOK(w)
  BY AtWork
<1>2. /\ worker' = [worker EXCEPT ![w] = new] /\ next' = next /\ next \in Nat
      /\ UNCHANGED <<args, main, clock, start, joined, stats>>
  BY DEF Go, LoadGenInv, ControlTypes
<1>3. StatsTypes'
  BY <1>2 DEF LoadGenInv, StatsTypes, Workers
<1>4. /\ new.at \in Places /\ new.num \in Nat /\ new.from \in Nat
      /\ new.at \notin {"claim", "asleep", "done"}
  BY DEF LoadGenInv, WorkerTypes
<1>5. /\ new.num < next' /\ (OpenLoop => new.from = Due(new.num)) /\ new.from =< clock
      /\ \A v \in Busy \ {w} : worker[v].num # new.num
  BY <1>1, <1>2 DEF WorkerOK, LoadGenInv, ClaimsUnique
<1> QED
  BY <1>1, <1>2, <1>3, <1>4, <1>5, OneGoes

\* Its outcome is recorded, and it claims again.
LEMMA Returns ==
    ASSUME LoadGenInv, NEW w \in Workers, worker[w].at \notin {"claim", "done"},
           NEW s, Return(w, s), IsOver(s, Figures), s.count \in [Kinds -> Nat]
    PROVE  LoadGenInv'
<1>1. InPhase
  BY AtWork
<1>2. /\ worker' = [worker EXCEPT ![w] = Fresh] /\ stats' = [stats EXCEPT ![w] = s]
      /\ next' = next /\ next \in Nat
      /\ UNCHANGED <<args, main, clock, start, joined>>
  BY DEF Return, LoadGenInv, ControlTypes
<1>3. StatsTypes'
  BY <1>2 DEF LoadGenInv, StatsTypes, Workers
<1> QED
  BY <1>1, <1>2, <1>3, FreshIs, OneGoes DEF Places

LEMMA FailureTypes ==
    ASSUME StatsTypes, NEW w \in Workers, NEW kind \in Kinds
    PROVE  /\ IsOver(Failure(stats[w], kind), Figures)
           /\ Failure(stats[w], kind).count = [stats[w].count EXCEPT ![kind] = @ + 1]
           /\ Failure(stats[w], kind).count \in [Kinds -> Nat]
<1>1. stats[w] = [f \in Figures |-> stats[w][f]] /\ stats[w].count \in [Kinds -> Nat]
  BY DEF StatsTypes, IsOver
<1>2. Failure(stats[w], kind).count = [stats[w].count EXCEPT ![kind] = @ + 1]
  BY <1>1 DEF Failure, Figures
<1>3. IsOver(Failure(stats[w], kind), Figures)
  BY <1>1 DEF Failure, Figures, IsOver
<1>4. [stats[w].count EXCEPT ![kind] = @ + 1] \in [Kinds -> Nat]
  BY <1>1
<1> QED
  BY <1>2, <1>3, <1>4

LEMMA SuccessTypes ==
    ASSUME StatsTypes, NEW w \in Workers, NEW t, NEW e
    PROVE  /\ IsOver(Success(stats[w], t, e), Figures)
           /\ Success(stats[w], t, e).count \in [Kinds -> Nat]
<1>1. /\ stats[w] = [f \in Figures |-> stats[w][f]] /\ stats[w].count \in [Kinds -> Nat]
      /\ "ok" \in Kinds
  BY DEF StatsTypes, IsOver, Kinds
<1>2. Success(stats[w], t, e).count = [stats[w].count EXCEPT !["ok"] = @ + 1]
  BY <1>1 DEF Success, Figures
<1>3. IsOver(Success(stats[w], t, e), Figures)
  BY <1>1 DEF Success, Figures, IsOver
<1>4. [stats[w].count EXCEPT !["ok"] = @ + 1] \in [Kinds -> Nat]
  BY <1>1
<1> QED
  BY <1>2, <1>3, <1>4

LEMMA WorkKeeps ==
    ASSUME LoadGenInv, NEW w \in Workers, Work(w)
    PROVE  LoadGenInv'
<1>1. /\ worker[w] = [f \in Fields |-> worker[w][f]] /\ worker[w].at \in Places
      /\ worker[w].num \in Nat /\ worker[w].from \in Nat
      /\ next \in Nat /\ clock \in Nat /\ start \in Nat
  BY DEF LoadGenInv, WorkerTypes, ControlTypes
<1>2. CASE Stop(w)
  <2> DEFINE new == [worker[w] EXCEPT !.at = "done"]
  <2>1. /\ InPhase /\ worker[w].at = "claim" /\ next >= Total /\ next' = next + 1
        /\ worker' = [worker EXCEPT ![w] = new]
        /\ UNCHANGED <<args, main, clock, start, joined, stats>>
    BY <1>2 DEF Stop, Go, Exhausted
  <2>2. StatsTypes'
    BY <2>1 DEF LoadGenInv, StatsTypes, Workers
  <2>3. /\ new = [f \in Fields |-> new[f]] /\ new.at = "done"
        /\ new.num = worker[w].num /\ new.from = worker[w].from
    BY <1>1 DEF Fields
  <2>4. next' \in Nat /\ next' >= next /\ next' >= Total
    BY <1>1, <2>1, ArgTypes DEF LoadGenInv, ControlTypes
  <2> HIDE DEF new
  <2> QED
    BY <1>1, <2>1, <2>2, <2>3, <2>4, OneGoes DEF Places
<1>3. CASE Claim(w)
  <2> DEFINE new == IF OpenLoop
                    THEN [worker[w] EXCEPT !.at = "asleep", !.num = next, !.from = Slot(next)]
                    ELSE [worker[w] EXCEPT !.at = "sending", !.num = next, !.from = clock]
  <2>1. /\ InPhase /\ worker[w].at = "claim" /\ next' = next + 1
        /\ worker' = [worker EXCEPT ![w] = new]
        /\ UNCHANGED <<args, main, clock, start, joined, stats>>
    BY <1>3 DEF Claim, Go
  <2>2. StatsTypes'
    BY <2>1 DEF LoadGenInv, StatsTypes, Workers
  <2>3. /\ new = [f \in Fields |-> new[f]] /\ new.num = next
        /\ OpenLoop => new.at = "asleep" /\ new.from = Due(next)
        /\ ~OpenLoop => new.at = "sending" /\ new.from = clock
    BY <1>1 DEF Fields, Slot
  <2>4. new.from \in Nat /\ next' \in Nat /\ next' > next
    <3>1. Due(next) \in Nat
      BY <1>1, DueIsMonotone
    <3>2. new.from \in Nat
      BY <1>1, <2>3, <3>1
    <3>3. next + 1 \in Nat /\ next + 1 > next
      BY <1>1
    <3> QED
      BY <2>1, <3>2, <3>3
  <2>5. \A v \in Busy : worker[v].num # next
    BY <1>1, <2>1 DEF LoadGenInv, WorkerOK, Busy, WorkerTypes
  <2> HIDE DEF new
  <2> QED
    BY <1>1, <2>1, <2>2, <2>3, <2>4, <2>5, OneGoes DEF Places
<1>4. CASE Wake(w)
  <2> DEFINE new == [worker[w] EXCEPT !.at = "sending"]
  <2>1. /\ worker[w].at = "asleep" /\ worker[w].from =< clock /\ Go(w, new) /\ next' = next
    BY <1>4 DEF Wake
  <2>2. /\ new = [f \in Fields |-> new[f]] /\ new.at = "sending"
        /\ new.num = worker[w].num /\ new.from = worker[w].from
    BY <1>1 DEF Fields
  <2> HIDE DEF new
  <2> QED
    BY <2>1, <2>2, GoesOn DEF Places
<1>5. CASE Headers(w)
  <2>1. PICK place \in {"rejected", "httpError", IF args.stream THEN "stream" ELSE "body"} :
            Go(w, [worker[w] EXCEPT !.at = place])
    BY <1>5 DEF Headers
  <2> DEFINE new == [worker[w] EXCEPT !.at = place]
  <2>2. worker[w].at = "sending" /\ next' = next
    BY <1>5 DEF Headers
  <2>3. /\ new = [f \in Fields |-> new[f]] /\ new.at = place
        /\ new.num = worker[w].num /\ new.from = worker[w].from
    BY <1>1 DEF Fields
  <2>4. worker[w].from =< clock
    BY <2>2, AtWork DEF WorkerOK
  <2>5. new.at \in {"rejected", "httpError", "stream", "body"}
    BY <2>3
  <2> HIDE DEF new
  <2> QED
    BY <2>1, <2>2, <2>3, <2>4, <2>5, GoesOn DEF Places, new
<1>6. ASSUME NEW bytes \in Chunks, Chunk(w, bytes) PROVE LoadGenInv'
  <2> DEFINE new == [worker[w] EXCEPT !.ttft = IF @ = {} /\ bytes # << >> THEN {Elapsed(w)} ELSE @,
                                      !.tail = Keep(@, bytes),
                                      !.reply = @ \o bytes]
  <2>1. worker[w].at = "stream" /\ Go(w, new) /\ next' = next
    BY <1>6 DEF Chunk
  <2>2. /\ new = [f \in Fields |-> new[f]] /\ new.at = "stream"
        /\ new.num = worker[w].num /\ new.from = worker[w].from
    BY <1>1, <2>1 DEF Fields
  <2>3. worker[w].from =< clock
    BY <2>1, AtWork DEF WorkerOK
  <2> HIDE DEF new
  <2> QED
    BY <2>1, <2>2, <2>3, GoesOn DEF Places
<1>7. CASE SendFails(w) \/ Drained(w) \/ BodyIn(w) \/ Breaks(w) \/ EndOfStream(w)
  <2>1. worker[w].at \notin {"claim", "done"}
    BY <1>7 DEF SendFails, Drained, BodyIn, Breaks, EndOfStream
  <2>2. ASSUME NEW kind \in Kinds, Return(w, Failure(stats[w], kind))
        PROVE  LoadGenInv'
    <3>1. PICK s : s = Failure(stats[w], kind)
      OBVIOUS
    <3>2. Return(w, s) /\ IsOver(s, Figures) /\ s.count \in [Kinds -> Nat]
      BY <2>2, <3>1, FailureTypes DEF LoadGenInv
    <3> QED
      BY <2>1, <3>2, Returns
  <2>3. ASSUME NEW t, Return(w, Success(stats[w], t, Elapsed(w)))
        PROVE  LoadGenInv'
    <3>1. PICK s : s = Success(stats[w], t, Elapsed(w))
      OBVIOUS
    <3>2. Return(w, s) /\ IsOver(s, Figures) /\ s.count \in [Kinds -> Nat]
      BY <2>3, <3>1, SuccessTypes DEF LoadGenInv
    <3> QED
      BY <2>1, <3>2, Returns
  <2> QED
    BY <1>7, <2>2, <2>3 DEF SendFails, Drained, BodyIn, Breaks, EndOfStream, Kinds
<1> QED
  BY <1>2, <1>3, <1>4, <1>5, <1>6, <1>7 DEF Work

------------------------------------------------------------------------------
(* The steps of main, and time.                                             *)

LEMMA PhaseBegins ==
    ASSUME LoadGenInv, NEW CONSTANT phase \in {"warmup", "measured"}, BeginPhase(phase)
    PROVE  LoadGenInv'
<1>1. ControlTypes'
  BY DEF LoadGenInv, ControlTypes, BeginPhase
<1> QED
  BY <1>1, AllFresh DEF BeginPhase

\* Steps that change nothing a worker is known by.
LEMMA OthersKeep ==
    ASSUME LoadGenInv, UNCHANGED <<args, start, next, worker, stats>>, ControlTypes',
           clock' >= clock,
           main' = main \/ Busy = {},
           InPhase' => main' = main,
           \A w \in Workers : w =< joined' => worker[w].at = "done"
    PROVE  LoadGenInv'
<1>1. Workers' = Workers /\ Busy' = Busy /\ \A i : Due(i)' = Due(i)
  BY DEF Workers, Busy, Due
<1>2. WorkerTypes' /\ StatsTypes' /\ ClaimsUnique'
  BY <1>1 DEF LoadGenInv, WorkerTypes, StatsTypes, ClaimsUnique
<1>3. MainOK'
  BY <1>1 DEF LoadGenInv, MainOK, InPhase
<1>4. ASSUME InPhase', NEW w \in Workers PROVE WorkerOK(w)'
  <2>1. /\ InPhase /\ Total' = Total /\ OpenLoop' = OpenLoop /\ WorkerOK(w)
        /\ worker[w].from \in Nat /\ clock \in Nat /\ clock' \in Nat
    BY <1>4 DEF InPhase, Total, OpenLoop, LoadGenInv, WorkerTypes, ControlTypes
  <2> QED
    BY <1>1, <2>1 DEF WorkerOK
<1> QED
  BY <1>1, <1>2, <1>3, <1>4 DEF LoadGenInv

LEMMA NextLoadGen ==
    ASSUME LoadGenInv, [Next]_vars
    PROVE  LoadGenInv'
<1>1. CASE RefuseArgs
  BY <1>1, OthersKeep
  DEF RefuseArgs, phaseVars, LoadGenInv, ControlTypes, MainOK, InPhase
<1>2. CASE Launch
  BY <1>2, PhaseBegins DEF Launch
<1>3. CASE Join
  <2>1. /\ InPhase /\ worker[joined + 1].at = "done" /\ joined' = joined + 1
        /\ UNCHANGED <<args, main, clock, start, next, worker, stats>>
    BY <1>3 DEF Join
  <2>2. ControlTypes'
    BY <2>1 DEF LoadGenInv, ControlTypes
  <2>3. \A w \in Workers : w =< joined' => worker[w].at = "done"
    <3>1. \A w \in Workers : w \in Nat /\ joined \in Nat
      BY DEF Workers, LoadGenInv, ControlTypes
    <3>2. \A w \in Workers : w =< joined' => w =< joined \/ w = joined + 1
      BY <2>1, <3>1
    <3> QED
      BY <2>1, <3>2 DEF LoadGenInv, MainOK
  <2> QED
    BY <2>1, <2>2, <2>3, OthersKeep DEF LoadGenInv, ControlTypes
<1>4. CASE EndWarmup
  BY <1>4, PhaseBegins DEF EndWarmup
<1>5. CASE Report
  <2>1. /\ joined = args.concurrency /\ main' \in {"failed", "reported"}
        /\ UNCHANGED <<args, clock, start, next, worker, stats, merged, joined>>
    BY <1>5 DEF Report, phaseVars
  <2>2. \A w \in Workers : worker[w].at = "done"
    BY <2>1 DEF Workers, LoadGenInv, MainOK
  <2>3. Busy = {} /\ ControlTypes' /\ ~InPhase'
    BY <2>1, <2>2 DEF Busy, LoadGenInv, ControlTypes, InPhase
  <2> QED
    BY <2>1, <2>2, <2>3, OthersKeep DEF LoadGenInv, ControlTypes
<1>6. CASE Tick
  <2>1. clock' = clock + 1 /\ UNCHANGED <<args, main, start, next, worker, stats, merged, joined>>
    BY <1>6 DEF Tick, phaseVars
  <2> QED
    BY <2>1, OthersKeep DEF LoadGenInv, ControlTypes, MainOK
<1>7. CASE UNCHANGED vars
  BY <1>7, OthersKeep DEF vars, phaseVars, LoadGenInv, ControlTypes, MainOK
<1> QED
  BY <1>1, <1>2, <1>3, <1>4, <1>5, <1>6, <1>7, WorkKeeps DEF Next, Main

LEMMA LoadGenInvHolds == Spec => []LoadGenInv
BY InitLoadGen, NextLoadGen, PTL DEF Spec

------------------------------------------------------------------------------

\* "Nobody sits idle while there is work left": while a worker sleeps towards
\* its slot, no request that is due waits for a worker.
THEOREM NobodySitsIdle == Spec => []NobodyIdle
<1>1. LoadGenInv => NobodyIdle
  <2> SUFFICES ASSUME LoadGenInv, InPhase, NEW w \in Workers
               PROVE  /\ worker[w].at = "done" => next >= Total
                      /\ worker[w].at = "asleep" /\ worker[w].from > clock =>
                            next >= Total \/ Due(next) > clock
    BY DEF NobodyIdle
  <2>1. WorkerOK(w)
    BY DEF LoadGenInv
  <2>2. ASSUME worker[w].at = "asleep", worker[w].from > clock PROVE Due(next) > clock
    <3>1. /\ worker[w].num < next /\ worker[w].from = Due(worker[w].num)
          /\ worker[w].num \in Nat /\ next \in Nat /\ start \in Nat /\ clock \in Nat
      BY <2>1, <2>2 DEF WorkerOK, Busy, LoadGenInv, WorkerTypes, ControlTypes
    <3>2. Due(worker[w].num) =< Due(next) /\ Due(worker[w].num) \in Nat /\ Due(next) \in Nat
      BY <3>1, DueIsMonotone
    <3> QED
      BY <2>2, <3>1, <3>2
  <2> QED
    BY <2>1, <2>2 DEF WorkerOK
<1> QED
  BY <1>1, LoadGenInvHolds, PTL

------------------------------------------------------------------------------
(* What the outcome of a request is recorded as.                            *)

LEMMA SuccessCounts ==
    ASSUME NEW s, IsOver(s, Figures), s.count \in [Kinds -> Nat], NEW t, NEW e, NEW k \in Kinds
    PROVE  Success(s, t, e).count[k] = IF k = "ok" THEN s.count[k] + 1 ELSE s.count[k]
<1>1. Success(s, t, e).count = [s.count EXCEPT !["ok"] = @ + 1]
  BY DEF Success, Figures, IsOver
<1> QED
  BY <1>1 DEF Kinds

LEMMA SuccessLatency ==
    ASSUME NEW s, IsOver(s, Figures), NEW t, NEW e
    PROVE  Success(s, t, e).e2e = s.e2e (+) SetToBag({Sample(e)})
BY DEF Success, Figures, IsOver

LEMMA SuccessFirstByte ==
    ASSUME NEW s, IsOver(s, Figures), NEW t, NEW e
    PROVE  Success(s, {t}, e).ttft = s.ttft (+) SetToBag({Sample(t)})
<1>1. Success(s, {t}, e).ttft = s.ttft (+) SetToBag({Sample(x) : x \in {t}})
  BY DEF Success, Figures, IsOver
<1>2. {Sample(x) : x \in {t}} = {Sample(t)}
  OBVIOUS
<1> QED
  BY <1>1, <1>2

\* A worker's figure grows only when its request returns, by that outcome.
LEMMA Outcome ==
    ASSUME LoadGenInv, [Next]_vars, NEW w \in Workers, NEW kind \in Kinds, Gains(w, kind)
    PROVE  /\ SendFails(w) \/ Drained(w) \/ BodyIn(w) \/ Breaks(w) \/ EndOfStream(w)
           /\ \A k \in Kinds : Return(w, Failure(stats[w], k)) => kind = k
           /\ \A t, e : Return(w, Success(stats[w], t, e)) =>
                 kind = "ok" /\ stats'[w] = Success(stats[w], t, e)
<1>1. /\ StatsTypes /\ stats = [v \in Workers |-> stats[v]]
      /\ stats[w].count \in [Kinds -> Nat] /\ "ok" \in Kinds
  BY DEF LoadGenInv, StatsTypes, Kinds
<1>2. stats' # stats /\ stats'[w].count[kind] # stats[w].count[kind]
  BY <1>1 DEF Gains
<1>3. ~(Launch \/ EndWarmup)
  <2> SUFFICES ASSUME Launch \/ EndWarmup PROVE FALSE
    OBVIOUS
  <2>1. stats'[w] = NoStats
    BY DEF Launch, EndWarmup, BeginPhase
  <2> QED
    BY <1>1, <2>1, FreshIs DEF Gains
<1>4. PICK v \in Workers : Work(v)
  BY <1>2, <1>3 DEF Next, Main, RefuseArgs, Join, Report, Tick, phaseVars, vars
<1>5. SendFails(v) \/ Drained(v) \/ BodyIn(v) \/ Breaks(v) \/ EndOfStream(v)
  BY <1>2, <1>4 DEF Work, Stop, Claim, Wake, Headers, Chunk, Go
<1>6. PICK s : Return(v, s)
  BY <1>5 DEF SendFails, Drained, BodyIn, Breaks, EndOfStream
<1>7. v = w
  BY <1>1, <1>2, <1>6 DEF Return
<1>8. ASSUME NEW k \in Kinds, Return(w, Failure(stats[w], k)) PROVE kind = k
  <2>1. stats'[w].count = [stats[w].count EXCEPT ![k] = @ + 1]
    BY <1>1, <1>8, FailureTypes DEF Return
  <2> QED
    BY <1>1, <1>2, <2>1
<1>9. ASSUME NEW t, NEW e, Return(w, Success(stats[w], t, e))
      PROVE  kind = "ok" /\ stats'[w] = Success(stats[w], t, e)
  <2>1. stats'[w] = Success(stats[w], t, e)
    BY <1>1, <1>9 DEF Return
  <2>2. kind # "ok" => stats'[w].count[kind] = stats[w].count[kind]
    BY <1>1, <2>1, SuccessCounts DEF StatsTypes
  <2> QED
    BY <1>1, <1>2, <2>1, <2>2
<1> QED
  BY <1>5, <1>7, <1>8, <1>9

\* In open loop a latency counts from the request's place in the schedule and
\* from nothing else, so no wait the gateway causes is left out of the report.
THEOREM LatencyIsFromSchedule == Spec => LatencyFromSchedule
<1> DEFINE Charged(w) ==
        OpenLoop /\ Gains(w, "ok") =>
          /\ clock >= Due(worker[w].num)
          /\ stats'[w].e2e = stats[w].e2e (+) SetToBag({Sample(clock - Due(worker[w].num))})
<1>1. ASSUME LoadGenInv, [Next]_vars, NEW w \in Workers, OpenLoop, Gains(w, "ok")
      PROVE  /\ clock >= Due(worker[w].num)
             /\ stats'[w].e2e = stats[w].e2e (+) SetToBag({Sample(clock - Due(worker[w].num))})
  <2>1. /\ SendFails(w) \/ Drained(w) \/ BodyIn(w) \/ Breaks(w) \/ EndOfStream(w)
        /\ \A k \in Kinds : Return(w, Failure(stats[w], k)) => "ok" = k
        /\ \A t, e : Return(w, Success(stats[w], t, e)) => stats'[w] = Success(stats[w], t, e)
        /\ StatsTypes /\ "ok" \in Kinds
    BY <1>1, Outcome DEF Kinds, LoadGenInv
  <2>2. PICK t : /\ worker[w].at \in {"body", "stream"}
                 /\ stats'[w] = Success(stats[w], t, Elapsed(w))
    BY <2>1 DEF SendFails, Drained, BodyIn, Breaks, EndOfStream, Kinds
  <2>3. w \in Busy /\ WorkerOK(w) /\ worker[w].at # "asleep"
    BY <2>2, AtWork, <1>1
  <2>4. worker[w].from = Due(worker[w].num) /\ worker[w].from =< clock
    BY <1>1, <2>3 DEF WorkerOK
  <2>5. stats'[w].e2e = stats[w].e2e (+) SetToBag({Sample(Elapsed(w))})
    <3>1. IsOver(stats[w], Figures)
      BY <2>1 DEF StatsTypes
    <3> QED
      BY <2>2, <3>1, SuccessLatency
  <2> QED
    BY <2>4, <2>5 DEF Elapsed
<1>2. LoadGenInv /\ [Next]_vars => [\A w \in Workers : Charged(w)]_vars
  BY <1>1
<1> HIDE DEF Charged
<1>3. Spec => [][\A w \in Workers : Charged(w)]_vars
  BY <1>2, LoadGenInvHolds, PTL DEF Spec
<1> QED
  BY <1>3 DEF LatencyFromSchedule, Charged
------------------------------------------------------------------------------
(* The end of a reply.                                                      *)

\* Where the last TailMax symbols of a text begin, and these.
FirstKept(text) == Max({1, Len(text) - TailMax + 1})
LastOf(text) == SubSeq(text, FirstKept(text), Len(text))

LEMMA MaxOfTwo ==
    ASSUME NEW n \in Int
    PROVE  Max({1, n}) = IF n > 1 THEN n ELSE 1
<1> DEFINE m == IF n > 1 THEN n ELSE 1
<1>1. m \in {1, n} /\ \A y \in {1, n} : m >= y
  OBVIOUS
<1>2. \A x \in {1, n} : (\A y \in {1, n} : x >= y) => x = m
  OBVIOUS
<1> QED
  BY <1>1, <1>2 DEF Max

LEMMA MinOfTwo ==
    ASSUME NEW a \in Nat, NEW b \in Nat
    PROVE  Min({a, b}) = IF a =< b THEN a ELSE b
<1> DEFINE m == IF a =< b THEN a ELSE b
<1>1. m \in {a, b} /\ \A y \in {a, b} : m =< y
  OBVIOUS
<1>2. \A x \in {a, b} : (\A y \in {a, b} : x =< y) => x = m
  OBVIOUS
<1> QED
  BY <1>1, <1>2 DEF Min

LEMMA LastOfIs ==
    ASSUME NEW text \in Seq(Symbols)
    PROVE  LET k == IF Len(text) > TailMax THEN Len(text) - TailMax ELSE 0
           IN  /\ LastOf(text) \in Seq(Symbols)
               /\ Len(LastOf(text)) = Len(text) - k
               /\ \A i \in 1 .. Len(text) - k : LastOf(text)[i] = text[i + k]
               /\ Len(LastOf(text)) =< TailMax
<1> DEFINE k == IF Len(text) > TailMax THEN Len(text) - TailMax ELSE 0
<1>1. Len(text) \in Nat /\ TailMax \in Nat
  BY LoadAssumption
<1>2. FirstKept(text) = k + 1 /\ k \in Nat /\ k =< Len(text) /\ Len(text) - k =< TailMax
  BY <1>1, MaxOfTwo DEF FirstKept
<1> HIDE DEF k
<1>3. \A i \in k + 1 .. Len(text) : text[i] \in Symbols
  BY <1>1, <1>2
<1>4. /\ LastOf(text) \in Seq(Symbols)
      /\ Len(LastOf(text)) = IF k + 1 =< Len(text) THEN Len(text) - (k + 1) + 1 ELSE 0
      /\ \A i \in 1 .. Len(text) - (k + 1) + 1 : LastOf(text)[i] = text[(k + 1) + i - 1]
  BY <1>1, <1>2, <1>3, SubSeqProperties DEF LastOf
<1>5. Len(LastOf(text)) = Len(text) - k /\ Len(text) - (k + 1) + 1 = Len(text) - k
  BY <1>1, <1>2, <1>4
<1>6. \A i \in 1 .. Len(text) - k : LastOf(text)[i] = text[i + k]
  BY <1>1, <1>2, <1>4, <1>5
<1> QED
  BY <1>1, <1>2, <1>4, <1>5, <1>6 DEF k

\* What is kept of a reply stays its end, however the reply is cut in chunks.
LEMMA KeepsTheEnd ==
    ASSUME NEW reply \in Seq(Symbols), NEW bytes \in Seq(Symbols)
    PROVE  Keep(LastOf(reply), bytes) = LastOf(reply \o bytes)
<1> DEFINE cut(n) == IF n > TailMax THEN n - TailMax ELSE 0
           tail == LastOf(reply)
           all == tail \o bytes
           whole == reply \o bytes
           k == cut(Len(reply))
           l == cut(Len(all))
           m == cut(Len(whole))
<1>1. Len(reply) \in Nat /\ Len(bytes) \in Nat /\ TailMax \in Nat
  BY LoadAssumption
<1>2. /\ tail \in Seq(Symbols) /\ Len(tail) = Len(reply) - k
      /\ \A i \in 1 .. Len(reply) - k : tail[i] = reply[i + k]
  BY LastOfIs
<1> HIDE DEF tail
<1>3. /\ all \in Seq(Symbols) /\ Len(all) = Len(tail) + Len(bytes)
      /\ \A i \in 1 .. Len(all) : all[i] = IF i =< Len(tail) THEN tail[i] ELSE bytes[i - Len(tail)]
  <2>1. tail \in Seq(Symbols)
    BY <1>2
  <2> QED
    BY <2>1
<1>4. /\ whole \in Seq(Symbols) /\ Len(whole) = Len(reply) + Len(bytes)
      /\ \A i \in 1 .. Len(whole) :
            whole[i] = IF i =< Len(reply) THEN reply[i] ELSE bytes[i - Len(reply)]
  OBVIOUS
<1>5. /\ LastOf(all) \in Seq(Symbols) /\ Len(LastOf(all)) = Len(all) - l
      /\ \A i \in 1 .. Len(all) - l : LastOf(all)[i] = all[i + l]
  BY <1>3, LastOfIs
<1>6. /\ LastOf(whole) \in Seq(Symbols) /\ Len(LastOf(whole)) = Len(whole) - m
      /\ \A i \in 1 .. Len(whole) - m : LastOf(whole)[i] = whole[i + m]
  BY <1>4, LastOfIs
<1>7. /\ k \in Nat /\ l \in Nat /\ m \in Nat /\ m = k + l
      /\ Len(all) = Len(whole) - k /\ k =< Len(reply) /\ l =< Len(all)
      /\ Len(all) \in Nat /\ Len(whole) \in Nat /\ Len(all) - l = Len(whole) - m
  <2>1. /\ k \in Nat /\ k =< Len(reply)
        /\ Len(all) = Len(whole) - k /\ Len(all) \in Nat /\ Len(whole) \in Nat
    BY <1>1, <1>2, <1>3, <1>4
  <2>2. /\ l \in Nat /\ m \in Nat /\ l =< Len(all) /\ m = k + l
    <3>1. \A r, c, t \in Nat : r =< c =>
             LET j == IF r > t THEN r - t ELSE 0
                 h == IF c - j > t THEN (c - j) - t ELSE 0
             IN  h \in Nat /\ h =< c - j /\ (IF c > t THEN c - t ELSE 0) = j + h
      OBVIOUS
    <3>2. Len(reply) =< Len(whole)
      BY <1>1, <1>4
    <3>3. /\ k = IF Len(reply) > TailMax THEN Len(reply) - TailMax ELSE 0
          /\ l = IF Len(whole) - k > TailMax THEN (Len(whole) - k) - TailMax ELSE 0
          /\ m = IF Len(whole) > TailMax THEN Len(whole) - TailMax ELSE 0
      BY <2>1
    <3> HIDE DEF k, l, m
    <3>4. l \in Nat /\ l =< Len(whole) - k /\ m = k + l
      <4>1. LET r == Len(reply)
                c == Len(whole)
                j == IF r > TailMax THEN r - TailMax ELSE 0
                h == IF c - j > TailMax THEN (c - j) - TailMax ELSE 0
            IN  h \in Nat /\ h =< c - j /\ (IF c > TailMax THEN c - TailMax ELSE 0) = j + h
        BY <1>1, <2>1, <3>1, <3>2
      <4> QED
        BY <4>1, <3>3
    <3>5. Len(all) = Len(whole) - k
      BY <2>1
    <3> QED
      BY <2>1, <3>4, <3>5
  <2>3. Len(all) - l = Len(whole) - m
    <3> HIDE DEF k, l, m, all, whole
    <3> QED
      BY <2>1, <2>2
  <2> QED
    BY <2>1, <2>2, <2>3
<1> HIDE DEF tail, all, whole, k, l, m
<1>8. ASSUME NEW i \in 1 .. Len(whole) - m PROVE LastOf(all)[i] = LastOf(whole)[i]
  <2>1. /\ i \in 1 .. Len(all) - l /\ i + l \in 1 .. Len(all) /\ i + m \in 1 .. Len(whole)
        /\ i + m = (i + l) + k /\ (i + l) - Len(tail) = (i + m) - Len(reply)
        /\ i + l =< Len(tail) <=> i + m =< Len(reply)
    <3>1. Len(tail) = Len(reply) - k
      BY <1>2
    <3> QED
      BY <1>1, <1>7, <3>1
  <2>2. LastOf(all)[i] = all[i + l] /\ LastOf(whole)[i] = whole[i + m]
    BY <2>1, <1>5, <1>6
  <2>3. all[i + l] = IF i + l =< Len(tail) THEN tail[i + l] ELSE bytes[(i + l) - Len(tail)]
    BY <1>3, <2>1
  <2>4. whole[i + m] = IF i + m =< Len(reply) THEN reply[i + m] ELSE bytes[(i + m) - Len(reply)]
    BY <1>4, <2>1
  <2>5. i + l =< Len(tail) => tail[i + l] = reply[i + m]
    BY <2>1, <1>2
  <2> QED
    BY <2>1, <2>2, <2>3, <2>4, <2>5
<1>9. LastOf(all) = LastOf(whole)
  <2>1. Len(LastOf(all)) = Len(LastOf(whole))
    BY <1>5, <1>6, <1>7
  <2> QED
    BY <1>5, <1>6, <1>8, <2>1, SeqEqual
<1> QED
  BY <1>9 DEF Keep, LastOf, FirstKept, all, tail, whole

LEMMA NothingKept == LastOf(<< >>) = << >>
<1>1. TailMax \in Nat /\ Len(<< >>) = 0
  BY LoadAssumption
<1>2. FirstKept(<< >>) \in Int /\ FirstKept(<< >>) > Len(<< >>)
  BY <1>1, MaxOfTwo DEF FirstKept
<1> QED
  BY <1>1, <1>2, SubSeqEmpty DEF LastOf

\* A worker r that streams knows the end of its reply, and when it began; at
\* any other place it has none.
StreamOK(r, now) ==
    /\ r.reply \in Seq(Symbols) /\ r.tail = LastOf(r.reply)
    /\ r.at # "stream" => r.reply = << >>
    /\ IF r.reply = << >>
       THEN r.ttft = {}
       ELSE \E t \in 0 .. now - r.from : r.ttft = {t}

StreamsOK == \A w \in Workers : StreamOK(worker[w], clock)

LEMMA BoundedSeqIs ==
    ASSUME NEW S, NEW n \in Nat
    PROVE  \A s : s \in BoundedSeq(S, n) <=> s \in Seq(S) /\ Len(s) =< n
<1>1. ASSUME NEW s, s \in BoundedSeq(S, n) PROVE s \in Seq(S) /\ Len(s) =< n
  <2>1. PICK m \in 0 .. n : s \in [1 .. m -> S]
    BY <1>1 DEF BoundedSeq, SeqOf
  <2>2. m \in Nat /\ s \in Seq(S) /\ Len(s) = m
    BY <2>1
  <2> QED
    BY <2>1, <2>2
<1>2. ASSUME NEW s, s \in Seq(S), Len(s) =< n PROVE s \in BoundedSeq(S, n)
  <2>1. Len(s) \in 0 .. n /\ s \in [1 .. Len(s) -> S]
    BY <1>2
  <2> QED
    BY <2>1 DEF BoundedSeq, SeqOf
<1> QED
  BY <1>1, <1>2

\* Another chunk is in.
LEMMA ChunkKeepsStream ==
    ASSUME LoadGenInv, NEW w \in Workers, StreamOK(worker[w], clock),
           NEW bytes \in Chunks, Chunk(w, bytes)
    PROVE  StreamOK(worker'[w], clock)
<1> DEFINE reply == worker[w].reply
<1>1. /\ worker[w] = [f \in Fields |-> worker[w][f]]
      /\ worker[w].from \in Nat /\ clock \in Nat
      /\ worker = [v \in Workers |-> worker[v]]
  BY DEF LoadGenInv, WorkerTypes, ControlTypes
<1>2. /\ worker'[w].at = "stream" /\ worker'[w].reply = reply \o bytes
      /\ worker'[w].tail = Keep(worker[w].tail, bytes)
      /\ worker'[w].from = worker[w].from
      /\ worker'[w].ttft = IF worker[w].ttft = {} /\ bytes # << >>
                           THEN {Elapsed(w)} ELSE worker[w].ttft
  <2> DEFINE new == [worker[w] EXCEPT !.ttft = IF @ = {} /\ bytes # << >> THEN {Elapsed(w)} ELSE @,
                                      !.tail = Keep(@, bytes),
                                      !.reply = @ \o bytes]
  <2>1. worker'[w] = new /\ worker[w].at = "stream"
    BY <1>1 DEF Chunk, Go
  <2> QED
    BY <1>1, <2>1 DEF Fields
<1>3. bytes \in Seq(Symbols) /\ reply \in Seq(Symbols) /\ reply \o bytes \in Seq(Symbols)
  BY BoundedSeqIs, LoadAssumption DEF Chunks, StreamOK
<1>4. worker'[w].tail = LastOf(worker'[w].reply)
  BY <1>2, <1>3, KeepsTheEnd DEF StreamOK
<1>5. Elapsed(w) \in 0 .. Elapsed(w)
  <2>1. worker[w].from =< clock
    BY AtWork DEF Chunk, WorkerOK
  <2> QED
    BY <1>1, <2>1 DEF Elapsed
<1>6. reply \o bytes = << >> <=> reply = << >> /\ bytes = << >>
  BY <1>3
<1>7. IF reply \o bytes = << >>
      THEN worker'[w].ttft = {}
      ELSE \E t \in 0 .. Elapsed(w) : worker'[w].ttft = {t}
  <2>1. CASE worker[w].ttft = {}
    BY <1>2, <1>5, <1>6, <2>1 DEF StreamOK
  <2>2. CASE worker[w].ttft # {}
    BY <1>2, <1>6, <2>2 DEF StreamOK, Elapsed
  <2> QED
    BY <2>1, <2>2
<1> QED
  BY <1>2, <1>3, <1>4, <1>7 DEF StreamOK, Elapsed

\* A worker that is not reading a stream goes on with nothing read.
LEMMA GoesOnUnread ==
    ASSUME NEW r, NEW new, NEW now, StreamOK(r, now), r.at # "stream",
           new.reply = r.reply, new.tail = r.tail, new.ttft = r.ttft
    PROVE  StreamOK(new, now)
BY DEF StreamOK

LEMMA ReadsNothing ==
    ASSUME LoadGenInv, NEW w \in Workers, Stop(w) \/ Claim(w) \/ Wake(w) \/ Headers(w)
    PROVE  /\ worker[w].at # "stream"
           /\ worker'[w].reply = worker[w].reply /\ worker'[w].tail = worker[w].tail
           /\ worker'[w].ttft = worker[w].ttft
<1> DEFINE Same(new) ==
        new.reply = worker[w].reply /\ new.tail = worker[w].tail /\ new.ttft = worker[w].ttft
<1>1. /\ worker[w] = [f \in Fields |-> worker[w][f]]
      /\ worker = [v \in Workers |-> worker[v]]
  BY DEF LoadGenInv, WorkerTypes
<1>2. worker[w].at # "stream"
  BY DEF Stop, Claim, Wake, Headers
<1>3. \A x, n, f : /\ worker'[w] = [worker[w] EXCEPT !.at = x] => Same(worker'[w])
                   /\ worker'[w] = [worker[w] EXCEPT !.at = x, !.num = n, !.from = f] =>
                         Same(worker'[w])
  BY <1>1 DEF Fields
<1>4. \A new : Go(w, new) => worker'[w] = new
  BY <1>1 DEF Go
<1> HIDE DEF Same
<1>5. Stop(w) \/ Wake(w) \/ Headers(w) => Same(worker'[w])
  BY <1>3, <1>4 DEF Stop, Wake, Headers
<1>6. ASSUME Claim(w) PROVE Same(worker'[w])
  <2>1. worker'[w] = IF OpenLoop
                     THEN [worker[w] EXCEPT !.at = "asleep", !.num = next, !.from = Slot(next)]
                     ELSE [worker[w] EXCEPT !.at = "sending", !.num = next, !.from = clock]
    BY <1>4, <1>6 DEF Claim
  <2> QED
    BY <1>3, <2>1
<1> QED
  BY <1>2, <1>5, <1>6 DEF Same

LEMMA FreshIsUnread == \A now : StreamOK(Fresh, now)
<1>1. << >> \in Seq(Symbols)
  OBVIOUS
<1>2. Fresh.reply = << >> /\ Fresh.tail = << >> /\ Fresh.ttft = {}
  BY DEF Fresh
<1> QED
  BY <1>1, <1>2, NothingKept DEF StreamOK

LEMMA NextStreams ==
    ASSUME LoadGenInv, StreamsOK, [Next]_vars
    PROVE  StreamsOK'
<1>1. \A w \in Workers : /\ StreamOK(worker[w], clock)
                         /\ worker[w] = [f \in Fields |-> worker[w][f]] /\ worker[w].from \in Nat
  BY DEF StreamsOK, LoadGenInv, WorkerTypes
<1>2. worker = [w \in Workers |-> worker[w]] /\ clock \in Nat
  BY DEF LoadGenInv, WorkerTypes, ControlTypes
<1>3. CASE Launch \/ EndWarmup
  <2>1. args' = args /\ worker' = [w \in Workers |-> Fresh]
    BY <1>3 DEF Launch, EndWarmup, BeginPhase
  <2> QED
    BY <2>1, FreshIsUnread DEF StreamsOK, Workers
<1>4. CASE RefuseArgs \/ Join \/ Report \/ Tick \/ UNCHANGED vars
  <2>1. UNCHANGED <<args, worker>> /\ clock' \in Nat /\ clock' >= clock
    BY <1>4, <1>2 DEF RefuseArgs, Join, Report, Tick, phaseVars, vars
  <2>2. Workers' = Workers
    BY <2>1 DEF Workers
  <2>3. ASSUME NEW w \in Workers PROVE StreamOK(worker[w], clock')
    <3>1. worker[w].from \in Nat /\ StreamOK(worker[w], clock)
      BY <1>1
    <3>2. 0 .. clock - worker[w].from \subseteq 0 .. clock' - worker[w].from
      BY <1>2, <2>1, <3>1
    <3> QED
      BY <3>1, <3>2 DEF StreamOK
  <2> QED
    BY <2>1, <2>2, <2>3 DEF StreamsOK
<1>5. ASSUME NEW w \in Workers, Work(w) PROVE StreamsOK'
  <2>1. /\ UNCHANGED <<args, clock>> /\ Workers' = Workers
        /\ \A v \in Workers \ {w} : worker'[v] = worker[v]
    BY <1>2, <1>5 DEF Work, Stop, Claim, Wake, SendFails, Headers, Drained, BodyIn, Breaks, Chunk,
                      EndOfStream, Go, Return, Workers
  <2>2. CASE Stop(w) \/ Claim(w) \/ Wake(w) \/ Headers(w)
    <3>1. /\ worker[w].at # "stream" /\ worker'[w].reply = worker[w].reply
          /\ worker'[w].tail = worker[w].tail /\ worker'[w].ttft = worker[w].ttft
      BY <2>2, ReadsNothing
    <3> QED
      BY <1>1, <2>1, <3>1, GoesOnUnread DEF StreamsOK
  <2>3. ASSUME NEW bytes \in Chunks, Chunk(w, bytes) PROVE StreamsOK'
    BY <1>1, <2>1, <2>3, ChunkKeepsStream DEF StreamsOK
  <2>4. CASE SendFails(w) \/ Drained(w) \/ BodyIn(w) \/ Breaks(w) \/ EndOfStream(w)
    <3>1. worker'[w] = Fresh
      BY <1>2, <2>4 DEF SendFails, Drained, BodyIn, Breaks, EndOfStream, Return
    <3> QED
      BY <1>1, <2>1, <3>1, FreshIsUnread DEF StreamsOK
  <2> QED
    BY <1>5, <2>2, <2>3, <2>4 DEF Work
<1> QED
  BY <1>3, <1>4, <1>5 DEF Next, Main

LEMMA StreamsHold == Spec => [](LoadGenInv /\ StreamsOK)
<1>1. Init => StreamsOK
  BY FreshIsUnread DEF Init, StreamsOK, Workers
<1>2. LoadGenInv /\ StreamsOK /\ [Next]_vars => StreamsOK'
  BY NextStreams
<1> QED
  BY <1>1, <1>2, LoadGenInvHolds, PTL DEF Spec

\* A streamed reply is judged by its last TailMax symbols, wherever its chunks
\* were cut (loadgen.rs:368-370), and a good one is recorded with two clocks,
\* the first byte's no later than the last's.
THEOREM RepliesAreJudgedWhole == Spec => JudgedByWholeReply
<1> DEFINE Judged(w) ==
        worker[w].at = "stream" =>
          LET reply == worker[w].reply
              last  == SubSeq(reply, Max({1, Len(reply) - TailMax + 1}), Len(reply))
          IN  /\ Gains(w, "ok") => HasDone(last)
              /\ Gains(w, "truncated") => ~HasDone(last)
              /\ Gains(w, "ok") => \E t \in 0 .. Elapsed(w) :
                    stats'[w].ttft = stats[w].ttft (+) SetToBag({Sample(t)})
<1>1. ASSUME LoadGenInv, StreamsOK, [Next]_vars, NEW w \in Workers, worker[w].at = "stream"
      PROVE  /\ Gains(w, "ok") => HasDone(LastOf(worker[w].reply))
             /\ Gains(w, "truncated") => ~HasDone(LastOf(worker[w].reply))
             /\ Gains(w, "ok") => \E t \in 0 .. Elapsed(w) :
                   stats'[w].ttft = stats[w].ttft (+) SetToBag({Sample(t)})
  <2>1. /\ StreamOK(worker[w], clock) /\ worker[w].tail = LastOf(worker[w].reply)
        /\ StatsTypes /\ {"ok", "truncated", "transport"} \subseteq Kinds
    BY <1>1 DEF StreamsOK, StreamOK, LoadGenInv, Kinds
  <2>2. ASSUME Gains(w, "ok") \/ Gains(w, "truncated") PROVE EndOfStream(w)
    <3>1. PICK kind \in {"ok", "truncated"} : Gains(w, kind)
      BY <2>2
    <3>2. /\ SendFails(w) \/ Drained(w) \/ BodyIn(w) \/ Breaks(w) \/ EndOfStream(w)
          /\ Return(w, Failure(stats[w], "transport")) => kind = "transport"
      BY <1>1, <2>1, <3>1, Outcome
    <3> QED
      BY <1>1, <3>2 DEF SendFails, Drained, BodyIn, Breaks
  <2>3. ASSUME Gains(w, "truncated") PROVE ~HasDone(worker[w].tail)
    <3>1. Return(w, Success(stats[w], worker[w].ttft, Elapsed(w))) => "truncated" = "ok"
      BY <1>1, <2>1, <2>3, Outcome
    <3> QED
      BY <2>2, <2>3, <3>1 DEF EndOfStream
  <2>4. ASSUME Gains(w, "ok")
        PROVE  /\ HasDone(worker[w].tail)
               /\ stats'[w] = Success(stats[w], worker[w].ttft, Elapsed(w))
    <3>1. /\ Return(w, Failure(stats[w], "truncated")) => "ok" = "truncated"
          /\ Return(w, Success(stats[w], worker[w].ttft, Elapsed(w))) =>
                stats'[w] = Success(stats[w], worker[w].ttft, Elapsed(w))
      BY <1>1, <2>1, <2>4, Outcome
    <3> QED
      BY <2>2, <2>4, <3>1 DEF EndOfStream
  <2>5. ASSUME Gains(w, "ok")
        PROVE  \E t \in 0 .. Elapsed(w) :
                  stats'[w].ttft = stats[w].ttft (+) SetToBag({Sample(t)})
    <3>1. worker[w].reply # << >>
      <4>1. ~HasDone(<< >>)
        BY DEF HasDone
      <4> QED
        BY <2>1, <2>4, <2>5, <4>1, NothingKept
    <3>2. PICK t \in 0 .. Elapsed(w) : worker[w].ttft = {t}
      BY <2>1, <3>1 DEF StreamOK, Elapsed
    <3>3. IsOver(stats[w], Figures) /\ stats'[w] = Success(stats[w], {t}, Elapsed(w))
      BY <2>1, <2>4, <2>5, <3>2 DEF StatsTypes
    <3> QED
      BY <3>2, <3>3, SuccessFirstByte
  <2> QED
    BY <2>1, <2>3, <2>4, <2>5
<1>2. LoadGenInv /\ StreamsOK /\ [Next]_vars => [\A w \in Workers : Judged(w)]_vars
  BY <1>1 DEF LastOf, FirstKept
<1> HIDE DEF Judged
<1>3. Spec => [][\A w \in Workers : Judged(w)]_vars
  BY <1>2, StreamsHold, PTL DEF Spec
<1> QED
  BY <1>3 DEF JudgedByWholeReply, Judged

------------------------------------------------------------------------------
(* The figures: histograms of bounded samples.                              *)

LEMMA SampleIsBounded ==
    ASSUME NEW d \in Nat
    PROVE  Sample(d) \in 0 .. HistMax
<1>1. HistMax \in Nat
  BY LoadAssumption
<1> QED
  BY <1>1, MinOfTwo DEF Sample

LEMMA UnionIsBag ==
    ASSUME NEW A, NEW B, IsABag(A), IsABag(B)
    PROVE  IsABag(A (+) B) /\ DOMAIN (A (+) B) = DOMAIN A \cup DOMAIN B
<1> DEFINE copies(e) == (IF e \in DOMAIN A THEN A[e] ELSE 0) + (IF e \in DOMAIN B THEN B[e] ELSE 0)
<1>1. /\ \A e \in DOMAIN A : A[e] \in Nat /\ A[e] > 0
      /\ \A e \in DOMAIN B : B[e] \in Nat /\ B[e] > 0
  BY DEF IsABag
<1>2. \A e \in DOMAIN A \cup DOMAIN B : copies(e) \in {n \in Nat : n > 0}
  BY <1>1
<1> HIDE DEF copies
<1>3. A (+) B = [e \in DOMAIN A \cup DOMAIN B |-> copies(e)]
  BY DEF (+), copies
<1> QED
  BY <1>2, <1>3 DEF IsABag

LEMMA SetIsBag ==
    ASSUME NEW S
    PROVE  IsABag(SetToBag(S)) /\ DOMAIN SetToBag(S) = S
BY DEF IsABag, SetToBag

LEMMA AddSamples ==
    ASSUME NEW A, IsABag(A), DOMAIN A \subseteq 0 .. HistMax, NEW S, S \subseteq 0 .. HistMax
    PROVE  IsABag(A (+) SetToBag(S)) /\ DOMAIN (A (+) SetToBag(S)) \subseteq 0 .. HistMax
<1>1. IsABag(SetToBag(S)) /\ DOMAIN SetToBag(S) = S
  BY SetIsBag
<1>2. PICK B : B = SetToBag(S)
  OBVIOUS
<1>3. IsABag(A (+) B) /\ DOMAIN (A (+) B) = DOMAIN A \cup DOMAIN B
  BY <1>1, <1>2, UnionIsBag
<1> QED
  BY <1>1, <1>2, <1>3

LEMMA NoStatsIs == IsStats(NoStats) /\ Recorded(NoStats) = 0
<1>1. /\ NoStats.count = [k \in Kinds |-> 0]
      /\ NoStats.ttft = SetToBag({}) /\ NoStats.e2e = SetToBag({})
  BY DEF NoStats, EmptyBag
<1>2. IsABag(SetToBag({})) /\ DOMAIN SetToBag({}) = {}
  BY SetIsBag
<1> QED
  BY <1>1, <1>2 DEF IsStats, Recorded, Failed, Kinds

LEMMA FailureIs ==
    ASSUME NEW s, IsOver(s, Figures), IsStats(s), NEW kind \in Kinds \ {"ok"}
    PROVE  IsStats(Failure(s, kind)) /\ Recorded(Failure(s, kind)) = Recorded(s) + 1
<1>1. /\ Failure(s, kind).count = [s.count EXCEPT ![kind] = @ + 1]
      /\ Failure(s, kind).ttft = s.ttft /\ Failure(s, kind).e2e = s.e2e
  BY DEF Failure, IsOver, Figures
<1>2. s.count \in [Kinds -> Nat]
  BY DEF IsStats
<1>3. IsStats(Failure(s, kind))
  BY <1>1, <1>2 DEF IsStats
<1>4. Recorded(Failure(s, kind)) = Recorded(s) + 1
  BY <1>1, <1>2 DEF Recorded, Failed, Kinds
<1> QED
  BY <1>3, <1>4

LEMMA SuccessIs ==
    ASSUME NEW s, IsOver(s, Figures), IsStats(s), NEW t, t \subseteq Nat, NEW e \in Nat
    PROVE  IsStats(Success(s, t, e)) /\ Recorded(Success(s, t, e)) = Recorded(s) + 1
<1>1. Success(s, t, e).count = [s.count EXCEPT !["ok"] = @ + 1]
  BY DEF Success, IsOver, Figures
<1>2. /\ Success(s, t, e).ttft = s.ttft (+) SetToBag({Sample(x) : x \in t})
      /\ Success(s, t, e).e2e = s.e2e (+) SetToBag({Sample(e)})
  BY DEF Success, IsOver, Figures
<1>3. s.count \in [Kinds -> Nat] /\ "ok" \in Kinds
  BY DEF IsStats, Kinds
<1>4. Recorded(Success(s, t, e)) = Recorded(s) + 1
  BY <1>1, <1>3 DEF Recorded, Failed, Kinds
<1>5. {Sample(x) : x \in t} \subseteq 0 .. HistMax /\ {Sample(e)} \subseteq 0 .. HistMax
  BY SampleIsBounded
<1>6. PICK S, T : S = {Sample(x) : x \in t} /\ T = {Sample(e)}
  OBVIOUS
<1>7. /\ IsABag(s.ttft (+) SetToBag(S)) /\ DOMAIN (s.ttft (+) SetToBag(S)) \subseteq 0 .. HistMax
      /\ IsABag(s.e2e (+) SetToBag(T)) /\ DOMAIN (s.e2e (+) SetToBag(T)) \subseteq 0 .. HistMax
  BY <1>5, <1>6, AddSamples DEF IsStats
<1>8. Success(s, t, e).count \in [Kinds -> Nat]
  BY <1>1, <1>3
<1>9. Success(s, t, e).ttft = s.ttft (+) SetToBag(S) /\ Success(s, t, e).e2e = s.e2e (+) SetToBag(T)
  BY <1>2, <1>6
<1>10. IsStats(Success(s, t, e))
  BY <1>7, <1>8, <1>9 DEF IsStats
<1> QED
  BY <1>4, <1>10

LEMMA MergeIs ==
    ASSUME NEW s, IsStats(s), NEW t, IsStats(t)
    PROVE  IsStats(Merge(s, t)) /\ Recorded(Merge(s, t)) = Recorded(s) + Recorded(t)
<1>1. /\ Merge(s, t).count = [k \in Kinds |-> s.count[k] + t.count[k]]
      /\ Merge(s, t).ttft = s.ttft (+) t.ttft /\ Merge(s, t).e2e = s.e2e (+) t.e2e
  BY DEF Merge
<1>2. s.count \in [Kinds -> Nat] /\ t.count \in [Kinds -> Nat]
  BY DEF IsStats
<1>3. /\ IsABag(s.ttft (+) t.ttft) /\ DOMAIN (s.ttft (+) t.ttft) = DOMAIN s.ttft \cup DOMAIN t.ttft
      /\ IsABag(s.e2e (+) t.e2e) /\ DOMAIN (s.e2e (+) t.e2e) = DOMAIN s.e2e \cup DOMAIN t.e2e
  BY UnionIsBag DEF IsStats
<1>4. Merge(s, t).count \in [Kinds -> Nat]
  BY <1>1, <1>2
<1>5. IsStats(Merge(s, t))
  BY <1>1, <1>3, <1>4 DEF IsStats
<1>6. Recorded(Merge(s, t)) = Recorded(s) + Recorded(t)
  BY <1>1, <1>2 DEF Recorded, Failed, Kinds
<1> QED
  BY <1>5, <1>6

LEMMA RecordedIs == \A s : IsStats(s) => Recorded(s) \in Nat
BY DEF IsStats, Recorded, Failed, Kinds

\* Every histogram holds samples within its range, and main has awaited no
\* more workers than there are.
FiguresOK ==
    /\ \A w \in Workers : IsStats(stats[w])
    /\ IsStats(merged) /\ joined =< args.concurrency

\* What a request is recorded as, wherever it ends.
LEMMA ReturnIs ==
    ASSUME LoadGenInv, StreamsOK, FiguresOK, NEW w \in Workers,
           SendFails(w) \/ Drained(w) \/ BodyIn(w) \/ Breaks(w) \/ EndOfStream(w)
    PROVE  \E s : Return(w, s) /\ IsStats(s) /\ Recorded(s) = Recorded(stats[w]) + 1
<1>1. IsOver(stats[w], Figures) /\ IsStats(stats[w])
  BY DEF LoadGenInv, StatsTypes, FiguresOK
<1>2. worker[w].at \notin {"claim", "asleep", "done"}
  BY DEF SendFails, Drained, BodyIn, Breaks, EndOfStream
<1>3. Elapsed(w) \in Nat
  <2>1. worker[w].from \in Nat /\ clock \in Nat
    BY DEF LoadGenInv, WorkerTypes, ControlTypes
  <2>2. worker[w].from =< clock
    BY <1>2, AtWork DEF WorkerOK
  <2> QED
    BY <2>1, <2>2 DEF Elapsed
<1>4. worker[w].ttft \subseteq Nat /\ {} \subseteq Nat
  BY <1>3 DEF StreamsOK, StreamOK, Elapsed
<1>5. ASSUME NEW kind \in Kinds \ {"ok"}, Return(w, Failure(stats[w], kind))
      PROVE  \E s : Return(w, s) /\ IsStats(s) /\ Recorded(s) = Recorded(stats[w]) + 1
  BY <1>1, <1>5, FailureIs
<1>6. ASSUME NEW t, t \subseteq Nat, Return(w, Success(stats[w], t, Elapsed(w)))
      PROVE  \E s : Return(w, s) /\ IsStats(s) /\ Recorded(s) = Recorded(stats[w]) + 1
  BY <1>1, <1>3, <1>6, SuccessIs
<1>7. CASE SendFails(w) \/ Drained(w) \/ Breaks(w)
  BY <1>5, <1>7 DEF SendFails, Drained, Breaks, Kinds
<1>8. CASE BodyIn(w)
  BY <1>4, <1>6, <1>8 DEF BodyIn
<1>9. CASE EndOfStream(w)
  BY <1>4, <1>5, <1>6, <1>9 DEF EndOfStream, Kinds
<1> QED
  BY <1>7, <1>8, <1>9

LEMMA NextFigures ==
    ASSUME LoadGenInv, StreamsOK, FiguresOK, [Next]_vars
    PROVE  FiguresOK'
<1>1. /\ stats = [w \in Workers |-> stats[w]]
      /\ joined \in Nat /\ args.concurrency \in Nat /\ Workers = 1 .. args.concurrency
  BY ArgTypes DEF LoadGenInv, StatsTypes, ControlTypes, Workers
<1>2. CASE Launch \/ EndWarmup
  <2>1. /\ args' = args /\ stats' = [w \in Workers |-> NoStats]
        /\ merged' = NoStats /\ joined' = 0
    BY <1>2 DEF Launch, EndWarmup, BeginPhase
  <2> QED
    BY <1>1, <2>1, NoStatsIs DEF FiguresOK, Workers
<1>3. CASE Join
  <2>1. /\ joined < args.concurrency /\ joined' = joined + 1 /\ UNCHANGED <<args, stats>>
        /\ merged' = Merge(merged, stats[joined + 1])
    BY <1>3 DEF Join
  <2>2. joined + 1 \in Workers
    BY <1>1, <2>1
  <2>3. IsStats(merged')
    BY <2>1, <2>2, MergeIs DEF FiguresOK
  <2>4. Workers' = Workers /\ joined' =< args'.concurrency
    BY <1>1, <2>1 DEF Workers
  <2> QED
    BY <2>1, <2>3, <2>4 DEF FiguresOK
<1>4. CASE RefuseArgs \/ Report \/ Tick \/ UNCHANGED vars
  <2>1. UNCHANGED <<args, stats, merged, joined>>
    BY <1>4 DEF RefuseArgs, Report, Tick, phaseVars, vars
  <2> QED
    BY <2>1 DEF FiguresOK, Workers
<1>5. ASSUME NEW w \in Workers, Work(w) PROVE FiguresOK'
  <2>1. CASE SendFails(w) \/ Drained(w) \/ BodyIn(w) \/ Breaks(w) \/ EndOfStream(w)
    <3>1. PICK s : Return(w, s) /\ IsStats(s)
      BY <2>1, ReturnIs
    <3>2. /\ UNCHANGED <<args, merged, joined>> /\ Workers' = Workers
          /\ \A v \in Workers : stats'[v] = IF v = w THEN s ELSE stats[v]
      BY <1>1, <3>1 DEF Return, Workers
    <3> QED
      BY <3>1, <3>2 DEF FiguresOK
  <2>2. CASE ~(SendFails(w) \/ Drained(w) \/ BodyIn(w) \/ Breaks(w) \/ EndOfStream(w))
    <3>1. UNCHANGED <<args, stats, merged, joined>>
      BY <1>5, <2>2 DEF Work, Stop, Claim, Wake, Headers, Chunk, Go
    <3> QED
      BY <3>1 DEF FiguresOK, Workers
  <2> QED
    BY <2>1, <2>2
<1> QED
  BY <1>2, <1>3, <1>4, <1>5 DEF Next, Main

LEMMA FiguresHold == Spec => [](LoadGenInv /\ StreamsOK /\ FiguresOK)
<1>1. Init => FiguresOK
  <2> SUFFICES ASSUME Init PROVE FiguresOK
    OBVIOUS
  <2>1. args.concurrency \in Nat
    BY ArgTypes DEF Init
  <2> QED
    BY <2>1, NoStatsIs DEF Init, FiguresOK
<1>2. LoadGenInv /\ StreamsOK /\ FiguresOK /\ [Next]_vars => FiguresOK'
  BY NextFigures
<1> QED
  BY <1>1, <1>2, StreamsHold, PTL DEF Spec

\* Every variable keeps to its type, a histogram's samples within HIST_MAX_US
\* and what is kept of a reply within TailMax among them.
THEOREM TypeCorrect == Spec => []LoadTypeOK
<1>1. LoadGenInv /\ StreamsOK /\ FiguresOK => LoadTypeOK
  <2> SUFFICES ASSUME LoadGenInv, StreamsOK, FiguresOK PROVE LoadTypeOK
    OBVIOUS
  <2>1. /\ args \in Commands /\ main \in {"start", "warmup", "measured", "reported", "failed"}
        /\ clock \in Nat /\ start \in 0 .. clock /\ next \in Nat /\ joined \in 0 .. args.concurrency
    BY ArgTypes DEF LoadGenInv, ControlTypes, FiguresOK
  <2>2. DOMAIN worker = Workers /\ DOMAIN stats = Workers
    BY DEF LoadGenInv, WorkerTypes, StatsTypes
  <2>3. ASSUME NEW w \in Workers
        PROVE  worker[w].at \in Places /\ worker[w].tail \in BoundedSeq(Symbols, TailMax)
    <3>1. worker[w].reply \in Seq(Symbols) /\ worker[w].tail = LastOf(worker[w].reply)
      BY DEF StreamsOK, StreamOK
    <3>2. worker[w].tail \in Seq(Symbols) /\ Len(worker[w].tail) =< TailMax
      BY <3>1, LastOfIs
    <3>3. worker[w].tail \in BoundedSeq(Symbols, TailMax)
      BY <3>2, BoundedSeqIs, LoadAssumption
    <3> QED
      BY <3>3 DEF LoadGenInv, WorkerTypes
  <2> QED
    BY <2>1, <2>2, <2>3 DEF LoadTypeOK, FiguresOK
<1> QED
  BY <1>1, FiguresHold, PTL

------------------------------------------------------------------------------
(* What the figures add up to.                                              *)

\* Each number handed out is with a worker or recorded once; a report is of
\* all of them.
CountsOK ==
    /\ InPhase => args.concurrency > 0
    /\ IsFiniteSet(Unmerged)
    /\ InPhase =>
          Min({next, Total}) = Cardinality(Busy) + Recorded(merged) + Cardinality(Unmerged)
    /\ main = "reported" => Recorded(merged) = args.requests

AllOK == LoadGenInv /\ StreamsOK /\ FiguresOK /\ CountsOK

LEMMA BusyIsFinite ==
    ASSUME LoadGenInv
    PROVE  IsFiniteSet(Busy) /\ Cardinality(Busy) \in Nat
<1>1. IsFiniteSet(Workers)
  <2>1. args.concurrency \in Int /\ 1 \in Int
    BY ArgTypes DEF LoadGenInv, ControlTypes
  <2> QED
    BY <2>1, FS_Interval DEF Workers
<1>2. Busy \in SUBSET Workers
  BY DEF Busy
<1>3. IsFiniteSet(Busy)
  BY <1>1, <1>2, FS_Subset
<1> QED
  BY <1>3, FS_CardinalityType

LEMMA UnmergedIs ==
    \A p : p \in Unmerged <=>
        \E w \in (joined + 1) .. args.concurrency : \E n \in 1 .. Recorded(stats[w]) : p = <<w, n>>
BY DEF Unmerged

\* A phase begins with nothing recorded and nobody at work.
LEMMA PhaseBeginsEmpty ==
    ASSUME AllOK, NEW CONSTANT phase \in {"warmup", "measured"}, BeginPhase(phase),
           args.concurrency > 0
    PROVE  CountsOK'
<1>1. /\ main' = phase /\ next' = 0 /\ joined' = 0 /\ args' = args /\ merged' = NoStats
      /\ worker' = [w \in Workers |-> Fresh] /\ stats' = [w \in Workers |-> NoStats]
      /\ args.concurrency \in Nat /\ args \in Commands
  BY ArgTypes DEF BeginPhase, AllOK, LoadGenInv, ControlTypes
<1>2. Unmerged' = {}
  <2>1. \A w \in (0 + 1) .. args.concurrency : stats'[w] = NoStats
    BY <1>1 DEF Workers
  <2>2. Unmerged' = UNION {{w} \X (1 .. Recorded(stats'[w])) : w \in (0 + 1) .. args.concurrency}
    BY <1>1 DEF Unmerged, Recorded, Failed
  <2> QED
    BY <2>1, <2>2, NoStatsIs
<1>3. Busy' = {}
  BY <1>1, FreshIs DEF Busy, Workers
<1>4. Min({next, Total})' = 0
  <2>1. Total' \in Nat
    BY <1>1, ArgTypes DEF Total
  <2>2. Min({0, Total'}) = 0
    BY <2>1, MinOfTwo
  <2> QED
    BY <1>1, <2>2 DEF Min
<1>5. Recorded(merged)' = 0
  BY <1>1, NoStatsIs DEF Recorded, Failed
<1> QED
  BY <1>1, <1>2, <1>3, <1>4, <1>5, FS_EmptySet DEF CountsOK

\* A number is claimed: one more is out, and one more worker busy.
LEMMA ClaimCounts ==
    ASSUME AllOK, NEW w \in Workers, Claim(w)
    PROVE  CountsOK'
<1>1. /\ InPhase /\ worker[w].at = "claim" /\ next < Total /\ next' = next + 1
      /\ UNCHANGED <<args, main, stats, merged, joined>>
      /\ next \in Nat /\ Total \in Nat /\ Total' = Total
  <2>1. next \in Nat /\ Total \in Nat
    BY ArgTypes DEF AllOK, LoadGenInv, ControlTypes
  <2> QED
    BY <2>1 DEF Claim, Go, Exhausted, Total
<1>2. Busy' = Busy \cup {w} /\ w \notin Busy
  <2>1. /\ worker = [v \in Workers |-> worker[v]]
        /\ worker[w] = [f \in Fields |-> worker[w][f]]
    BY DEF AllOK, LoadGenInv, WorkerTypes
  <2>2. /\ worker'[w].at \notin {"claim", "done"}
        /\ \A v \in Workers \ {w} : worker'[v] = worker[v]
    BY <2>1 DEF Claim, Go, Fields
  <2> QED
    BY <1>1, <2>2 DEF Busy, Workers
<1>3. Cardinality(Busy') = Cardinality(Busy) + 1 /\ Cardinality(Busy) \in Nat
  BY <1>2, BusyIsFinite, FS_AddElement DEF AllOK
<1>4. Min({next', Total}) = Min({next, Total}) + 1
  BY <1>1, MinOfTwo
<1>5. Unmerged' = Unmerged /\ Recorded(merged)' = Recorded(merged) /\ InPhase' = InPhase
  BY <1>1 DEF Unmerged, Recorded, Failed, InPhase
<1>6. Recorded(merged) \in Nat /\ Cardinality(Unmerged) \in Nat
  BY RecordedIs, FS_CardinalityType DEF AllOK, FiguresOK, CountsOK
<1>7. Min({next, Total})' = Cardinality(Busy') + Recorded(merged) + Cardinality(Unmerged)
  <2>1. Min({next, Total}) = Cardinality(Busy) + Recorded(merged) + Cardinality(Unmerged)
    BY <1>1 DEF AllOK, CountsOK
  <2>2. Min({next, Total})' = Min({next', Total})
    BY <1>1 DEF Min
  <2> QED
    BY <1>3, <1>4, <1>6, <2>1, <2>2
<1> QED
  BY <1>1, <1>5, <1>7 DEF AllOK, CountsOK, InPhase

\* A request returns: one worker fewer is busy, and one more is recorded.
LEMMA ReturnCounts ==
    ASSUME AllOK, NEW w \in Workers, worker[w].at \notin {"claim", "done"}, NEW s, Return(w, s),
           IsStats(s), Recorded(s) = Recorded(stats[w]) + 1
    PROVE  CountsOK'
<1>1. /\ UNCHANGED <<args, main, next, merged, joined>>
      /\ \A v \in Workers : stats'[v] = IF v = w THEN s ELSE stats[v]
      /\ \A v \in Workers : worker'[v] = IF v = w THEN Fresh ELSE worker[v]
      /\ joined \in Nat /\ args.concurrency \in Nat /\ Recorded(stats[w]) \in Nat
  BY ArgTypes, RecordedIs
  DEF Return, AllOK, LoadGenInv, StatsTypes, WorkerTypes, ControlTypes, FiguresOK
<1>2. Busy' = Busy \ {w} /\ w \in Busy
  BY <1>1, FreshIs DEF Busy, Workers
<1>3. Cardinality(Busy') = Cardinality(Busy) - 1 /\ Cardinality(Busy) \in Nat
  BY <1>2, BusyIsFinite, FS_RemoveElement DEF AllOK
<1>4. w \in (joined + 1) .. args.concurrency /\ (joined + 1) .. args.concurrency \subseteq Workers
  BY <1>1 DEF Workers, AllOK, LoadGenInv, MainOK
<1> DEFINE last == <<w, Recorded(stats[w]) + 1>>
<1>5. Unmerged' = Unmerged \cup {last} /\ last \notin Unmerged
  <2>1. \A p : p \in Unmerged' <=>
            \E v \in (joined + 1) .. args.concurrency : \E n \in 1 .. Recorded(stats'[v]) : p = <<v, n>>
    BY <1>1 DEF Unmerged, Recorded, Failed
  <2>2. /\ \A v \in Workers \ {w} : Recorded(stats'[v]) = Recorded(stats[v])
        /\ 1 .. Recorded(stats'[w]) = (1 .. Recorded(stats[w])) \cup {Recorded(stats[w]) + 1}
    BY <1>1
  <2>3. last \notin Unmerged
    BY <1>1, UnmergedIs
  <2>4. \A p : p \in Unmerged' => p \in Unmerged \cup {last}
    BY <1>4, <2>1, <2>2, UnmergedIs
  <2>5. \A p : p \in Unmerged \cup {last} => p \in Unmerged'
    BY <1>4, <2>1, <2>2, UnmergedIs
  <2> QED
    BY <2>3, <2>4, <2>5
<1> HIDE DEF last
<1>6. IsFiniteSet(Unmerged)
  BY DEF AllOK, CountsOK
<1>7. /\ IsFiniteSet(Unmerged') /\ Cardinality(Unmerged') = Cardinality(Unmerged) + 1
      /\ Cardinality(Unmerged) \in Nat
  BY <1>5, <1>6, FS_AddElement, FS_CardinalityType
<1>8. /\ Recorded(merged)' = Recorded(merged) /\ Recorded(merged) \in Nat
      /\ InPhase' = InPhase /\ Min({next, Total})' = Min({next, Total})
  BY <1>1, RecordedIs DEF AllOK, FiguresOK, Recorded, Failed, InPhase, Total, Min
<1>9. \A a, m, u \in Nat : (a - 1) + m + (u + 1) = a + m + u
  OBVIOUS
<1> QED
  BY <1>1, <1>3, <1>7, <1>8, <1>9 DEF AllOK, CountsOK, InPhase

\* main joins a worker: what it recorded moves to main's figures.
LEMMA JoinCounts ==
    ASSUME AllOK, Join
    PROVE  CountsOK'
<1> DEFINE w == joined + 1
           own == {w} \X (1 .. Recorded(stats[w]))
<1>1. /\ joined < args.concurrency /\ joined' = w /\ merged' = Merge(merged, stats[w])
      /\ UNCHANGED <<args, main, next, worker, stats>> /\ InPhase
      /\ joined \in Nat /\ args.concurrency \in Nat /\ w \in Workers
  <2>1. joined \in Nat /\ args.concurrency \in Nat
    BY ArgTypes DEF AllOK, LoadGenInv, ControlTypes
  <2> QED
    BY <2>1 DEF Join, Workers
<1>2. /\ IsStats(merged) /\ IsStats(stats[w])
      /\ Recorded(merged) \in Nat /\ Recorded(stats[w]) \in Nat
      /\ Recorded(merged') = Recorded(merged) + Recorded(stats[w])
  BY <1>1, MergeIs, RecordedIs DEF AllOK, FiguresOK
<1>3. IsFiniteSet(own) /\ Cardinality(own) = Recorded(stats[w])
  <2>1. IsFiniteSet({w}) /\ Cardinality({w}) = 1
    BY FS_Singleton
  <2>2. /\ IsFiniteSet(1 .. Recorded(stats[w]))
        /\ Cardinality(1 .. Recorded(stats[w])) = Recorded(stats[w])
    BY <1>2, FS_Interval
  <2> QED
    BY <1>2, <2>1, <2>2, FS_Product
<1>4. Unmerged = Unmerged' \cup own /\ Unmerged' \cap own = {}
  <2>1. \A p : p \in Unmerged' <=>
            \E v \in (w + 1) .. args.concurrency : \E n \in 1 .. Recorded(stats[v]) : p = <<v, n>>
    BY <1>1 DEF Unmerged, Recorded, Failed
  <2>2. /\ \A v \in w .. args.concurrency : v = w \/ v \in (w + 1) .. args.concurrency
        /\ w \in w .. args.concurrency /\ w \notin (w + 1) .. args.concurrency
        /\ (w + 1) .. args.concurrency \subseteq w .. args.concurrency
    BY <1>1
  <2>3. \A p : p \in own <=> \E n \in 1 .. Recorded(stats[w]) : p = <<w, n>>
    OBVIOUS
  <2> HIDE DEF own
  <2>4. \A p : p \in Unmerged <=>
            \E v \in w .. args.concurrency : \E n \in 1 .. Recorded(stats[v]) : p = <<v, n>>
    BY UnmergedIs
  <2> HIDE DEF w
  <2>5. \A p : p \in Unmerged <=> p \in Unmerged' \/ p \in own
    BY <2>1, <2>2, <2>3, <2>4
  <2>6. \A p : ~(p \in Unmerged' /\ p \in own)
    BY <2>1, <2>2, <2>3
  <2> QED
    BY <2>5, <2>6
<1> HIDE DEF own
<1>5. IsFiniteSet(Unmerged') /\ Cardinality(Unmerged') \in Nat
  <2>1. Unmerged' \in SUBSET Unmerged
    BY <1>4
  <2> QED
    BY <2>1, FS_Subset, FS_CardinalityType DEF AllOK, CountsOK
<1>6. Cardinality(Unmerged) = Cardinality(Unmerged') + Recorded(stats[w])
  BY <1>2, <1>3, <1>4, <1>5, FS_Union, FS_EmptySet
<1>7. /\ Recorded(merged)' = Recorded(merged')
      /\ InPhase' = InPhase /\ Min({next, Total})' = Min({next, Total}) /\ Busy' = Busy
  BY <1>1 DEF Recorded, Failed, InPhase, Total, Min, Busy, Workers
<1>8. Cardinality(Busy) \in Nat
  BY BusyIsFinite DEF AllOK
<1>9. \A a, m, r, u \in Nat : a + m + (u + r) = a + (m + r) + u
  OBVIOUS
<1>10. main' # "reported"
  BY <1>1 DEF InPhase
<1> QED
  BY <1>1, <1>2, <1>5, <1>6, <1>7, <1>8, <1>9, <1>10 DEF AllOK, CountsOK

\* The report is of every request: nothing is out and nothing is with a worker.
LEMMA ReportCounts ==
    ASSUME AllOK, Report
    PROVE  CountsOK'
<1>1. /\ main = "measured" /\ joined = args.concurrency /\ main' \in {"failed", "reported"}
      /\ UNCHANGED <<args, clock, start, next, worker, stats, merged, joined>>
      /\ args.concurrency \in Nat /\ args.concurrency > 0 /\ InPhase /\ ~InPhase'
      /\ next \in Nat /\ Total \in Nat /\ Total = args.requests
  <2>1. /\ args.concurrency \in Nat /\ next \in Nat /\ Total \in Nat /\ main = "measured"
    BY ArgTypes DEF AllOK, LoadGenInv, ControlTypes, Report
  <2> QED
    BY <2>1 DEF Report, phaseVars, AllOK, CountsOK, InPhase, Total
<1>2. \A w \in Workers : worker[w].at = "done"
  BY <1>1 DEF Workers, AllOK, LoadGenInv, MainOK
<1>3. Cardinality(Busy) = 0
  BY <1>2, FS_EmptySet DEF Busy
<1>4. Cardinality(Unmerged) = 0
  <2>1. (joined + 1) .. args.concurrency = {}
    BY <1>1
  <2>2. Unmerged = {}
    BY <2>1, UnmergedIs
  <2> QED
    BY <2>2, FS_EmptySet
<1>5. next >= Total
  <2>1. 1 \in Workers
    BY <1>1 DEF Workers
  <2> QED
    BY <1>1, <1>2, <2>1 DEF AllOK, LoadGenInv, WorkerOK
<1>6. Min({next, Total}) = args.requests
  BY <1>1, <1>5, MinOfTwo
<1>7. Recorded(merged) = args.requests
  BY <1>1, <1>3, <1>4, <1>6, RecordedIs DEF AllOK, FiguresOK, CountsOK
<1>8. Unmerged' = Unmerged /\ Recorded(merged)' = Recorded(merged)
  BY <1>1 DEF Unmerged, Recorded, Failed
<1> QED
  BY <1>1, <1>7, <1>8 DEF AllOK, CountsOK

\* A step that leaves the busy, the figures and the numbers alone.
LEMMA OthersCount ==
    ASSUME AllOK, UNCHANGED <<args, stats, merged, joined>>, Busy' = Busy,
           InPhase' => main' = main /\ Min({next, Total})' = Min({next, Total}),
           main' = "reported" => main = "reported"
    PROVE  CountsOK'
<1>1. Unmerged' = Unmerged /\ Recorded(merged)' = Recorded(merged)
  BY DEF Unmerged, Recorded, Failed
<1>2. InPhase' => InPhase
  BY DEF InPhase
<1> QED
  BY <1>1, <1>2 DEF AllOK, CountsOK

LEMMA NextCounts ==
    ASSUME AllOK, [Next]_vars
    PROVE  CountsOK'
<1>1. CASE RefuseArgs \/ Tick \/ UNCHANGED vars
  <2>1. /\ UNCHANGED <<args, next, worker, stats, merged, joined>>
        /\ main' = main \/ main' = "failed"
    BY <1>1 DEF RefuseArgs, Tick, vars, phaseVars
  <2>2. Busy' = Busy /\ (InPhase' => main' = main)
    BY <2>1 DEF Busy, Workers, InPhase
  <2>3. main' = main => Min({next, Total})' = Min({next, Total})
    BY <2>1 DEF Total, Min
  <2> QED
    BY <2>1, <2>2, <2>3, OthersCount
<1>2. CASE Launch
  <2>1. args.concurrency \in Nat /\ args.concurrency # 0
    BY <1>2, ArgTypes DEF AllOK, LoadGenInv, ControlTypes, Launch, BadArgs
  <2>2. args.concurrency > 0
    BY <2>1
  <2> QED
    BY <1>2, <2>2, PhaseBeginsEmpty DEF Launch
<1>3. CASE EndWarmup
  BY <1>3, PhaseBeginsEmpty DEF EndWarmup, AllOK, CountsOK, InPhase
<1>4. CASE Join
  BY <1>4, JoinCounts
<1>5. CASE Report
  BY <1>5, ReportCounts
<1>6. ASSUME NEW w \in Workers, Work(w) PROVE CountsOK'
  <2>1. CASE Claim(w)
    BY <2>1, ClaimCounts
  <2>2. CASE SendFails(w) \/ Drained(w) \/ BodyIn(w) \/ Breaks(w) \/ EndOfStream(w)
    <3>1. worker[w].at \notin {"claim", "done"}
      BY <2>2 DEF SendFails, Drained, BodyIn, Breaks, EndOfStream
    <3>2. PICK s : Return(w, s) /\ IsStats(s) /\ Recorded(s) = Recorded(stats[w]) + 1
      BY <2>2, ReturnIs DEF AllOK
    <3> QED
      BY <3>1, <3>2, ReturnCounts
  <2>3. CASE Stop(w)
    <3>1. /\ UNCHANGED <<args, main, stats, merged, joined>> /\ next >= Total /\ next' = next + 1
          /\ next \in Nat /\ Total \in Nat /\ Total' = Total
      BY <2>3, ArgTypes DEF Stop, Go, Exhausted, Total, AllOK, LoadGenInv, ControlTypes
    <3>2. Min({next', Total}) = Min({next, Total})
      BY <3>1, MinOfTwo
    <3>3. Min({next, Total})' = Min({next', Total})
      BY <3>1 DEF Min
    <3>4. Busy' = Busy
      <4>1. /\ worker'[w].at = "done" /\ worker[w].at = "claim" /\ Workers' = Workers
            /\ \A v \in Workers \ {w} : worker'[v] = worker[v]
        BY <2>3 DEF Stop, Go, Workers, AllOK, LoadGenInv, WorkerTypes, Fields
      <4> QED
        BY <4>1 DEF Busy
    <3> QED
      BY <3>1, <3>2, <3>3, <3>4, OthersCount
  <2>4. CASE Wake(w) \/ Headers(w) \/ \E bytes \in Chunks : Chunk(w, bytes)
    <3>1. /\ UNCHANGED <<args, main, next, stats, merged, joined>>
          /\ worker[w].at \notin {"claim", "done"}
      BY <2>4 DEF Wake, Headers, Chunk, Go
    <3>2. Busy' = Busy
      <4>1. /\ worker = [v \in Workers |-> worker[v]]
            /\ worker[w] = [f \in Fields |-> worker[w][f]]
        BY DEF AllOK, LoadGenInv, WorkerTypes
      <4>2. Workers' = Workers /\ \A v \in Workers \ {w} : worker'[v] = worker[v]
        BY <2>4, <4>1 DEF Wake, Headers, Chunk, Go, Workers
      <4>3. worker'[w].at \notin {"claim", "done"}
        <5>1. Wake(w) => worker'[w].at = "sending"
          BY <4>1 DEF Wake, Go, Fields
        <5>2. Headers(w) => worker'[w].at \in {"rejected", "httpError", "stream", "body"}
          BY <4>1 DEF Headers, Go, Fields
        <5>3. \A bytes \in Chunks : Chunk(w, bytes) => worker'[w].at = "stream"
          BY <4>1 DEF Chunk, Go, Fields
        <5> QED
          BY <2>4, <5>1, <5>2, <5>3
      <4> QED
        BY <3>1, <4>2, <4>3 DEF Busy
    <3>3. Min({next, Total})' = Min({next, Total})
      BY <3>1 DEF Total, Min
    <3> QED
      BY <3>1, <3>2, <3>3, OthersCount
  <2> QED
    BY <1>6, <2>1, <2>2, <2>3, <2>4 DEF Work
<1> QED
  BY <1>1, <1>2, <1>3, <1>4, <1>5, <1>6 DEF Next, Main

LEMMA InitCounts == Init => CountsOK
<1> SUFFICES ASSUME Init PROVE CountsOK
  OBVIOUS
<1>1. Unmerged = {}
  <2>1. \A w \in (joined + 1) .. args.concurrency : stats[w] = NoStats
    BY DEF Init, Workers
  <2> QED
    BY <2>1, NoStatsIs DEF Unmerged
<1> QED
  BY <1>1, FS_EmptySet DEF CountsOK, Init, InPhase

\* "No two workers can ever claim the same number" (loadgen.rs:261-262), and
\* each number handed out is with one worker, in one worker's figures or in
\* main's: the report is of as many requests as were asked for.
THEOREM RequestsAreCountedOnce == Spec => []EachRequestOnce
<1>1. Spec => [](LoadGenInv /\ StreamsOK /\ FiguresOK /\ CountsOK)
  <2>1. LoadGenInv /\ StreamsOK /\ FiguresOK /\ CountsOK /\ [Next]_vars => CountsOK'
    BY NextCounts DEF AllOK
  <2> QED
    BY <2>1, InitCounts, FiguresHold, PTL DEF Spec
<1>2. LoadGenInv /\ CountsOK => EachRequestOnce
  BY DEF LoadGenInv, ClaimsUnique, CountsOK, EachRequestOnce
<1> QED
  BY <1>1, <1>2, PTL
==============================================================================
