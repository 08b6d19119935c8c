------------------------------- MODULE LoadGen -------------------------------
(***************************************************************************)
(* src/src/bin/loadgen.rs: a warm-up phase and a measured phase, each a    *)
(* pool of workers that claim request numbers from a shared counter, send, *)
(* and keep statistics of their own, which main merges as it joins them.   *)
(* In open loop request i is due Interval * i after the phase's start, and *)
(* its latency counts from there.                                          *)
(*                                                                         *)
(* A worker is a task that runs between awaits in one step.  The gateway   *)
(* may answer anything, in chunks of any size, or break off.               *)
(***************************************************************************)
EXTENDS Integers, SequencesExt

CONSTANTS Commands,  \* command lines: the Args considered
          Interval,  \* 1 / rps
          HistMax,   \* HIST_MAX_US
          TailMax,   \* how much of a reply's end is kept: 64 bytes
          MaxTime,   \* BOUND: how long the clock runs in a phase; no less than the last slot
          MaxChunk,  \* BOUND: symbols of a chunk
          MaxReply   \* BOUND: symbols of a streamed reply

ASSUME LoadAssumption ==
    /\ Commands \subseteq [concurrency : Nat, requests : Nat, warmup : Nat, stream : BOOLEAN,
                           rps : {"none", "valid", "invalid"}]
    /\ {Interval, HistMax, TailMax, MaxTime, MaxChunk, MaxReply} \subseteq Nat

VARIABLES args,
          main,     \* where main() is
          clock,    \* Instant::now()
          start,    \* phase_start
          next,     \* the shared counter
          worker,   \* what each worker is at
          stats,    \* each worker's Stats
          merged,   \* main's
          joined    \* how many workers main has awaited

phaseVars == <<start, next, worker, stats, merged, joined>>
vars == <<args, main, clock, phaseVars>>

Workers == 1 .. args.concurrency

Kinds == {"ok", "rejected", "httpError", "transport", "truncated"}

\* "asleep" until the request is due, "sending" until the headers are in;
\* "rejected" and "httpError" read the body of such an answer, "body" and
\* "stream" that of a good one.
Places == {"claim", "asleep", "sending", "rejected", "httpError", "body", "stream", "done"}

\* "[DONE]" is two symbols, as it may be cut in two; "x" is any other text.
Symbols == {"[DO", "NE]", "x"}
Chunks == BoundedSeq(Symbols, MaxChunk)

\* A worker between two requests.  `num` is its request, `from` the instant
\* measured from, `ttft` holds the first byte's latency once there is one,
\* `tail` the end of the reply, and `reply` (history) all of it.
Fresh == [at |-> "claim", num |-> 0, from |-> 0, ttft |-> {}, tail |-> << >>, reply |-> << >>]

\* A histogram is a bag of samples.
NoStats == [count |-> [k \in Kinds |-> 0], ttft |-> EmptyBag, e2e |-> EmptyBag]

IsStats(s) ==
    /\ s.count \in [Kinds -> Nat]
    /\ IsABag(s.ttft) /\ IsABag(s.e2e)
    /\ DOMAIN s.ttft \cup DOMAIN s.e2e \subseteq 0 .. HistMax

LoadTypeOK ==
    /\ args \in Commands
    /\ main \in {"start", "warmup", "measured", "reported", "failed"}
    /\ clock \in Nat /\ start \in 0 .. clock
    /\ next \in Nat /\ joined \in 0 .. args.concurrency
    /\ DOMAIN worker = Workers /\ DOMAIN stats = Workers
    /\ \A w \in Workers :
          /\ worker[w].at \in Places /\ worker[w].tail \in BoundedSeq(Symbols, TailMax)
          /\ IsStats(stats[w])
    /\ IsStats(merged)

Init ==
    /\ args \in Commands
    /\ main = "start" /\ clock = 0 /\ start = 0 /\ next = 0 /\ joined = 0
    /\ worker = [w \in Workers |-> Fresh]
    /\ stats = [w \in Workers |-> NoStats]
    /\ merged = NoStats

------------------------------------------------------------------------------
(* Stats.                                                                   *)

\* Mutation of Sample: record() without saturation.
SampleUnclamped(d) == d

\* What saturating_record() makes of a duration.
Sample(d) == Min({d, HistMax})

Failure(s, kind) == [s EXCEPT !.count[kind] = @ + 1]

Success(s, ttft, e2e) ==
    [s EXCEPT !.count["ok"] = @ + 1,
              !.ttft = @ (+) SetToBag({Sample(t) : t \in ttft}),
              !.e2e = @ (+) SetToBag({Sample(e2e)})]

Failed(s) ==
    s.count["rejected"] + s.count["httpError"] + s.count["transport"] + s.count["truncated"]

Merge(s, t) ==
    [count |-> [k \in Kinds |-> s.count[k] + t.count[k]],
     ttft |-> s.ttft (+) t.ttft, e2e |-> s.e2e (+) t.e2e]

------------------------------------------------------------------------------
(* main().                                                                  *)

BeginPhase(phase) ==
    /\ main' = phase
    /\ start' = clock /\ next' = 0 /\ joined' = 0
    /\ worker' = [w \in Workers |-> Fresh]
    /\ stats' = [w \in Workers |-> NoStats]
    /\ merged' = NoStats
    /\ UNCHANGED <<args, clock>>

BadArgs == args.concurrency = 0 \/ args.rps = "invalid"

RefuseArgs ==
    /\ main = "start" /\ BadArgs
    /\ main' = "failed"
    /\ UNCHANGED <<args, clock, phaseVars>>

Launch ==
    /\ main = "start" /\ ~BadArgs
    /\ BeginPhase(IF args.warmup > 0 THEN "warmup" ELSE "measured")

InPhase == main \in {"warmup", "measured"}

\* `h.await`, in the order of the handles.
Join ==
    /\ InPhase /\ joined < args.concurrency /\ worker[joined + 1].at = "done"
    /\ merged' = Merge(merged, stats[joined + 1])
    /\ joined' = joined + 1
    /\ UNCHANGED <<args, main, clock, start, next, worker, stats>>

EndWarmup ==
    /\ main = "warmup" /\ joined = args.concurrency
    /\ BeginPhase("measured")

Report ==
    /\ main = "measured" /\ joined = args.concurrency
    /\ main' = IF merged.count["ok"] = 0 THEN "failed" ELSE "reported"
    /\ UNCHANGED <<args, clock, phaseVars>>

------------------------------------------------------------------------------
(* A worker's loop.                                                         *)

Total == IF main = "warmup" THEN args.warmup ELSE args.requests

OpenLoop == main = "measured" /\ args.rps = "valid"

Due(i) == start + i * Interval

Go(w, new) ==
    /\ worker' = [worker EXCEPT ![w] = new]
    /\ UNCHANGED <<args, main, clock, start, stats, merged, joined>>

\* Mutation of Exhausted: one number too many.
ExhaustedLate == next > Total

Exhausted == next >= Total

Stop(w) ==
    /\ InPhase /\ worker[w].at = "claim" /\ Exhausted
    /\ next' = next + 1
    /\ Go(w, [worker[w] EXCEPT !.at = "done"])

\* Mutation of Slot: an interval after the last request, not after the last slot.
SlotFromNow(i) == clock + Interval

Slot(i) == Due(i)

Claim(w) ==
    /\ InPhase /\ worker[w].at = "claim" /\ ~Exhausted
    /\ next' = next + 1
    /\ Go(w, IF OpenLoop
             THEN [worker[w] EXCEPT !.at = "asleep", !.num = next, !.from = Slot(next)]
             ELSE [worker[w] EXCEPT !.at = "sending", !.num = next, !.from = clock])

\* Mutations of Wake: the clock starts when the request is sent; a slot that is
\* past is waited for.
WakeAndStartClock(w) ==
    /\ worker[w].at = "asleep" /\ worker[w].from =< clock
    /\ Go(w, [worker[w] EXCEPT !.at = "sending", !.from = clock])
    /\ UNCHANGED next

WakeOnTheTick(w) ==
    /\ worker[w].at = "asleep" /\ worker[w].from = clock
    /\ Go(w, [worker[w] EXCEPT !.at = "sending"])
    /\ UNCHANGED next

\* sleep_until() returns, at once when the slot is past.
Wake(w) ==
    /\ worker[w].at = "asleep" /\ worker[w].from =< clock
    /\ Go(w, [worker[w] EXCEPT !.at = "sending"])
    /\ UNCHANGED next

------------------------------------------------------------------------------
(* one_request(), and record() of what it returns.                          *)

Return(w, s) ==
    /\ stats' = [stats EXCEPT ![w] = s]
    /\ worker' = [worker EXCEPT ![w] = Fresh]
    /\ UNCHANGED <<args, main, clock, start, next, merged, joined>>

Elapsed(w) == clock - worker[w].from

SendFails(w) ==
    /\ worker[w].at = "sending"
    /\ Return(w, Failure(stats[w], "transport"))

Headers(w) ==
    /\ worker[w].at = "sending"
    /\ \E place \in {"rejected", "httpError", IF args.stream THEN "stream" ELSE "body"} :
          Go(w, [worker[w] EXCEPT !.at = place])
    /\ UNCHANGED next

\* The body of a refusal is in, or broke off: either way it is a refusal.
Drained(w) ==
    /\ worker[w].at \in {"rejected", "httpError"}
    /\ Return(w, Failure(stats[w], worker[w].at))

BodyIn(w) ==
    /\ worker[w].at = "body"
    /\ Return(w, Success(stats[w], {}, Elapsed(w)))

Breaks(w) ==
    /\ worker[w].at \in {"body", "stream"}
    /\ Return(w, Failure(stats[w], "transport"))

\* Mutation of Keep: only the last chunk is kept.
KeepChunk(tail, bytes) == SubSeq(bytes, Max({1, Len(bytes) - TailMax + 1}), Len(bytes))

Keep(tail, bytes) ==
    LET all == tail \o bytes
    IN  SubSeq(all, Max({1, Len(all) - TailMax + 1}), Len(all))

Chunk(w, bytes) ==
    /\ worker[w].at = "stream"
    /\ Len(worker[w].reply) + Len(bytes) =< MaxReply
    /\ Go(w, [worker[w] EXCEPT !.ttft = IF @ = {} /\ bytes # << >> THEN {Elapsed(w)} ELSE @,
                               !.tail = Keep(@, bytes),
                               !.reply = @ \o bytes])
    /\ UNCHANGED next

HasDone(text) == \E n \in 1 .. Len(text) - 1 : text[n] = "[DO" /\ text[n + 1] = "NE]"

EndOfStream(w) ==
    /\ worker[w].at = "stream"
    /\ Return(w, IF HasDone(worker[w].tail)
                 THEN Success(stats[w], worker[w].ttft, Elapsed(w))
                 ELSE Failure(stats[w], "truncated"))

------------------------------------------------------------------------------

Work(w) ==
    \/ Stop(w) \/ Claim(w) \/ Wake(w)
    \/ SendFails(w) \/ Headers(w) \/ Drained(w) \/ BodyIn(w) \/ Breaks(w)
    \/ \E bytes \in Chunks : Chunk(w, bytes)
    \/ EndOfStream(w)

Main == RefuseArgs \/ Launch \/ Join \/ EndWarmup \/ Report

Tick ==
    /\ InPhase /\ clock - start < MaxTime
    /\ clock' = clock + 1
    /\ UNCHANGED <<args, main, phaseVars>>

Next == Main \/ Tick \/ \E w \in Workers : Work(w)

\* The runtime polls its tasks and time passes.  A reply comes, ends or breaks
\* off: the client has a timeout.
Fairness ==
    /\ WF_vars(Main) /\ WF_vars(Tick)
    /\ \A w \in 1 .. Max({c.concurrency : c \in Commands}) : WF_vars(w \in Workers /\ Work(w))

Spec == Init /\ [][Next]_vars /\ Fairness

------------------------------------------------------------------------------
(* Properties.                                                              *)

Busy == {w \in Workers : worker[w].at \notin {"claim", "done"}}

Recorded(s) == s.count["ok"] + Failed(s)

\* What the workers not joined yet have recorded: <<w, n>> is w's n-th request.
Unmerged == UNION {{w} \X (1 .. Recorded(stats[w])) : w \in (joined + 1) .. args.concurrency}

\* "No two workers can ever claim the same number" (loadgen.rs:261-262), and
\* none goes missing: each number handed out is with one worker or in one
\* worker's statistics, and these reach the report once, whenever they end.
EachRequestOnce ==
    /\ \A v, w \in Busy : v # w => worker[v].num # worker[w].num
    /\ InPhase =>
          Min({next, Total}) = Cardinality(Busy) + Recorded(merged) + Cardinality(Unmerged)
    /\ main = "reported" => Recorded(merged) = args.requests

\* "Nobody sits idle while there is work left" (loadgen.rs:251-254), in open
\* loop too, where a worker claims before it sleeps: while one sleeps, no
\* request that is due waits for a worker.
NobodyIdle ==
    InPhase => \A w \in Workers :
        /\ worker[w].at = "done" => next >= Total
        /\ worker[w].at = "asleep" /\ worker[w].from > clock => next >= Total \/ Due(next) > clock

Gains(w, kind) == stats'[w].count[kind] > stats[w].count[kind]

\* No coordinated omission (loadgen.rs:18-23): in open loop a latency counts
\* from the request's place in the schedule, however late a worker came to it
\* and however late the one before it ended.
LatencyFromSchedule ==
    [][\A w \in Workers : OpenLoop /\ Gains(w, "ok") =>
          /\ clock >= Due(worker[w].num)
          /\ stats'[w].e2e = stats[w].e2e (+) SetToBag({Sample(clock - Due(worker[w].num))})]_vars

\* A streamed reply is good or truncated by its last TailMax symbols, wherever
\* its chunks were cut (loadgen.rs:368-370), and a good one has two clocks, the
\* first byte's no later than the last's.
JudgedByWholeReply ==
    [][\A w \in Workers : worker[w].at = "stream" =>
          LET reply == worker[w].reply
              last  == SubSeq(reply, Max({1, Len(reply) - TailMax + 1}), Len(reply))
          IN  /\ Gains(w, "ok") => HasDone(last)
              /\ Gains(w, "truncated") => ~HasDone(last)
              /\ Gains(w, "ok") => \E t \in 0 .. Elapsed(w) :
                    stats'[w].ttft = stats[w].ttft (+) SetToBag({Sample(t)})]_vars

\* The program ends: no worker waits for a slot or a number for ever, and main
\* for no worker.
RunEnds == <>(main \in {"reported", "failed"})
==============================================================================
