------------------------------ MODULE MCLoadGen ------------------------------
(* One worker that streams, two that do not, in open and closed loop.       *)
EXTENDS LoadGen

Command(concurrency, requests, warmup, stream, rps) ==
    [concurrency |-> concurrency, requests |-> requests, warmup |-> warmup,
     stream |-> stream, rps |-> rps]

MCCommands ==
    {Command(2, 3, 1, FALSE, "valid"), Command(2, 2, 2, FALSE, "none"),
     Command(2, 4, 0, FALSE, "valid"),
     Command(1, 2, 0, TRUE, "valid"),
     Command(0, 1, 0, FALSE, "none"), Command(1, 1, 0, FALSE, "invalid")}
==============================================================================
