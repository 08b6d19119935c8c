---------------------------- MODULE FrameCounter ----------------------------
(***************************************************************************)
(* FrameCounter of src/src/lib.rs, which counts the SSE frames of a reply  *)
(* that carry a token, whatever chunks the bytes arrive in.                *)
(*                                                                         *)
(* The stream is a sequence of symbols, pieces of text that matter to the  *)
(* count: "data:" comes in two of them, since a chunk may end in the       *)
(* middle of it.  A loop pass of feed() is a step.                         *)
(***************************************************************************)
EXTENDS Integers, Sequences, FiniteSets, SequencesExt

CONSTANTS MaxPartial,  \* MAX_PARTIAL, in symbols
          MaxChunk,    \* BOUND: symbols of a chunk
          MaxSent      \* BOUND: symbols of the stream

ASSUME FrameAssumption == MaxPartial \in Nat /\ MaxChunk \in Nat /\ MaxSent \in Nat

\* The two halves of "data:", which anywhere else stand for any other text,
\* white space ('\r' is such), "[DONE]", and the end of a line.
Symbols == {"da", "ta:", "sp", "done", "nl"}

Chunks == UNION {[1 .. n -> Symbols] : n \in 1 .. MaxChunk}

VARIABLES partial,  \* FrameCounter.partial
          rest,     \* what feed() has not consumed of its chunk
          feeding,  \* feed() is running
          counted,  \* the sum of what feed() has returned and its n
          sent      \* history: the stream so far

vars == <<partial, rest, feeding, counted, sent>>

Init ==
    /\ partial = << >> /\ rest = << >> /\ feeding = FALSE
    /\ counted = 0 /\ sent = << >>

Blank(s) == \A n \in DOMAIN s : s[n] = "sp"

\* payload.trim_ascii() == "[DONE]".  (The '\r' count_line() strips from the end
\* of the line would go with the rest of the white space.)
IsDone(payload) ==
    \E n \in DOMAIN payload :
        /\ payload[n] = "done"
        /\ Blank(SubSeq(payload, 1, n - 1)) /\ Blank(SubSeq(payload, n + 1, Len(payload)))

Payload(line) == SubSeq(line, 3, Len(line))

\* Mutation of CountLine: [DONE] is taken for a token.
CountLineDone(line) == IF IsPrefix(<<"da", "ta:">>, line) THEN 1 ELSE 0

CountLine(line) ==
    IF IsPrefix(<<"da", "ta:">>, line) /\ ~IsDone(Payload(line)) THEN 1 ELSE 0

BeginFeed(chunk) ==
    /\ ~feeding
    /\ Len(sent) + Len(chunk) =< MaxSent
    /\ rest' = chunk
    /\ feeding' = TRUE
    /\ sent' = sent \o chunk
    /\ UNCHANGED <<partial, counted>>

\* Where the first line of `rest` ends; 0 if it does not.
Newline == SelectInSeq(rest, LAMBDA s : s = "nl")

\* Mutation of EndLine: what was carried over is not cleared.
EndLineKeeps ==
    /\ feeding /\ Newline > 0
    /\ partial' = partial \o SubSeq(rest, 1, Newline - 1)
    /\ counted' = counted + CountLine(partial')
    /\ rest' = SubSeq(rest, Newline + 1, Len(rest))
    /\ UNCHANGED <<feeding, sent>>

\* One pass of the loop: a line is complete, with what was carried over.
EndLine ==
    /\ feeding /\ Newline > 0
    /\ counted' = counted + CountLine(partial \o SubSeq(rest, 1, Newline - 1))
    /\ partial' = << >>
    /\ rest' = SubSeq(rest, Newline + 1, Len(rest))
    /\ UNCHANGED <<feeding, sent>>

\* After the loop: the incomplete line is carried over, unless it is too long.
Carry ==
    /\ feeding /\ Newline = 0
    /\ partial' = IF Len(partial) + Len(rest) =< MaxPartial THEN partial \o rest ELSE partial
    /\ rest' = << >> /\ feeding' = FALSE
    /\ UNCHANGED <<counted, sent>>

Next ==
    \/ \E chunk \in Chunks : BeginFeed(chunk)
    \/ EndLine
    \/ Carry

Spec == Init /\ [][Next]_vars

------------------------------------------------------------------------------
(* Properties.                                                              *)

Ends == {e \in 1 .. Len(sent) : sent[e] = "nl"}

\* The complete lines of the stream: where each starts, and where it has ended.
Lines ==
    {p \in ({1} \cup {e + 1 : e \in Ends}) \X Ends :
        p[1] =< p[2] /\ Ends \cap p[1] .. p[2] = {p[2]}}

\* "data:" and a payload that is not "[DONE]" and white space.
IsTokenFrame(line) ==
    LET payload == Payload(line)
        text    == {n \in DOMAIN payload : payload[n] # "sp"}
    IN  /\ line = <<"da", "ta:">> \o payload
        /\ \A n \in text : payload[n] = "done" => text # {n}

TokenFrames == {p \in Lines : IsTokenFrame(SubSeq(sent, p[1], p[2] - 1))}

TooLong == {p \in Lines : p[2] - p[1] > MaxPartial}

\* "Counts SSE `data:` frames that carry a token, across arbitrary chunk
\* boundaries" (lib.rs:273-276): as long as no line is too long, each is
\* counted once, when its line is complete, however the bytes are cut.
CountsEachFrameOnce ==
    ~feeding /\ TooLong = {} => counted = Cardinality(TokenFrames)

\* A line too long to carry over may be taken for a frame or not, and has no
\* effect on the lines around it (lib.rs:284-285, 301-303).
LongLinesCostThemselves ==
    ~feeding => /\ counted =< Cardinality(TokenFrames) + Cardinality(TooLong)
                /\ Cardinality(TokenFrames) =< counted + Cardinality(TooLong)
==============================================================================
