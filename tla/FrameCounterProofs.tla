------------------------- MODULE FrameCounterProofs -------------------------
(***************************************************************************)
(* Theorems about FrameCounter, for streams and chunks of any length.      *)
(*                                                                         *)
(* The invariant says what `partial` and `counted` are in terms of the     *)
(* stream read so far, which is what makes them independent of the chunks: *)
(* `partial` is the line under way unless that is too long, and `counted`  *)
(* is the size of some set of complete lines that differs from the token   *)
(* frames by lines too long at most.                                       *)
(***************************************************************************)
EXTENDS FrameCounter, SequenceTheorems, FiniteSetTheorems, TLAPS

\* How much of the stream feed() has been through.
Read == Len(sent) - Len(rest)

Text(a, b) == SubSeq(sent, a, b)

\* The line under way starts at s.
Starts(s) ==
    /\ s \in 1 .. Read + 1
    /\ s = 1 \/ sent[s - 1] = "nl"
    /\ \A n \in s .. Read : sent[n] # "nl"

LinesRead == {p \in Lines : p[2] =< Read}

Types ==
    /\ partial \in Seq(Symbols) /\ rest \in Seq(Symbols) /\ sent \in Seq(Symbols)
    /\ feeding \in BOOLEAN /\ counted \in Nat
    /\ ~feeding => rest = << >>

RestOK == Len(rest) =< Len(sent) /\ \A n \in 1 .. Len(rest) : rest[n] = sent[Read + n]

PartialOK ==
    \E s \in 1 .. Read + 1 :
        Starts(s) /\ (partial = Text(s, Read) \/ Read + 1 - s > MaxPartial)

\* The lines in C are counted.
Counted(C) ==
    /\ C \subseteq LinesRead /\ counted = Cardinality(C)
    /\ \A p \in LinesRead :
          p[2] - p[1] =< MaxPartial => (p \in C <=> IsTokenFrame(Text(p[1], p[2] - 1)))

FrameInv == Types /\ RestOK /\ PartialOK /\ \E C \in SUBSET LinesRead : Counted(C)

------------------------------------------------------------------------------
(* Sequences, and where a line ends.                                        *)

\* If no number of T were the least, subtracting one would map the numbers up
\* to t that have one of T below them into themselves and miss t.
LEMMA LeastOf ==
    ASSUME NEW T, T \subseteq Nat, T # {}
    PROVE  Min(T) \in T /\ \A n \in T : Min(T) =< n
<1>1. ASSUME \A m \in T : \E n \in T : n < m PROVE FALSE
  <2>1. PICK t \in T : TRUE
    OBVIOUS
  <2> DEFINE S == {x \in 0 .. t : \E n \in T : n =< x}
             down == [x \in S |-> x - 1]
  <2>2. t \in Nat /\ t \in S
    BY <2>1
  <2>3. IsFiniteSet(S)
    <3>1. IsFiniteSet(0 .. t) /\ S \in SUBSET (0 .. t)
      BY <2>2, FS_Interval
    <3> QED
      BY <3>1, FS_Subset
  <2>4. \A x \in S : x - 1 \in S
    <3> SUFFICES ASSUME NEW x \in S PROVE x - 1 \in S
      OBVIOUS
    <3>1. PICK n \in T : n =< x
      OBVIOUS
    <3>2. PICK m \in T : m < n
      BY <1>1
    <3> QED
      BY <2>2, <3>1, <3>2
  <2>5. down \in Injection(S, S)
    BY <2>4 DEF Injection, IsInjective
  <2>6. down \in Surjection(S, S)
    BY <2>3, <2>5, FS_Injection
  <2>7. PICK x \in S : down[x] = t
    BY <2>2, <2>6 DEF Surjection
  <2> QED
    BY <2>2, <2>7
<1>2. PICK m \in T : \A n \in T : ~(n < m)
  BY <1>1
<1>3. \A n \in T : m =< n
  BY <1>2
<1> QED
  BY <1>3 DEF Min

LEMMA NewlineIsFirst ==
    ASSUME rest \in Seq(Symbols)
    PROVE  /\ Newline \in 0 .. Len(rest)
           /\ Newline = 0 => \A n \in 1 .. Len(rest) : rest[n] # "nl"
           /\ Newline > 0 => /\ rest[Newline] = "nl"
                             /\ \A n \in 1 .. Newline - 1 : rest[n] # "nl"
<1> DEFINE I == {n \in 1 .. Len(rest) : rest[n] = "nl"}
<1>1. Newline = IF I # {} THEN Min(I) ELSE 0
  BY DEF Newline, SelectInSeq
<1>2. Len(rest) \in Nat /\ I \subseteq Nat
  OBVIOUS
<1>3. CASE I = {}
  BY <1>1, <1>2, <1>3
<1>4. CASE I # {}
  <2>1. Newline \in I /\ \A n \in I : Newline =< n
    BY <1>1, <1>2, <1>4, LeastOf
  <2> QED
    BY <1>2, <2>1
<1> QED
  BY <1>3, <1>4

\* A complete line by its symbols: from a to the newline at b.
LineAt(a, b) ==
    /\ b \in 1 .. Len(sent) /\ sent[b] = "nl" /\ a \in 1 .. b
    /\ a = 1 \/ sent[a - 1] = "nl"
    /\ \A n \in a .. b - 1 : sent[n] # "nl"

LEMMA LineSymbols == sent \in Seq(Symbols) => \A a, b : <<a, b>> \in Lines <=> LineAt(a, b)
<1> SUFFICES ASSUME sent \in Seq(Symbols), NEW a, NEW b
             PROVE  <<a, b>> \in Lines <=> LineAt(a, b)
  OBVIOUS
<1>1. Len(sent) \in Nat
  OBVIOUS
<1>2. \A n : n \in Ends <=> n \in 1 .. Len(sent) /\ sent[n] = "nl"
  BY DEF Ends
<1>3. <<a, b>> \in Lines <=>
         a \in {1} \cup {e + 1 : e \in Ends} /\ b \in Ends /\ a =< b /\ Ends \cap a .. b = {b}
  BY DEF Lines
<1>4. a \in {1} \cup {e + 1 : e \in Ends} <=>
         a = 1 \/ (a \in 2 .. Len(sent) + 1 /\ sent[a - 1] = "nl")
  BY <1>1, <1>2
<1>5. ASSUME b \in Ends, a \in 1 .. b
      PROVE  Ends \cap a .. b = {b} <=> \A n \in a .. b - 1 : sent[n] # "nl"
  BY <1>1, <1>2, <1>5
<1> QED
  BY <1>1, <1>2, <1>3, <1>4, <1>5 DEF LineAt

LEMMA LineSymbolsAfter ==
    (sent \in Seq(Symbols) => \A a, b : <<a, b>> \in Lines <=> LineAt(a, b))'
BY LineSymbols, PTL

LEMMA LinesArePairs == \A p \in Lines : p = <<p[1], p[2]>>
BY DEF Lines

LEMMA LinesAreFinite ==
    ASSUME sent \in Seq(Symbols)
    PROVE  IsFiniteSet(Lines)
<1> DEFINE N == 1 .. Len(sent)
<1>1. Len(sent) \in Nat
  OBVIOUS
<1>2. \A p \in Lines : p \in N \X N
  BY <1>1, LinesArePairs, LineSymbols DEF LineAt
<1>3. IsFiniteSet(N)
  BY <1>1, FS_Interval
<1>4. IsFiniteSet(N \X N)
  BY <1>3, FS_Product
<1> QED
  BY <1>2, <1>4, FS_Subset

\* At one end only one line ends.
LEMMA OneStart ==
    ASSUME sent \in Seq(Symbols), NEW p \in Lines, NEW r \in Lines, p[2] = r[2]
    PROVE  p = r
<1>1. /\ p = <<p[1], p[2]>> /\ r = <<r[1], r[2]>>
  BY LinesArePairs
<1>2. /\ p[2] \in 1 .. Len(sent) /\ p[1] \in 1 .. p[2] /\ (p[1] = 1 \/ sent[p[1] - 1] = "nl")
      /\ \A n \in p[1] .. p[2] - 1 : sent[n] # "nl"
  BY <1>1, LineSymbols DEF LineAt
<1>3. /\ r[2] \in 1 .. Len(sent) /\ r[1] \in 1 .. r[2] /\ (r[1] = 1 \/ sent[r[1] - 1] = "nl")
      /\ \A n \in r[1] .. r[2] - 1 : sent[n] # "nl"
  BY <1>1, LineSymbols DEF LineAt
<1>4. p[1] = r[1]
  BY <1>2, <1>3
<1> QED
  BY <1>1, <1>4

LEMMA SameText ==
    ASSUME NEW s \in Seq(Symbols), NEW t \in Seq(Symbols), NEW a \in Nat \ {0}, NEW b \in Int,
           b =< Len(s), b =< Len(t), \A n \in a .. b : s[n] = t[n]
    PROVE  SubSeq(s, a, b) = SubSeq(t, a, b) /\ SubSeq(s, a, b) \in Seq(Symbols)
<1>1. \A n \in a .. b : s[n] \in Symbols /\ t[n] \in Symbols
  BY ElementOfSeq
<1>2. /\ SubSeq(s, a, b) \in Seq(Symbols)
      /\ Len(SubSeq(s, a, b)) = IF a =< b THEN b - a + 1 ELSE 0
      /\ \A i \in 1 .. b - a + 1 : SubSeq(s, a, b)[i] = s[a + i - 1]
  BY <1>1, SubSeqProperties
<1>3. /\ SubSeq(t, a, b) \in Seq(Symbols)
      /\ Len(SubSeq(t, a, b)) = IF a =< b THEN b - a + 1 ELSE 0
      /\ \A i \in 1 .. b - a + 1 : SubSeq(t, a, b)[i] = t[a + i - 1]
  BY <1>1, SubSeqProperties
<1>4. \A i \in 1 .. Len(SubSeq(s, a, b)) : SubSeq(s, a, b)[i] = SubSeq(t, a, b)[i]
  BY <1>2, <1>3
<1> QED
  BY <1>2, <1>3, <1>4, SeqEqual

LEMMA ConcatIs ==
    ASSUME NEW u \in Seq(Symbols), NEW v \in Seq(Symbols), NEW w \in Seq(Symbols),
           Len(w) = Len(u) + Len(v),
           \A i \in 1 .. Len(u) : w[i] = u[i],
           \A i \in 1 .. Len(v) : w[Len(u) + i] = v[i]
    PROVE  u \o v = w
<1>1. /\ u \o v \in Seq(Symbols) /\ Len(u \o v) = Len(w) /\ Len(u) \in Nat /\ Len(v) \in Nat
      /\ \A i \in 1 .. Len(u) + Len(v) :
            (u \o v)[i] = IF i =< Len(u) THEN u[i] ELSE v[i - Len(u)]
  BY ConcatProperties
<1>2. ASSUME NEW i \in 1 .. Len(w) PROVE (u \o v)[i] = w[i]
  <2>1. CASE i =< Len(u)
    BY <1>1, <2>1
  <2>2. CASE i > Len(u)
    <3>1. i - Len(u) \in 1 .. Len(v) /\ Len(u) + (i - Len(u)) = i
      BY <1>1, <2>2
    <3> QED
      BY <1>1, <2>2, <3>1
  <2> QED
    BY <1>1, <2>1, <2>2
<1> QED
  BY <1>1, <1>2, SeqEqual

\* What is carried over and what follows it in `rest` are adjacent in the stream.
LEMMA Joined ==
    ASSUME Types, RestOK, NEW s \in 1 .. Read + 1, NEW m \in 0 .. Len(rest)
    PROVE  /\ Text(s, Read) \o SubSeq(rest, 1, m) = Text(s, Read + m)
           /\ Text(s, Read) \in Seq(Symbols) /\ Text(s, Read + m) \in Seq(Symbols)
           /\ Len(Text(s, Read)) = Read + 1 - s
<1>1. /\ Len(sent) \in Nat /\ Len(rest) \in Nat /\ Read \in 0 .. Len(sent)
      /\ Read + m \in 0 .. Len(sent) /\ Read + Len(rest) = Len(sent)
      /\ sent \in Seq(Symbols) /\ rest \in Seq(Symbols)
  BY DEF Types, RestOK, Read
<1>2. \A n \in 1 .. Len(sent) : sent[n] \in Symbols
  BY <1>1, ElementOfSeq
<1>3. \A n \in 1 .. m : rest[n] = sent[Read + n] /\ rest[n] \in Symbols
  BY <1>1, <1>2 DEF RestOK
<1>4. /\ Text(s, Read) \in Seq(Symbols) /\ Len(Text(s, Read)) = Read + 1 - s
      /\ \A i \in 1 .. Read + 1 - s : Text(s, Read)[i] = sent[s + i - 1]
  BY <1>1, <1>2, SubSeqProperties DEF Text
<1>5. /\ Text(s, Read + m) \in Seq(Symbols) /\ Len(Text(s, Read + m)) = Read + m + 1 - s
      /\ \A i \in 1 .. Read + m + 1 - s : Text(s, Read + m)[i] = sent[s + i - 1]
  BY <1>1, <1>2, SubSeqProperties DEF Text
<1>6. /\ SubSeq(rest, 1, m) \in Seq(Symbols) /\ Len(SubSeq(rest, 1, m)) = m
      /\ \A i \in 1 .. m : SubSeq(rest, 1, m)[i] = rest[i]
  BY <1>1, <1>3, SubSeqProperties
<1>7. \A i \in 1 .. Read + 1 - s : Text(s, Read + m)[i] = Text(s, Read)[i]
  BY <1>1, <1>4, <1>5
<1>8. ASSUME NEW i \in 1 .. m
      PROVE  Text(s, Read + m)[Read + 1 - s + i] = SubSeq(rest, 1, m)[i]
  <2>1. /\ Read + 1 - s + i \in 1 .. Read + m + 1 - s
        /\ s + (Read + 1 - s + i) - 1 = Read + i
    BY <1>1
  <2> QED
    BY <1>3, <1>5, <1>6, <2>1
<1>9. Text(s, Read) \o SubSeq(rest, 1, m) = Text(s, Read + m)
  <2> DEFINE u == Text(s, Read)
             v == SubSeq(rest, 1, m)
             w == Text(s, Read + m)
  <2>1. Len(w) = Len(u) + Len(v)
    <3>1. Read + m + 1 - s = (Read + 1 - s) + m
      BY <1>1
    <3> QED
      BY <1>4, <1>5, <1>6, <3>1
  <2>2. /\ \A i \in 1 .. Len(u) : w[i] = u[i]
        /\ \A i \in 1 .. Len(v) : w[Len(u) + i] = v[i]
    BY <1>4, <1>6, <1>7, <1>8
  <2>3. u \in Seq(Symbols) /\ v \in Seq(Symbols) /\ w \in Seq(Symbols)
    BY <1>4, <1>5, <1>6
  <2>4. u \o v = w
    <3> HIDE DEF u, v, w
    <3> QED
      BY <2>1, <2>2, <2>3, ConcatIs
  <2> QED
    BY <2>4
<1> QED
  BY <1>4, <1>5, <1>9

\* count_line() on a whole line tells the token frames.
LEMMA CountLineCounts ==
    ASSUME NEW line \in Seq(Symbols)
    PROVE  CountLine(line) = IF IsTokenFrame(line) THEN 1 ELSE 0
<1> DEFINE payload == Payload(line)
           mark == <<"da", "ta:">>
           text == {n \in DOMAIN payload : payload[n] # "sp"}
<1>1. mark \in Seq(Symbols) /\ Len(mark) = 2 /\ SubSeq(mark, 1, 2) = mark /\ Len(line) \in Nat
  <2>1. mark \in Seq(Symbols) /\ Len(mark) = 2
    BY DEF Symbols
  <2>2. SubSeq(mark, 1, Len(mark)) = mark
    <3> HIDE DEF mark
    <3> QED
      BY <2>1, SubSeqFull
  <2> QED
    BY <2>1, <2>2
<1>2. \A n \in 1 .. Len(line) : line[n] \in Symbols
  BY ElementOfSeq
<1>3. /\ payload \in Seq(Symbols)
      /\ Len(payload) = IF 3 =< Len(line) THEN Len(line) - 2 ELSE 0
      /\ \A i \in 1 .. Len(line) - 2 : payload[i] = line[i + 2]
  BY <1>1, <1>2, SubSeqProperties DEF Payload
<1>4. IsPrefix(mark, line) <=> line = mark \o payload
  <2>1. CASE Len(line) < 2
    BY <1>1, <1>3, <2>1, ConcatProperties DEF IsPrefix
  <2>2. CASE Len(line) >= 2
    <3>1. /\ SubSeq(line, 1, 2) \in Seq(Symbols) /\ Len(SubSeq(line, 1, 2)) = 2
          /\ SubSeq(line, 1, 2)[1] = line[1] /\ SubSeq(line, 1, 2)[2] = line[2]
      BY <1>1, <1>2, <2>2, SubSeqProperties
    <3>2. /\ mark \o payload \in Seq(Symbols) /\ Len(mark \o payload) = Len(line)
          /\ (mark \o payload)[1] = "da" /\ (mark \o payload)[2] = "ta:"
          /\ \A i \in 3 .. Len(line) : (mark \o payload)[i] = line[i]
      BY <1>1, <1>3, <2>2, ConcatProperties
    <3>3. IsPrefix(mark, line) <=> line[1] = "da" /\ line[2] = "ta:"
      BY <1>1, <2>2, <3>1 DEF IsPrefix
    <3>4. ASSUME line[1] = "da", line[2] = "ta:" PROVE line = mark \o payload
      <4>1. \A i \in 1 .. Len(line) : line[i] = (mark \o payload)[i]
        BY <1>1, <3>2, <3>4
      <4> QED
        BY <3>2, <4>1, SeqEqual
    <3> QED
      BY <3>2, <3>3, <3>4
  <2> QED
    BY <1>1, <2>1, <2>2
<1>5. IsDone(payload) <=> \E n \in text : payload[n] = "done" /\ text = {n}
  <2>1. DOMAIN payload = 1 .. Len(payload) /\ Len(payload) \in Nat
    BY <1>3
  <2>2. ASSUME NEW n \in 1 .. Len(payload)
        PROVE  /\ Blank(SubSeq(payload, 1, n - 1)) <=> \A i \in 1 .. n - 1 : payload[i] = "sp"
               /\ Blank(SubSeq(payload, n + 1, Len(payload)))
                     <=> \A i \in n + 1 .. Len(payload) : payload[i] = "sp"
    <3>1. \A i \in 1 .. Len(payload) : payload[i] \in Symbols
      BY <1>3, ElementOfSeq
    <3>2. /\ DOMAIN SubSeq(payload, 1, n - 1) = 1 .. n - 1
          /\ \A i \in 1 .. n - 1 : SubSeq(payload, 1, n - 1)[i] = payload[i]
      BY <2>1, <3>1, SubSeqProperties
    <3>3. /\ DOMAIN SubSeq(payload, n + 1, Len(payload)) = 1 .. Len(payload) - n
          /\ \A i \in 1 .. Len(payload) - n :
                SubSeq(payload, n + 1, Len(payload))[i] = payload[n + i]
      BY <2>1, <3>1, SubSeqProperties
    <3>4. Blank(SubSeq(payload, n + 1, Len(payload)))
             <=> \A i \in 1 .. Len(payload) - n : payload[n + i] = "sp"
      BY <3>3 DEF Blank
    <3>5. ASSUME \A i \in 1 .. Len(payload) - n : payload[n + i] = "sp",
                 NEW i \in n + 1 .. Len(payload)
          PROVE  payload[i] = "sp"
      <4>1. i - n \in 1 .. Len(payload) - n /\ n + (i - n) = i
        BY <2>1
      <4> QED
        BY <3>5, <4>1
    <3>6. ASSUME \A i \in n + 1 .. Len(payload) : payload[i] = "sp",
                 NEW i \in 1 .. Len(payload) - n
          PROVE  payload[n + i] = "sp"
      BY <2>1, <3>6
    <3>7. Blank(SubSeq(payload, 1, n - 1)) <=> \A i \in 1 .. n - 1 : payload[i] = "sp"
      BY <3>2 DEF Blank
    <3> QED
      BY <3>4, <3>5, <3>6, <3>7
  <2>3. ASSUME NEW n \in 1 .. Len(payload), payload[n] = "done"
        PROVE  text = {n} <=> /\ \A i \in 1 .. n - 1 : payload[i] = "sp"
                              /\ \A i \in n + 1 .. Len(payload) : payload[i] = "sp"
    BY <2>1, <2>3
  <2> QED
    BY <2>1, <2>2, <2>3 DEF IsDone
<1>6. IsTokenFrame(line) <=>
         line = mark \o payload /\ \A n \in text : payload[n] = "done" => text # {n}
  BY DEF IsTokenFrame
<1>7. IsTokenFrame(line) <=> IsPrefix(mark, line) /\ ~IsDone(payload)
  BY <1>4, <1>5, <1>6
<1> QED
  BY <1>7 DEF CountLine

------------------------------------------------------------------------------
(* The invariant.                                                           *)

LEMMA Bounds ==
    ASSUME Types, RestOK
    PROVE  /\ Len(sent) \in Nat /\ Len(rest) \in Nat /\ Read \in 0 .. Len(sent)
           /\ Read + Len(rest) = Len(sent)
BY DEF Types, RestOK, Read

LEMMA InitFrameInv == Init => FrameInv
<1> SUFFICES ASSUME Init PROVE FrameInv
  OBVIOUS
<1>1. Types /\ RestOK /\ Read = 0
  <2>1. << >> \in Seq(Symbols) /\ Len(<< >>) = 0
    BY EmptySeq
  <2>2. Read = 0
    BY <2>1 DEF Init, Read
  <2>3. Types
    BY <2>1 DEF Init, Types
  <2>4. RestOK
    BY <2>1 DEF Init, RestOK
  <2> QED
    BY <2>2, <2>3, <2>4
<1>2. Starts(1) /\ partial = Text(1, Read)
  <2>1. Text(1, 0) = << >>
    BY SubSeqEmpty DEF Text
  <2>2. sent = << >> /\ partial = << >>
    BY DEF Init
  <2> QED
    BY <1>1, <2>1, <2>2 DEF Starts
<1>3. LinesRead = {}
  <2>1. Ends = {}
    BY DEF Init, Ends
  <2> QED
    BY <2>1 DEF LinesRead, Lines
<1>4. Counted({})
  BY <1>3, FS_EmptySet DEF Init, Counted
<1> QED
  BY <1>1, <1>2, <1>4 DEF FrameInv, PartialOK

\* What the stream holds as far as it was read does not change with what follows.
LEMMA BeginFeedKeeps ==
    ASSUME FrameInv, NEW chunk \in Chunks, BeginFeed(chunk)
    PROVE  FrameInv'
<1>1. Types /\ RestOK
  BY DEF FrameInv
<1>2. /\ sent \in Seq(Symbols) /\ rest = << >> /\ rest' = chunk /\ sent' = sent \o chunk
      /\ partial' = partial /\ counted' = counted /\ feeding' = TRUE
  BY <1>1 DEF BeginFeed, Types
<1>3. chunk \in Seq(Symbols)
  BY SeqDef, FrameAssumption DEF Chunks
<1>4. /\ sent' \in Seq(Symbols) /\ Len(sent') = Len(sent) + Len(chunk)
      /\ Len(sent) \in Nat /\ Len(chunk) \in Nat
      /\ \A i \in 1 .. Len(sent) + Len(chunk) :
            sent'[i] = IF i =< Len(sent) THEN sent[i] ELSE chunk[i - Len(sent)]
  BY <1>2, <1>3, ConcatProperties
<1>5. Read = Len(sent) /\ Read' = Len(sent)
  BY <1>2, <1>4 DEF Read
<1>6. \A n \in 1 .. Read : sent'[n] = sent[n]
  BY <1>4, <1>5
<1>7. Types'
  BY <1>1, <1>2, <1>3, <1>4 DEF Types
<1>8. RestOK'
  <2>1. \A n \in 1 .. Len(chunk) : chunk[n] = sent'[Len(sent) + n]
    BY <1>4
  <2> QED
    BY <1>2, <1>4, <1>5, <2>1 DEF RestOK
<1>9. \A a \in Nat \ {0}, b \in Int : b =< Read => Text(a, b)' = Text(a, b)
  <2> SUFFICES ASSUME NEW a \in Nat \ {0}, NEW b \in Int, b =< Read PROVE Text(a, b)' = Text(a, b)
    OBVIOUS
  <2>1. \A n \in a .. b : sent'[n] = sent[n]
    BY <1>4, <1>5, <1>6
  <2>2. b =< Len(sent) /\ b =< Len(sent')
    BY <1>4, <1>5
  <2> QED
    BY <1>2, <1>4, <2>1, <2>2, SameText DEF Text
<1>10. PartialOK'
  <2>1. PICK s \in 1 .. Read + 1 :
            Starts(s) /\ (partial = Text(s, Read) \/ Read + 1 - s > MaxPartial)
    BY DEF FrameInv, PartialOK
  <2>2. s \in 1 .. Read' + 1 /\ Read' = Read
    BY <1>5, <2>1
  <2>3. Starts(s)'
    BY <1>4, <1>5, <1>6, <2>1 DEF Starts
  <2>4. Text(s, Read)' = Text(s, Read)
    BY <1>4, <1>5, <1>9, <2>1
  <2> QED
    BY <1>2, <2>1, <2>2, <2>3, <2>4 DEF PartialOK
<1>11. LinesRead' = LinesRead
  <2>1. ASSUME NEW a, NEW b
        PROVE  <<a, b>> \in LinesRead' <=> <<a, b>> \in LinesRead
    <3>1. <<a, b>> \in Lines' <=> LineAt(a, b)'
      BY <1>4, LineSymbolsAfter
    <3>2. <<a, b>> \in Lines <=> LineAt(a, b)
      BY <1>2, LineSymbols
    <3>3. ASSUME b \in 1 .. Read, a \in 1 .. b
          PROVE  /\ sent'[b] = sent[b] /\ (a # 1 => sent'[a - 1] = sent[a - 1])
                 /\ \A n \in a .. b - 1 : sent'[n] = sent[n]
      BY <1>4, <1>5, <1>6, <3>3
    <3>4. LineAt(a, b)' /\ b =< Read <=> LineAt(a, b) /\ b =< Read
      BY <1>4, <1>5, <3>3 DEF LineAt
    <3> QED
      BY <1>5, <3>1, <3>2, <3>4 DEF LinesRead
  <2>2. \A p \in LinesRead : p = <<p[1], p[2]>>
    BY LinesArePairs DEF LinesRead
  <2>3. \A p \in LinesRead' : p = <<p[1], p[2]>>
    BY LinesArePairs DEF LinesRead, Lines
  <2> QED
    BY <2>1, <2>2, <2>3
<1>12. PICK C \in SUBSET LinesRead : Counted(C)
  BY DEF FrameInv
<1>13. Counted(C)'
  <2>1. \A p \in LinesRead : Text(p[1], p[2] - 1)' = Text(p[1], p[2] - 1)
    <3> SUFFICES ASSUME NEW p \in LinesRead PROVE Text(p[1], p[2] - 1)' = Text(p[1], p[2] - 1)
      OBVIOUS
    <3>1. p = <<p[1], p[2]>> /\ p \in Lines /\ p[2] =< Read
      BY LinesArePairs DEF LinesRead
    <3>2. p[2] \in 1 .. Len(sent) /\ p[1] \in 1 .. p[2]
      BY <1>2, <3>1, LineSymbols DEF LineAt
    <3> QED
      BY <1>4, <1>5, <1>9, <3>1, <3>2
  <2> QED
    BY <1>2, <1>11, <1>12, <2>1 DEF Counted
<1> QED
  BY <1>7, <1>8, <1>10, <1>11, <1>13 DEF FrameInv

\* The line that EndLine completes is the one under way.
LEMMA NextLine ==
    ASSUME Types, RestOK, Newline > 0, NEW s, Starts(s)
    PROVE  /\ <<s, Read + Newline>> \in Lines
           /\ \A p \in Lines : p[2] =< Read + Newline => p[2] =< Read \/ p = <<s, Read + Newline>>
<1> DEFINE e == Read + Newline
<1>1. /\ Len(sent) \in Nat /\ Len(rest) \in Nat /\ Read \in 0 .. Len(sent)
      /\ Read + Len(rest) = Len(sent) /\ sent \in Seq(Symbols) /\ rest \in Seq(Symbols)
  BY Bounds DEF Types
<1>2. /\ Newline \in 1 .. Len(rest) /\ rest[Newline] = "nl"
      /\ \A n \in 1 .. Newline - 1 : rest[n] # "nl"
  BY <1>1, NewlineIsFirst
<1>3. e \in Read + 1 .. Len(sent) /\ sent[e] = "nl"
  BY <1>1, <1>2 DEF RestOK
<1>4. ASSUME NEW n \in Read + 1 .. e - 1 PROVE sent[n] # "nl"
  <2>1. n - Read \in 1 .. Newline - 1 /\ n - Read \in 1 .. Len(rest) /\ Read + (n - Read) = n
    BY <1>1, <1>2
  <2> QED
    BY <1>2, <2>1 DEF RestOK
<1>5. \A n \in s .. e - 1 : sent[n] # "nl"
  BY <1>1, <1>3, <1>4 DEF Starts
<1>6. s \in 1 .. e /\ (s = 1 \/ sent[s - 1] = "nl")
  BY <1>1, <1>3 DEF Starts
<1>7. <<s, e>> \in Lines
  <2>1. LineAt(s, e)
    BY <1>1, <1>3, <1>5, <1>6 DEF LineAt
  <2> QED
    BY <1>1, <2>1, LineSymbols
<1>8. ASSUME NEW p \in Lines, p[2] =< e, ~(p[2] =< Read) PROVE p = <<s, e>>
  <2>1. p = <<p[1], p[2]>> /\ p[2] \in 1 .. Len(sent) /\ sent[p[2]] = "nl"
    BY <1>1, LinesArePairs, LineSymbols DEF LineAt
  <2>2. p[2] = e
    BY <1>1, <1>3, <1>4, <1>8, <2>1
  <2> QED
    BY <1>1, <1>7, <2>2, OneStart
<1> QED
  BY <1>7, <1>8

LEMMA EndLineKeepsInv ==
    ASSUME FrameInv, EndLine
    PROVE  FrameInv'
<1>1. /\ Types /\ RestOK /\ Newline > 0
      /\ Len(sent) \in Nat /\ Len(rest) \in Nat /\ Read \in 0 .. Len(sent)
      /\ Read + Len(rest) = Len(sent)
      /\ sent \in Seq(Symbols) /\ rest \in Seq(Symbols) /\ partial \in Seq(Symbols)
  BY Bounds DEF FrameInv, EndLine, Types
<1>2. /\ counted' = counted + CountLine(partial \o SubSeq(rest, 1, Newline - 1)) /\ partial' = << >>
      /\ rest' = SubSeq(rest, Newline + 1, Len(rest)) /\ feeding' = feeding /\ sent' = sent
      /\ feeding
  BY DEF EndLine
<1>3. Newline \in 1 .. Len(rest)
  BY <1>1, NewlineIsFirst
<1>4. \A n \in 1 .. Len(rest) : rest[n] \in Symbols
  BY <1>1, ElementOfSeq
<1> PICK e \in Nat : e = Read + Newline
  BY <1>1, <1>3
<1>5. /\ rest' \in Seq(Symbols) /\ Len(rest') = Len(rest) - Newline
      /\ \A i \in 1 .. Len(rest) - Newline : rest'[i] = rest[Newline + i]
  <2> DEFINE after == SubSeq(rest, Newline + 1, Len(rest))
  <2>1. /\ after \in Seq(Symbols)
        /\ Len(after) = IF Newline + 1 =< Len(rest) THEN Len(rest) - (Newline + 1) + 1 ELSE 0
        /\ \A i \in 1 .. Len(rest) - (Newline + 1) + 1 : after[i] = rest[Newline + 1 + i - 1]
    BY <1>1, <1>3, <1>4, SubSeqProperties
  <2>2. ASSUME NEW i \in 1 .. Len(rest) - Newline PROVE after[i] = rest[Newline + i]
    <3>1. i \in 1 .. Len(rest) - (Newline + 1) + 1 /\ Newline + 1 + i - 1 = Newline + i
      BY <1>1, <1>3
    <3> QED
      BY <2>1, <3>1
  <2>3. Len(after) = Len(rest) - Newline
    BY <1>1, <1>3, <2>1
  <2> QED
    BY <1>2, <2>1, <2>2, <2>3
<1>6. Read' = e /\ e \in 1 .. Len(sent)
  <2>1. Read' = Len(sent) - (Len(rest) - Newline)
    BY <1>2, <1>5 DEF Read
  <2> QED
    BY <1>1, <1>3, <2>1
<1>7. /\ SubSeq(rest, 1, Newline - 1) \in Seq(Symbols)
      /\ Len(SubSeq(rest, 1, Newline - 1)) = Newline - 1
  BY <1>1, <1>3, <1>4, SubSeqProperties
<1>8. partial \o SubSeq(rest, 1, Newline - 1) \in Seq(Symbols)
  BY <1>1, <1>7, ConcatProperties
<1> PICK line \in Seq(Symbols) : line = partial \o SubSeq(rest, 1, Newline - 1)
  BY <1>8
<1>9. CountLine(line) = IF IsTokenFrame(line) THEN 1 ELSE 0
  BY CountLineCounts
<1>10. Types'
  BY <1>1, <1>2, <1>5, <1>9 DEF Types
<1>11. RestOK'
  <2>1. \A n \in 1 .. Len(rest) - Newline : rest'[n] = sent[e + n]
    <3> SUFFICES ASSUME NEW n \in 1 .. Len(rest) - Newline PROVE rest'[n] = sent[e + n]
      OBVIOUS
    <3>1. Newline + n \in 1 .. Len(rest) /\ Read + (Newline + n) = e + n
      BY <1>1, <1>3
    <3>2. rest[Newline + n] = sent[Read + (Newline + n)]
      BY <1>1, <3>1 DEF RestOK
    <3>3. rest'[n] = rest[Newline + n]
      BY <1>5
    <3> QED
      BY <3>1, <3>2, <3>3
  <2> QED
    <3>1. Len(rest') =< Len(sent)
      BY <1>1, <1>3, <1>5
    <3> QED
      BY <1>2, <1>5, <1>6, <2>1, <3>1 DEF RestOK
<1>12. PICK s \in 1 .. Read + 1 :
          Starts(s) /\ (partial = Text(s, Read) \/ Read + 1 - s > MaxPartial)
  BY DEF FrameInv, PartialOK
<1>13. /\ <<s, e>> \in Lines
       /\ \A p \in Lines : p[2] =< e => p[2] =< Read \/ p = <<s, e>>
  BY <1>1, <1>12, NextLine
<1>14. PartialOK'
  <2>1. sent[e] = "nl"
    BY <1>1, <1>13, LineSymbols DEF LineAt
  <2>2. Starts(e + 1)'
    <3>1. e + 1 \in 1 .. Read' + 1 /\ (e + 1) - 1 = e /\ e + 1 .. Read' = {}
      BY <1>6
    <3> QED
      BY <1>2, <2>1, <3>1 DEF Starts
  <2>3. Text(e + 1, e) = << >>
    BY <1>6, SubSeqEmpty DEF Text
  <2>4. Text(e + 1, Read)' = << >>
    BY <1>2, <1>6, <2>3 DEF Text
  <2>5. e + 1 \in 1 .. Read' + 1
    BY <1>1, <1>6
  <2> QED
    BY <1>2, <2>2, <2>4, <2>5 DEF PartialOK
<1>15. LinesRead' = LinesRead \cup {<<s, e>>} /\ <<s, e>> \notin LinesRead
  <2>1. Lines' = Lines
    BY <1>2 DEF Lines, Ends
  <2>2. \A p \in Lines : p[2] =< Read => p[2] =< e
    <3> SUFFICES ASSUME NEW p \in Lines, p[2] =< Read PROVE p[2] =< e
      OBVIOUS
    <3>1. p[2] \in 1 .. Len(sent)
      BY <1>1, LinesArePairs, LineSymbols DEF LineAt
    <3> QED
      BY <1>1, <1>3, <3>1
  <2>3. ~(e =< Read) /\ e =< e
    BY <1>1, <1>3
  <2> QED
    <3>1. LinesRead' = {p \in Lines : p[2] =< e}
      BY <1>6, <2>1 DEF LinesRead
    <3>2. <<s, e>>[2] = e
      OBVIOUS
    <3>3. \A p : p \in LinesRead' <=> p \in LinesRead \/ p = <<s, e>>
      BY <1>13, <2>2, <2>3, <3>1, <3>2 DEF LinesRead
    <3>4. <<s, e>> \notin LinesRead
      BY <2>3, <3>2 DEF LinesRead
    <3> QED
      BY <3>3, <3>4
<1>16. e - s =< MaxPartial => line = Text(s, e - 1)
  <2>1. ASSUME e - s =< MaxPartial PROVE partial = Text(s, Read)
    BY <1>1, <1>3, <1>12, <2>1, FrameAssumption
  <2>2. Read + (Newline - 1) = e - 1 /\ Newline - 1 \in 0 .. Len(rest)
    BY <1>1, <1>3
  <2>3. Text(s, Read) \o SubSeq(rest, 1, Newline - 1) = Text(s, Read + (Newline - 1))
    BY <1>1, <2>2, Joined
  <2> QED
    BY <2>1, <2>2, <2>3
<1>17. PICK C \in SUBSET LinesRead : Counted(C)
  BY DEF FrameInv
<1> PICK D : D = IF IsTokenFrame(line) THEN C \cup {<<s, e>>} ELSE C
  OBVIOUS
<1>18. counted' = Cardinality(D)
  <2>1. IsFiniteSet(C)
    <3>1. IsFiniteSet(Lines) /\ C \in SUBSET Lines
      BY <1>1, LinesAreFinite DEF LinesRead
    <3> QED
      BY <3>1, FS_Subset
  <2>2. Cardinality(C \cup {<<s, e>>}) = Cardinality(C) + 1
    BY <1>15, <2>1, FS_AddElement
  <2>3. counted = Cardinality(C) /\ counted \in Nat
    BY <1>1, <1>17 DEF Counted, Types
  <2> QED
    BY <1>2, <1>9, <2>2, <2>3
<1>19. \A a, b : Text(a, b)' = Text(a, b)
  BY <1>2 DEF Text
<1>20. Counted(D)'
  <2>1. D \subseteq LinesRead'
    BY <1>15
  <2>2. ASSUME NEW p \in LinesRead', p[2] - p[1] =< MaxPartial
        PROVE  p \in D <=> IsTokenFrame(Text(p[1], p[2] - 1))
    <3>1. CASE p \in LinesRead
      <4>1. p \in C <=> IsTokenFrame(Text(p[1], p[2] - 1))
        BY <1>17, <2>2, <3>1 DEF Counted
      <4>2. p # <<s, e>>
        BY <1>15, <3>1
      <4> QED
        BY <4>1, <4>2
    <3>2. CASE p = <<s, e>>
      <4>1. p \notin C /\ p[1] = s /\ p[2] = e
        BY <1>15, <3>2
      <4>2. line = Text(p[1], p[2] - 1)
        BY <1>16, <2>2, <4>1
      <4> QED
        BY <3>2, <4>1, <4>2
    <3> QED
      BY <1>15, <3>1, <3>2
  <2> QED
    BY <1>18, <1>19, <2>1, <2>2 DEF Counted
<1>21. D \subseteq LinesRead'
  BY <1>15
<1> QED
  BY <1>10, <1>11, <1>14, <1>20, <1>21 DEF FrameInv

LEMMA CarryKeepsInv ==
    ASSUME FrameInv, Carry
    PROVE  FrameInv'
<1>1. /\ Types /\ RestOK /\ Newline = 0
      /\ Len(sent) \in Nat /\ Len(rest) \in Nat /\ Read \in 0 .. Len(sent)
      /\ Read + Len(rest) = Len(sent)
      /\ sent \in Seq(Symbols) /\ rest \in Seq(Symbols) /\ partial \in Seq(Symbols)
  BY Bounds DEF FrameInv, Carry, Types
<1>2. /\ partial' = IF Len(partial) + Len(rest) =< MaxPartial THEN partial \o rest ELSE partial
      /\ rest' = << >> /\ feeding' = FALSE /\ counted' = counted /\ sent' = sent
  BY DEF Carry
<1>3. Read' = Len(sent)
  BY <1>1, <1>2 DEF Read
<1>4. ASSUME NEW n \in Read + 1 .. Len(sent) PROVE sent[n] # "nl"
  <2>1. n - Read \in 1 .. Len(rest) /\ Read + (n - Read) = n
    BY <1>1
  <2>2. rest[n - Read] # "nl"
    BY <1>1, <2>1, NewlineIsFirst
  <2> QED
    BY <1>1, <2>1, <2>2 DEF RestOK
<1>5. partial \o rest \in Seq(Symbols)
  BY <1>1, ConcatProperties
<1>6. Types' /\ RestOK'
  <2>1. partial' \in Seq(Symbols) /\ rest' \in Seq(Symbols) /\ sent' \in Seq(Symbols)
    BY <1>1, <1>2, <1>5
  <2>2. Types'
    BY <1>1, <1>2, <2>1 DEF Types
  <2>3. RestOK'
    BY <1>1, <1>2 DEF RestOK
  <2> QED
    BY <2>2, <2>3
<1>7. PartialOK'
  <2>1. PICK s \in 1 .. Read + 1 :
            Starts(s) /\ (partial = Text(s, Read) \/ Read + 1 - s > MaxPartial)
    BY DEF FrameInv, PartialOK
  <2>2. s \in 1 .. Read' + 1
    BY <1>1, <1>3, <2>1
  <2>3. Starts(s)'
    <3>1. \A n \in s .. Len(sent) : sent[n] # "nl"
      BY <1>1, <1>4, <2>1 DEF Starts
    <3>2. s = 1 \/ sent[s - 1] = "nl"
      BY <2>1 DEF Starts
    <3>3. sent' = sent
      BY <1>2
    <3> QED
      BY <1>3, <2>2, <3>1, <3>2, <3>3 DEF Starts
  <2>4. /\ Text(s, Read) \o SubSeq(rest, 1, Len(rest)) = Text(s, Read + Len(rest))
        /\ Len(Text(s, Read)) = Read + 1 - s
    <3>1. Len(rest) \in 0 .. Len(rest)
      BY <1>1
    <3> QED
      BY <1>1, <2>1, <3>1, Joined
  <2>5. SubSeq(rest, 1, Len(rest)) = rest
    BY <1>1, SubSeqFull
  <2>6. Text(s, Read)' = Text(s, Len(sent))
    BY <1>2, <1>3 DEF Text
  <2>7. partial' = Text(s, Len(sent)) \/ Len(sent) + 1 - s > MaxPartial
    <3>1. CASE partial = Text(s, Read) /\ Len(partial) + Len(rest) =< MaxPartial
      BY <1>1, <1>2, <2>4, <2>5, <3>1
    <3>2. CASE partial = Text(s, Read) /\ ~(Len(partial) + Len(rest) =< MaxPartial)
      <4>1. Len(partial) = Read + 1 - s
        BY <2>4, <3>2
      <4> QED
        BY <1>1, <2>1, <3>2, <4>1, FrameAssumption
    <3>3. CASE Read + 1 - s > MaxPartial
      BY <1>1, <2>1, <3>3, FrameAssumption
    <3> QED
      BY <2>1, <3>1, <3>2, <3>3
  <2> QED
    BY <1>3, <2>2, <2>3, <2>6, <2>7 DEF PartialOK
<1>8. LinesRead' = LinesRead
  <2>1. Lines' = Lines
    BY <1>2 DEF Lines, Ends
  <2>2. ASSUME NEW p \in Lines PROVE p[2] =< Len(sent) /\ p[2] =< Read
    <3>1. p[2] \in 1 .. Len(sent) /\ sent[p[2]] = "nl"
      BY <1>1, LinesArePairs, LineSymbols DEF LineAt
    <3> QED
      BY <1>1, <1>4, <3>1
  <2> QED
    BY <1>3, <2>1, <2>2 DEF LinesRead
<1>9. PICK C \in SUBSET LinesRead : Counted(C)
  BY DEF FrameInv
<1>10. \A a, b : Text(a, b)' = Text(a, b)
  BY <1>2 DEF Text
<1>11. Counted(C)'
  BY <1>2, <1>8, <1>9, <1>10 DEF Counted
<1> QED
  BY <1>6, <1>7, <1>8, <1>11 DEF FrameInv

LEMMA NextFrameInv == FrameInv /\ [Next]_vars => FrameInv'
<1> SUFFICES ASSUME FrameInv, [Next]_vars PROVE FrameInv'
  OBVIOUS
<1>1. CASE UNCHANGED vars
  <2>1. /\ partial' = partial /\ rest' = rest /\ feeding' = feeding /\ counted' = counted
        /\ sent' = sent
    BY <1>1 DEF vars
  <2>2. Read' = Read /\ LinesRead' = LinesRead /\ \A a, b : Text(a, b)' = Text(a, b)
    BY <2>1 DEF Read, LinesRead, Lines, Ends, Text
  <2>3. Types' /\ RestOK'
    BY <2>1, <2>2 DEF FrameInv, Types, RestOK
  <2>4. PartialOK'
    <3>1. PICK s \in 1 .. Read + 1 :
              Starts(s) /\ (partial = Text(s, Read) \/ Read + 1 - s > MaxPartial)
      BY DEF FrameInv, PartialOK
    <3>2. Starts(s)' /\ Text(s, Read)' = Text(s, Read)
      BY <2>1, <2>2, <3>1 DEF Starts
    <3> QED
      BY <2>1, <2>2, <3>1, <3>2 DEF PartialOK
  <2>5. PICK C \in SUBSET LinesRead : Counted(C)
    BY DEF FrameInv
  <2>6. Counted(C)'
    BY <2>1, <2>2, <2>5 DEF Counted
  <2> QED
    BY <2>2, <2>3, <2>4, <2>5, <2>6 DEF FrameInv
<1>2. ASSUME NEW chunk \in Chunks, BeginFeed(chunk) PROVE FrameInv'
  BY <1>2, BeginFeedKeeps
<1>3. CASE EndLine
  BY <1>3, EndLineKeepsInv
<1>4. CASE Carry
  BY <1>4, CarryKeepsInv
<1> QED
  BY <1>1, <1>2, <1>3, <1>4 DEF Next

LEMMA FrameInvHolds == Spec => []FrameInv
BY InitFrameInv, NextFrameInv, PTL DEF Spec

------------------------------------------------------------------------------

\* Between two calls of feed() every complete line was counted or not, by its
\* text if it is not too long.
LEMMA CountedBetweenCalls ==
    ASSUME FrameInv, ~feeding
    PROVE  \E C \in SUBSET Lines :
              /\ counted = Cardinality(C) /\ IsFiniteSet(C) /\ IsFiniteSet(Lines)
              /\ \A p \in Lines \ TooLong : p \in C <=> p \in TokenFrames
<1>1. Types /\ RestOK /\ sent \in Seq(Symbols) /\ rest = << >> /\ Read = Len(sent)
  BY DEF FrameInv, Types, Read
<1>2. ASSUME NEW p \in Lines
      PROVE  /\ p[2] =< Read /\ (p \notin TooLong => p[2] - p[1] =< MaxPartial)
  <2>1. p[2] \in 1 .. Len(sent) /\ p[1] \in 1 .. p[2]
    BY <1>1, LinesArePairs, LineSymbols DEF LineAt
  <2> QED
    BY <1>1, <2>1, FrameAssumption DEF TooLong
<1>3. LinesRead = Lines
  BY <1>2 DEF LinesRead
<1>4. PICK C \in SUBSET LinesRead : Counted(C)
  BY DEF FrameInv
<1>5. IsFiniteSet(Lines)
  BY <1>1, LinesAreFinite
<1>6. IsFiniteSet(C)
  BY <1>3, <1>5, FS_Subset
<1>7. \A p \in Lines \ TooLong : p \in C <=> p \in TokenFrames
  BY <1>2, <1>3, <1>4 DEF Counted, TokenFrames, Text
<1> QED
  BY <1>3, <1>4, <1>5, <1>6, <1>7 DEF Counted

\* While no line is too long each token frame is counted once, in streams of
\* any length, however the bytes are cut.
THEOREM EachFrameIsCountedOnce == Spec => []CountsEachFrameOnce
<1>1. ASSUME FrameInv PROVE CountsEachFrameOnce
  <2> SUFFICES ASSUME ~feeding, TooLong = {} PROVE counted = Cardinality(TokenFrames)
    BY DEF CountsEachFrameOnce
  <2>1. PICK C \in SUBSET Lines :
            counted = Cardinality(C) /\ \A p \in Lines \ TooLong : p \in C <=> p \in TokenFrames
    BY <1>1, CountedBetweenCalls
  <2>2. C = TokenFrames
    BY <2>1 DEF TokenFrames
  <2> QED
    BY <2>1, <2>2
<1> QED
  BY <1>1, FrameInvHolds, PTL

\* A line too long to carry over is miscounted by one at most and spoils no other.
THEOREM LongLinesAreAlone == Spec => []LongLinesCostThemselves
<1>1. ASSUME FrameInv PROVE LongLinesCostThemselves
  <2> SUFFICES ASSUME ~feeding
               PROVE  /\ counted =< Cardinality(TokenFrames) + Cardinality(TooLong)
                      /\ Cardinality(TokenFrames) =< counted + Cardinality(TooLong)
    BY DEF LongLinesCostThemselves
  <2>1. PICK C \in SUBSET Lines :
            /\ counted = Cardinality(C) /\ IsFiniteSet(C) /\ IsFiniteSet(Lines)
            /\ \A p \in Lines \ TooLong : p \in C <=> p \in TokenFrames
    BY <1>1, CountedBetweenCalls
  <2>2. /\ C \subseteq TokenFrames \cup TooLong /\ TokenFrames \subseteq C \cup TooLong
    BY <2>1 DEF TokenFrames
  <2>3. IsFiniteSet(TokenFrames) /\ IsFiniteSet(TooLong)
    <3>1. TokenFrames \in SUBSET Lines /\ TooLong \in SUBSET Lines
      BY DEF TokenFrames, TooLong
    <3> QED
      BY <2>1, <3>1, FS_Subset
  <2>4. ASSUME NEW S, NEW T, NEW U, IsFiniteSet(S), IsFiniteSet(T), IsFiniteSet(U), S \subseteq T \cup U
        PROVE  Cardinality(S) =< Cardinality(T) + Cardinality(U)
    <3>1. /\ IsFiniteSet(T \cup U)
          /\ Cardinality(T \cup U) = Cardinality(T) + Cardinality(U) - Cardinality(T \cap U)
      BY <2>4, FS_Union
    <3>2. Cardinality(S) =< Cardinality(T \cup U)
      BY <2>4, <3>1, FS_Subset
    <3>3. IsFiniteSet(T \cap U)
      BY <2>4, FS_Intersection
    <3>4. /\ Cardinality(S) \in Nat /\ Cardinality(T) \in Nat /\ Cardinality(U) \in Nat
          /\ Cardinality(T \cap U) \in Nat
      BY <2>4, <3>3, FS_CardinalityType
    <3> QED
      BY <3>1, <3>2, <3>4
  <2> QED
    BY <2>1, <2>2, <2>3, <2>4
<1> QED
  BY <1>1, FrameInvHolds, PTL
=============================================================================
