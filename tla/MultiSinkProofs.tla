---------------------------- MODULE MultiSinkProofs ----------------------------
(***************************************************************************)
(* Safety of MultiSink for any sequence of file and console sinks with any *)
(* options, any sizes of lines and any number of lines and restarts.  What *)
(* matters of a sink's operation is what it does to the sequence of all    *)
(* the lines a sink holds, from the file through the stream to the staging *)
(* buffer: a write adds a line to it, all else moves lines to the left.    *)
(***************************************************************************)
EXTENDS MultiSink, SequenceTheorems, TLAPS

LineType == [number : Nat, session : Nat, size : Nat, at : Nat]
Lines    == Seq(LineType)
SinkType == [staging : Lines, batchStartedAt : Nat \cup {None}, stream : Lines, file : Lines]

Sent(s) == s.file \o s.stream
All(s)  == Sent(s) \o s.staging

(***************************************************************************)
(* Sequences of lines.                                                     *)
(***************************************************************************)

\* Concatenation, as the sinks use it.
LEMMA Concat ==
    /\ <<>> \in Lines
    /\ \A x \in Lines : x \o <<>> = x /\ <<>> \o x = x
    /\ \A x, y \in Lines : x \o y \in Lines /\ Len(x \o y) = Len(x) + Len(y)
BY EmptySeq, ConcatEmptySeq, ConcatProperties DEF Lines

\* Concatenation is associative, an instance at a time.
Associate(x, y, z) == (x \o y) \o z = x \o (y \o z)

LEMMA Associativity == \A x, y, z \in Lines : Associate(x, y, z)
BY ConcatAssociative DEF Lines, Associate

LEMMA ConcatElements ==
    ASSUME NEW x \in Lines, NEW y \in Lines
    PROVE  \E z \in Lines :
              /\ z = x \o y /\ Len(z) = Len(x) + Len(y) /\ Len(x) \in Nat /\ Len(y) \in Nat
              /\ \A i \in 1 .. Len(x) + Len(y) : z[i] = IF i <= Len(x) THEN x[i] ELSE y[i - Len(x)]
<1>1. /\ x \o y \in Seq(LineType)
      /\ Len(x \o y) = Len(x) + Len(y)
      /\ \A i \in 1 .. Len(x) + Len(y) :
            (x \o y)[i] = IF i <= Len(x) THEN x[i] ELSE y[i - Len(x)]
  <2>1. x \in Seq(LineType) /\ y \in Seq(LineType)
    BY DEF Lines
  <2> QED
    BY <2>1, ConcatProperties
<1>2. Len(x) \in Nat /\ Len(y) \in Nat
  BY DEF Lines
<1> QED
  BY <1>1, <1>2 DEF Lines

\* The rest of x after its first b lines, and what comes after x.
After(x, b) == SubSeq(x, b + 1, Len(x))

LEMMA AfterIs ==
    ASSUME NEW x \in Lines, NEW b \in Nat, b <= Len(x)
    PROVE  /\ After(x, b) \in Lines
           /\ Len(After(x, b)) = Len(x) - b
           /\ \A i \in 1 .. Len(x) - b : After(x, b)[i] = x[b + i]
<1>1. /\ Len(x) \in Nat
      /\ \A i \in b + 1 .. Len(x) : x[i] \in LineType
  BY DEF Lines
<1>2. /\ After(x, b) \in Lines
      /\ Len(After(x, b)) = IF b + 1 <= Len(x) THEN Len(x) - (b + 1) + 1 ELSE 0
      /\ \A i \in 1 .. Len(x) - (b + 1) + 1 : After(x, b)[i] = x[(b + 1) + i - 1]
  BY <1>1, SubSeqProperties DEF After, Lines
<1> QED
  BY <1>1, <1>2

LEMMA AfterConcat ==
    ASSUME NEW x \in Lines, NEW y \in Lines, NEW b \in Nat, b <= Len(x)
    PROVE  After(x \o y, b) = After(x, b) \o y
<1>1. PICK z \in Lines :
         /\ z = x \o y /\ Len(z) = Len(x) + Len(y)
         /\ \A i \in 1 .. Len(x) + Len(y) : z[i] = IF i <= Len(x) THEN x[i] ELSE y[i - Len(x)]
  BY ConcatElements
<1>2. Len(x) \in Nat /\ Len(y) \in Nat
  BY DEF Lines
<1>3. PICK v \in Lines :
         /\ v = After(z, b) /\ Len(v) = Len(z) - b
         /\ \A i \in 1 .. Len(z) - b : v[i] = z[b + i]
  <2>1. b <= Len(z) /\ z \in Lines
    BY <1>1, <1>2
  <2> QED
    BY <2>1, AfterIs
<1>4. PICK u \in Lines :
         /\ u = After(x, b) /\ Len(u) = Len(x) - b
         /\ \A i \in 1 .. Len(x) - b : u[i] = x[b + i]
  BY AfterIs
<1>5. PICK w \in Lines :
         /\ w = u \o y /\ Len(w) = Len(u) + Len(y)
         /\ \A i \in 1 .. Len(u) + Len(y) : w[i] = IF i <= Len(u) THEN u[i] ELSE y[i - Len(u)]
  BY ConcatElements
<1>6. ASSUME NEW i \in 1 .. Len(v) PROVE v[i] = w[i]
  <2>1. b + i \in 1 .. Len(x) + Len(y) /\ (b + i <= Len(x) <=> i <= Len(u))
        /\ (b + i) - Len(x) = i - Len(u)
    BY <1>1, <1>2, <1>3, <1>4
  <2>2. v[i] = IF b + i <= Len(x) THEN x[b + i] ELSE y[(b + i) - Len(x)]
    BY <1>1, <1>3, <2>1
  <2> QED
    BY <1>1, <1>2, <1>3, <1>4, <1>5, <2>1, <2>2
<1>7. Len(v) = Len(w)
  BY <1>1, <1>2, <1>3, <1>4, <1>5
<1>8. v = w
  BY <1>6, <1>7, SeqEqual DEF Lines
<1> QED
  BY <1>1, <1>3, <1>4, <1>5, <1>8

\* A beginning.
LEMMA PrefixIs ==
    ASSUME NEW x \in Lines, NEW y \in Lines
    PROVE  IsPrefix(x, y) <=> Len(x) <= Len(y) /\ \A i \in 1 .. Len(x) : x[i] = y[i]
<1>1. Len(x) \in Nat /\ Len(y) \in Nat /\ SubSeq(x, 1, Len(x)) = x
  BY SubSeqFull DEF Lines
<1>2. ASSUME Len(x) <= Len(y)
      PROVE  SubSeq(y, 1, Len(x)) = x <=> \A i \in 1 .. Len(x) : x[i] = y[i]
  <2>1. /\ SubSeq(y, 1, Len(x)) \in Lines
        /\ Len(SubSeq(y, 1, Len(x))) = Len(x)
        /\ \A i \in 1 .. Len(x) : SubSeq(y, 1, Len(x))[i] = y[i]
    BY <1>1, <1>2 DEF Lines
  <2> QED
    BY <2>1, SeqEqual DEF Lines
<1> QED
  BY <1>1, <1>2 DEF IsPrefix

LEMMA PrefixProperties ==
    /\ \A x \in Lines : IsPrefix(x, x) /\ IsPrefix(<<>>, x)
    /\ \A x, y \in Lines : IsPrefix(x, x \o y)
    /\ \A x, y, z \in Lines : IsPrefix(x, y) /\ IsPrefix(y, z) => IsPrefix(x, z)
<1>1. \A x \in Lines : IsPrefix(x, x) /\ IsPrefix(<<>>, x)
  BY Concat, PrefixIs
<1>2. ASSUME NEW x \in Lines, NEW y \in Lines PROVE IsPrefix(x, x \o y)
  <2>1. PICK z \in Lines :
           /\ z = x \o y /\ Len(z) = Len(x) + Len(y) /\ Len(x) \in Nat /\ Len(y) \in Nat
           /\ \A i \in 1 .. Len(x) + Len(y) : z[i] = IF i <= Len(x) THEN x[i] ELSE y[i - Len(x)]
    BY ConcatElements
  <2>2. Len(x) <= Len(z) /\ \A i \in 1 .. Len(x) : x[i] = z[i]
    BY <2>1
  <2> QED
    BY <2>1, <2>2, PrefixIs
<1>3. ASSUME NEW x \in Lines, NEW y \in Lines, NEW z \in Lines, IsPrefix(x, y), IsPrefix(y, z)
      PROVE  IsPrefix(x, z)
  <2>1. Len(x) \in Nat /\ Len(y) \in Nat /\ Len(z) \in Nat
    BY DEF Lines
  <2> QED
    BY <1>3, <2>1, PrefixIs
<1> QED
  BY <1>1, <1>2, <1>3

(***************************************************************************)
(* The operations of a sink.                                               *)
(***************************************************************************)

\* t has the lines of s, some of them further to the left, and then those of more.
Moved(s, t, more) ==
    /\ t \in SinkType
    /\ \E g \in Lines : t.file = s.file \o g
    /\ All(t) = All(s) \o more

LEMMA StreamedIs ==
    ASSUME NEW s \in SinkType, NEW lines \in Lines, NEW w \in Streamed(s, lines)
    PROVE  /\ w \in SinkType /\ w.staging = s.staging /\ w.batchStartedAt = s.batchStartedAt
           /\ Sent(w) = Sent(s) \o lines
           /\ \E g \in Lines : w.file = s.file \o g
<1> DEFINE x == s.stream \o lines
<1>1. PICK n \in 0 .. Len(x) :
          w = [s EXCEPT !.file = @ \o SubSeq(x, 1, n), !.stream = SubSeq(x, n + 1, Len(x))]
  <2>1. PICK p \in PassedOn(x) : w = [s EXCEPT !.file = @ \o p.reached, !.stream = p.kept]
    BY DEF Streamed
  <2>2. PICK n \in 0 .. Len(x) :
            p = [reached |-> SubSeq(x, 1, n), kept |-> SubSeq(x, n + 1, Len(x))]
    BY DEF PassedOn
  <2> HIDE DEF x
  <2>3. p.reached = SubSeq(x, 1, n) /\ p.kept = SubSeq(x, n + 1, Len(x))
    BY <2>2
  <2> QED
    BY <2>1, <2>3
<1>2. /\ s.file \in Lines /\ s.stream \in Lines /\ x \in Lines
  BY Concat DEF SinkType
<1>3. /\ SubSeq(x, 1, n) \in Lines /\ SubSeq(x, n + 1, Len(x)) \in Lines
      /\ SubSeq(x, 1, n) \o SubSeq(x, n + 1, Len(x)) = x
  <2> HIDE DEF x
  <2>1. x \in Seq(LineType) /\ n \in 0 .. Len(x) /\ Len(x) \in Nat
    BY <1>2 DEF Lines
  <2>2. SubSeq(x, 1, n) \o SubSeq(x, n + 1, Len(x)) = SubSeq(x, 1, Len(x))
    <3>1. /\ 1 \in 1 .. Len(x) + 1 /\ n \in 1 - 1 .. Len(x) /\ Len(x) \in n .. Len(x)
      BY <2>1
    <3> QED
      BY <2>1, <3>1, ConcatAdjacentSubSeq
  <2>3. SubSeq(x, 1, n) \in Seq(LineType) /\ SubSeq(x, n + 1, Len(x)) \in Seq(LineType)
    BY <2>1
  <2> QED
    BY <2>1, <2>2, <2>3, SubSeqFull DEF Lines
<1>4. PICK g \in Lines, r \in Lines :
          g \o r = x /\ w = [s EXCEPT !.file = @ \o g, !.stream = r]
  BY <1>1, <1>3
<1> HIDE DEF x
<1>5. /\ w \in SinkType /\ w.staging = s.staging /\ w.batchStartedAt = s.batchStartedAt
      /\ w.file = s.file \o g /\ w.stream = r
  <2>1. PICK h \in Lines : h = s.file \o g
    BY <1>2, Concat
  <2>2. w = [s EXCEPT !.file = h, !.stream = r]
    BY <1>4, <2>1
  <2> QED
    BY <2>1, <2>2 DEF SinkType
<1>6. Sent(w) = s.file \o x
  <2>1. (s.file \o g) \o r = s.file \o (g \o r)
    <3>1. Associate(s.file, g, r)
      BY <1>2, Associativity
    <3> QED
      BY <3>1 DEF Associate
  <2> QED
    BY <1>4, <1>5, <2>1 DEF Sent
<1>7. Sent(s) \o lines = s.file \o x
  <2>1. (s.file \o s.stream) \o lines = s.file \o (s.stream \o lines)
    <3>1. Associate(s.file, s.stream, lines)
      BY <1>2, Associativity
    <3> QED
      BY <3>1 DEF Associate
  <2> QED
    BY <2>1 DEF Sent, x
<1> QED
  BY <1>5, <1>6, <1>7

LEMMA FlushedIs ==
    ASSUME NEW s \in SinkType
    PROVE  /\ Flushed(s) \in SinkType
           /\ Flushed(s).staging = s.staging /\ Flushed(s).batchStartedAt = s.batchStartedAt
           /\ Flushed(s).stream = <<>>
           /\ Sent(Flushed(s)) = Sent(s)
           /\ \E g \in Lines : Flushed(s).file = s.file \o g
<1>1. s.file \in Lines /\ s.stream \in Lines /\ s.file \o s.stream \in Lines
  BY Concat DEF SinkType
<1>2. Flushed(s) = [s EXCEPT !.file = s.file \o s.stream, !.stream = <<>>]
  BY DEF Flushed
<1> QED
  BY <1>1, <1>2, Concat DEF SinkType, Sent

\* DrainStagingBuffer puts the batch behind what the stream has got, whether it throws or not.
LEMMA DrainIs ==
    ASSUME NEW s \in SinkType, NEW o \in Options, NEW flushStream \in BOOLEAN,
           NEW out \in DrainStagingBuffer(s, o, flushStream)
    PROVE  /\ out.sink \in SinkType
           /\ \E g \in Lines : out.sink.file = s.file \o g
           /\ Sent(out.sink) = All(s)
           /\ ~ out.thrown => out.sink.staging = <<>> /\ (flushStream => out.sink.stream = <<>>)
<1>1. PICK w \in WriteBatch(s, o) :
          out \in IF w.thrown \/ ~ flushStream THEN {w} ELSE FlushStream(w.sink, o)
  BY DEF DrainStagingBuffer
<1>2. s.file \in Lines /\ s.stream \in Lines /\ s.staging \in Lines /\ Sent(s) \in Lines
  BY Concat DEF SinkType, Sent
<1>3. /\ w.sink \in SinkType
      /\ \E g \in Lines : w.sink.file = s.file \o g
      /\ Sent(w.sink) = All(s)
      /\ ~ w.thrown => w.sink.staging = <<>>
  <2>1. CASE s.staging = <<>>
    <3>1. w.sink = s
      BY <2>1 DEF WriteBatch, Outcome
    <3> QED
      BY <1>2, <2>1, <3>1, Concat DEF All
  <2>2. CASE s.staging # <<>>
    <3>1. PICK v \in Streamed(s, s.staging) :
              (w.sink = Unstaged(v) /\ ~ w.thrown) \/ (w.sink = v /\ w.thrown)
      BY <2>2 DEF WriteBatch, Outcome
    <3>2. /\ v \in SinkType /\ Sent(v) = All(s)
          /\ \E g \in Lines : v.file = s.file \o g
      BY <1>2, StreamedIs DEF All
    <3>3. /\ Unstaged(v) \in SinkType /\ Sent(Unstaged(v)) = Sent(v)
          /\ Unstaged(v).file = v.file /\ Unstaged(v).staging = <<>>
      BY <3>2, Concat DEF Unstaged, Sent, SinkType
    <3> QED
      BY <3>1, <3>2, <3>3
  <2> QED
    BY <2>1, <2>2
<1>4. CASE w.thrown \/ ~ flushStream
  BY <1>1, <1>3, <1>4
<1>5. CASE ~ w.thrown /\ flushStream
  <2>1. PICK g \in Lines : w.sink.file = s.file \o g
    BY <1>3
  <2>2. \/ out.sink = Flushed(w.sink) /\ ~ out.thrown
        \/ out.sink \in Streamed(w.sink, <<>>) /\ out.thrown
    BY <1>1, <1>5 DEF FlushStream, Outcome
  <2>3. /\ out.sink \in SinkType /\ Sent(out.sink) = Sent(w.sink)
        /\ \E h \in Lines : out.sink.file = w.sink.file \o h
        /\ ~ out.thrown => out.sink.staging = w.sink.staging /\ out.sink.stream = <<>>
    <3>1. Sent(w.sink) \in Lines /\ Sent(w.sink) \o <<>> = Sent(w.sink)
      BY <1>3, Concat DEF Sent, SinkType
    <3>2. CASE out.sink = Flushed(w.sink) /\ ~ out.thrown
      <4>1. /\ Flushed(w.sink) \in SinkType /\ Flushed(w.sink).staging = w.sink.staging
            /\ Flushed(w.sink).stream = <<>> /\ Sent(Flushed(w.sink)) = Sent(w.sink)
            /\ \E h \in Lines : Flushed(w.sink).file = w.sink.file \o h
        BY <1>3, FlushedIs, Zenon
      <4> QED
        BY <3>2, <4>1, Zenon
    <3>3. CASE out.sink \in Streamed(w.sink, <<>>) /\ out.thrown
      <4>1. <<>> \in Lines
        BY Concat
      <4>2. PICK v \in Streamed(w.sink, <<>>) : v = out.sink
        BY <3>3
      <4>3. /\ v \in SinkType /\ Sent(v) = Sent(w.sink) \o <<>>
            /\ \E h \in Lines : v.file = w.sink.file \o h
        BY <1>3, <4>1, StreamedIs
      <4> QED
        BY <3>1, <3>3, <4>2, <4>3
    <3> QED
      BY <2>2, <3>2, <3>3
  <2>4. PICK h \in Lines : out.sink.file = w.sink.file \o h
    BY <2>3
  <2>5. out.sink.file = s.file \o (g \o h) /\ g \o h \in Lines
    <3>1. Associate(s.file, g, h) /\ g \o h \in Lines
      BY <1>2, Concat, Associativity
    <3> QED
      BY <2>1, <2>4, <3>1 DEF Associate
  <2> QED
    BY <1>3, <1>5, <2>3, <2>5
<1> QED
  BY <1>4, <1>5

\* The batch of s has begun no later than any of its lines, and is not overdue.
BatchOK(s, o, time) ==
    s.staging # <<>> =>
        /\ s.batchStartedAt \in Nat /\ s.batchStartedAt <= time
        /\ \A n \in 1 .. Len(s.staging) : s.batchStartedAt <= s.staging[n].at
        /\ o.flushInterval > 0 => time <= s.batchStartedAt + o.flushInterval

\* What any operation makes of a sink that takes these lines.
Stepped(s, out, o, lines, time) ==
    /\ out.sink \in SinkType
    /\ \E g \in Lines : out.sink.file = s.file \o g
    /\ IsPrefix(Sent(out.sink), All(s) \o lines)
    /\ ~ out.thrown => All(out.sink) = All(s) \o lines /\ BatchOK(out.sink, o, time)

LEMMA LinesOf ==
    ASSUME NEW s \in SinkType
    PROVE  /\ Sent(s) \in Lines /\ All(s) \in Lines /\ All(s) \o <<>> = All(s)
           /\ s.file \in Lines /\ s.stream \in Lines /\ s.staging \in Lines
           /\ s.staging = <<>> => All(s) = Sent(s)
           /\ s.staging = <<>> /\ s.stream = <<>> => All(s) = s.file
<1>1. s.file \in Lines /\ s.stream \in Lines /\ s.staging \in Lines
  BY DEF SinkType
<1>2. Sent(s) \in Lines /\ (s.stream = <<>> => Sent(s) = s.file)
  BY <1>1, Concat DEF Sent
<1>3. /\ All(s) \in Lines /\ (s.staging = <<>> => All(s) = Sent(s))
      /\ All(s) \o <<>> = All(s)
  BY <1>1, <1>2, Concat DEF All
<1> QED
  BY <1>1, <1>2, <1>3

\* DrainStagingBuffer, of a sink that takes no line.
LEMMA DrainSteps ==
    ASSUME NEW s \in SinkType, NEW o \in Options, NEW time \in Nat, NEW flushStream \in BOOLEAN,
           NEW out \in DrainStagingBuffer(s, o, flushStream)
    PROVE  /\ Stepped(s, out, o, <<>>, time)
           /\ ~ out.thrown => out.sink.staging = <<>> /\ (flushStream => out.sink.stream = <<>>)
<1>1. /\ out.sink \in SinkType
      /\ \E g \in Lines : out.sink.file = s.file \o g
      /\ Sent(out.sink) = All(s)
      /\ ~ out.thrown => out.sink.staging = <<>> /\ (flushStream => out.sink.stream = <<>>)
  BY DrainIs
<1>2. IsPrefix(Sent(out.sink), All(s) \o <<>>)
  BY <1>1, LinesOf, PrefixProperties
<1>3. ~ out.thrown => All(out.sink) = All(s) \o <<>>
  BY <1>1, LinesOf
<1> QED
  BY <1>1, <1>2, <1>3 DEF Stepped, BatchOK

LEMMA WriteSteps ==
    ASSUME NEW s \in SinkType, NEW o \in Options, NEW line \in LineType, BatchOK(s, o, line.at),
           NEW out \in Write(s, o, line)
    PROVE  Stepped(s, out, o, <<line>>, line.at)
<1> DEFINE t == Staged(s, line)
           flushForInterval == /\ o.flushInterval > 0
                               /\ line.at >= t.batchStartedAt + o.flushInterval
<1>1. /\ s.staging \in Lines /\ s.staging \in Seq(LineType) /\ line.at \in Nat
      /\ s.batchStartedAt \in Nat \cup {None}
      /\ s.file \in Lines /\ Sent(s) \in Lines /\ <<line>> \in Lines
  BY LinesOf DEF SinkType, LineType, Lines
<1>2. /\ t \in SinkType /\ t.file = s.file /\ t.stream = s.stream
      /\ t.staging = Append(s.staging, line)
      /\ t.batchStartedAt = IF s.staging = <<>> THEN line.at ELSE s.batchStartedAt
  <2>1. Append(s.staging, line) \in Lines
    BY <1>1 DEF Lines
  <2> QED
    BY <1>1, <2>1 DEF Staged, SinkType
<1>3. All(t) = All(s) \o <<line>>
  <2>1. Append(s.staging, line) = s.staging \o <<line>>
    BY <1>1, AppendIsConcat
  <2>2. Sent(s) \o (s.staging \o <<line>>) = (Sent(s) \o s.staging) \o <<line>>
    <3>1. Associate(Sent(s), s.staging, <<line>>)
      BY <1>1, Associativity
    <3> QED
      BY <3>1 DEF Associate
  <2> QED
    BY <1>2, <2>1, <2>2 DEF All, Sent
<1>4. /\ t.staging # <<>> /\ t.batchStartedAt \in Nat /\ t.batchStartedAt <= line.at
      /\ \A n \in 1 .. Len(t.staging) : t.batchStartedAt <= t.staging[n].at
  <2>1. CASE s.staging = <<>>
    <3>1. t.staging = <<line>>
      BY <1>2, <2>1
    <3> QED
      BY <1>1, <1>2, <2>1, <3>1
  <2>2. CASE s.staging # <<>>
    <3>1. /\ s.batchStartedAt \in Nat /\ s.batchStartedAt <= line.at
          /\ \A n \in 1 .. Len(s.staging) : s.batchStartedAt <= s.staging[n].at
      BY <2>2 DEF BatchOK
    <3>2. /\ Len(t.staging) = Len(s.staging) + 1 /\ t.staging # <<>>
          /\ \A n \in 1 .. Len(s.staging) : t.staging[n] = s.staging[n]
          /\ t.staging[Len(s.staging) + 1] = line
      BY <1>1, <1>2
    <3> QED
      BY <1>1, <1>2, <2>2, <3>1, <3>2
  <2> QED
    BY <2>1, <2>2
<1> HIDE DEF t
<1>5. \/ out \in DrainStagingBuffer(t, o, flushForInterval)
      \/ out = Outcome(t, FALSE) /\ ~ flushForInterval
  BY DEF Write, t
<1>6. CASE out \in DrainStagingBuffer(t, o, flushForInterval)
  <2>1. Stepped(t, out, o, <<>>, line.at)
    BY <1>1, <1>2, <1>6, DrainSteps
  <2>2. All(t) \o <<>> = All(t)
    BY <1>2, LinesOf
  <2> QED
    BY <1>2, <1>3, <2>1, <2>2 DEF Stepped
<1>7. CASE out = Outcome(t, FALSE) /\ ~ flushForInterval
  <2>1. out.sink = t /\ ~ out.thrown
    BY <1>7 DEF Outcome
  <2>2. BatchOK(t, o, line.at)
    BY <1>1, <1>4, <1>7 DEF BatchOK, Options
  <2>3. t.file = s.file \o <<>>
    BY <1>1, <1>2, Concat
  <2>4. IsPrefix(Sent(t), All(t))
    BY <1>2, LinesOf, PrefixProperties DEF All
  <2> QED
    BY <1>2, <1>3, <2>1, <2>2, <2>3, <2>4, Concat DEF Stepped
<1> QED
  BY <1>5, <1>6, <1>7

LEMMA ConsoleSteps ==
    ASSUME NEW s \in SinkType, NEW o \in ConsoleOptions, NEW line \in LineType, NEW time \in Nat,
           s.staging = <<>>, NEW out
    PROVE  /\ out \in ConsoleWrite(s, o, line) =>
                 Stepped(s, out, o, <<line>>, time) /\ out.sink.staging = <<>>
           /\ out \in ConsoleFlush(s) =>
                 /\ Stepped(s, out, o, <<>>, time)
                 /\ out.sink.staging = <<>> /\ out.sink.stream = <<>>
<1>1. /\ s.file \in Lines /\ Sent(s) \in Lines /\ <<line>> \in Lines
      /\ All(s) = Sent(s) /\ All(s) \o <<>> = All(s) /\ Sent(s) \o <<line>> \in Lines
  <2>1. <<line>> \in Lines
    BY DEF Lines
  <2> QED
    BY <2>1, LinesOf, Concat
<1>2. ASSUME out \in ConsoleWrite(s, o, line)
      PROVE  Stepped(s, out, o, <<line>>, time) /\ out.sink.staging = <<>>
  <2>1. PICK w \in Streamed(s, <<line>>) :
            out = Outcome(IF o.autoFlush THEN Flushed(w) ELSE w, FALSE)
    BY <1>2 DEF ConsoleWrite
  <2>2. /\ w \in SinkType /\ w.staging = <<>> /\ Sent(w) = All(s) \o <<line>>
        /\ \E g \in Lines : w.file = s.file \o g
    <3>1. /\ w \in SinkType /\ w.staging = s.staging /\ Sent(w) = Sent(s) \o <<line>>
          /\ \E g \in Lines : w.file = s.file \o g
      BY <1>1, StreamedIs, Zenon
    <3> QED
      BY <1>1, <3>1, Zenon
  <2>3. PICK g \in Lines : w.file = s.file \o g
    BY <2>2
  <2>4. PICK v \in SinkType : v = out.sink /\ ~ out.thrown /\ (v = Flushed(w) \/ v = w)
    BY <2>1, <2>2, FlushedIs DEF Outcome
  <2>5. /\ v.staging = <<>> /\ Sent(v) = All(s) \o <<line>>
        /\ \E h \in Lines : v.file = w.file \o h
    <3>1. <<>> \in Lines /\ w.file = w.file \o <<>>
      BY <2>2, LinesOf, Concat
    <3>2. CASE v = w
      BY <2>2, <3>1, <3>2
    <3>3. CASE v = Flushed(w)
      BY <2>2, <3>3, FlushedIs
    <3> QED
      BY <2>4, <3>2, <3>3
  <2>6. PICK h \in Lines : v.file = w.file \o h
    BY <2>5
  <2>7. v.file = s.file \o (g \o h) /\ g \o h \in Lines
    <3>1. Associate(s.file, g, h) /\ g \o h \in Lines
      BY <1>1, Concat, Associativity
    <3> QED
      BY <2>3, <2>6, <3>1 DEF Associate
  <2>8. All(v) = All(s) \o <<line>> /\ IsPrefix(Sent(v), All(s) \o <<line>>)
    BY <1>1, <2>5, LinesOf, PrefixProperties
  <2> QED
    BY <2>4, <2>5, <2>7, <2>8 DEF Stepped, BatchOK
<1>3. ASSUME out \in ConsoleFlush(s)
      PROVE  /\ Stepped(s, out, o, <<>>, time)
             /\ out.sink.staging = <<>> /\ out.sink.stream = <<>>
  <2>1. PICK v \in SinkType : v = out.sink /\ ~ out.thrown /\ v = Flushed(s)
    BY <1>3, FlushedIs DEF ConsoleFlush, Outcome
  <2>2. /\ v.staging = <<>> /\ v.stream = <<>> /\ Sent(v) = Sent(s)
        /\ \E g \in Lines : v.file = s.file \o g
    BY <2>1, FlushedIs
  <2>3. All(v) = All(s) \o <<>> /\ IsPrefix(Sent(v), All(s) \o <<>>)
    BY <1>1, <2>2, LinesOf, PrefixProperties
  <2> QED
    BY <2>1, <2>2, <2>3 DEF Stepped, BatchOK
<1> QED
  BY <1>2, <1>3

\* A step that does nothing.
LEMMA IdleSteps ==
    ASSUME NEW s \in SinkType, NEW o, NEW time \in Nat, BatchOK(s, o, time)
    PROVE  Stepped(s, Outcome(s, FALSE), o, <<>>, time)
<1>1. /\ Sent(s) \in Lines /\ All(s) = Sent(s) \o s.staging /\ s.staging \in Lines
      /\ All(s) \o <<>> = All(s) /\ s.file \in Lines
  BY LinesOf DEF All
<1>2. IsPrefix(Sent(s), All(s))
  BY <1>1, PrefixProperties
<1>3. s.file = s.file \o <<>> /\ <<>> \in Lines
  BY <1>1, Concat
<1> QED
  BY <1>1, <1>2, <1>3 DEF Stepped, Outcome

(***************************************************************************)
(* The invariant.                                                          *)
(***************************************************************************)

Types ==
    /\ options \in Seq(Options \cup ConsoleOptions)
    /\ child \in [Children -> SinkType]
    /\ now \in Nat
    /\ op \in {"none", "write", "flush", "poll"}
    /\ next \in Nat \ {0} /\ (Children # {} => next \in Children)
    /\ process \in {"running", "failed", "gone"}
    /\ restarts \in Nat
    /\ given \in Lines /\ flushed \in Nat
    /\ base \in [Children -> Nat]

\* The write under way is of the last line given, at this time.
WriteInv == process = "running" /\ op = "write" => given # <<>> /\ given[Len(given)].at = now

\* Each child holds what it has been given, and in its file and stream a beginning of it.
HeldInv ==
    \A i \in Children :
        /\ base[i] <= Len(child[i].file)
        /\ process = "running" => After(All(child[i]), base[i]) = GivenTo(i)
        /\ IsPrefix(After(Sent(child[i]), base[i]), given)

\* The children a Flush has come past hold all in their files.
FlushInv ==
    \A i \in Children :
        /\ flushed <= Len(child[i].file) - base[i]
        /\ process = "running" /\ op = "flush" /\ i < next =>
              child[i].stream = <<>> /\ child[i].staging = <<>>

\* Batches are not overdue; consoles have none.
BatchInv ==
    process = "running" =>
        \A i \in Children : /\ BatchOK(child[i], options[i], now)
                            /\ IsConsole(i) => child[i].staging = <<>>

\* The children a poll has come past are not due.
PollInv ==
    process = "running" /\ op = "poll" =>
        \A i \in Children : i < next => ~ IsDue(child[i], options[i], now)

SinkInv == Types /\ WriteInv /\ HeldInv /\ FlushInv /\ BatchInv /\ PollInv

\* What a child holds of this session, tier by tier.
LEMMA Tiers ==
    ASSUME NEW s \in SinkType, NEW b \in Nat, b <= Len(s.file)
    PROVE  /\ After(s.file, b) \in Lines /\ After(Sent(s), b) \in Lines /\ After(All(s), b) \in Lines
           /\ b <= Len(Sent(s)) /\ b <= Len(All(s))
           /\ After(Sent(s), b) = After(s.file, b) \o s.stream
           /\ After(All(s), b) = After(Sent(s), b) \o s.staging
           /\ Len(After(s.file, b)) = Len(s.file) - b /\ Len(s.file) \in Nat
<1>1. /\ s.file \in Lines /\ s.stream \in Lines /\ s.staging \in Lines
      /\ Sent(s) \in Lines /\ All(s) \in Lines
      /\ Sent(s) = s.file \o s.stream /\ All(s) = Sent(s) \o s.staging
  BY LinesOf DEF Sent, All
<1>2. /\ Len(s.file) \in Nat /\ Len(s.stream) \in Nat /\ Len(s.staging) \in Nat
      /\ Len(Sent(s)) = Len(s.file) + Len(s.stream)
      /\ Len(All(s)) = Len(Sent(s)) + Len(s.staging)
  <2>1. Len(s.file) \in Nat /\ Len(s.stream) \in Nat /\ Len(s.staging) \in Nat
    BY <1>1 DEF Lines
  <2> QED
    BY <1>1, <2>1, Concat
<1>3. b <= Len(Sent(s)) /\ b <= Len(All(s))
  <2>1. PICK f \in Nat, g \in Nat, h \in Nat :
            f = Len(s.file) /\ g = Len(s.stream) /\ h = Len(s.staging)
    BY <1>2
  <2>2. b <= f
    BY <2>1
  <2>3. b <= f + g /\ b <= f + g + h
    BY <2>2
  <2> QED
    BY <1>2, <2>1, <2>3
<1>4. /\ After(s.file \o s.stream, b) = After(s.file, b) \o s.stream
      /\ After(Sent(s) \o s.staging, b) = After(Sent(s), b) \o s.staging
  BY <1>1, <1>3, AfterConcat
<1> QED
  BY <1>1, <1>2, <1>3, <1>4, AfterIs

LEMMA AfterPrefix ==
    ASSUME NEW x \in Lines, NEW y \in Lines, NEW b \in Nat, b <= Len(x), IsPrefix(x, y)
    PROVE  b <= Len(y) /\ IsPrefix(After(x, b), After(y, b))
<1>1. /\ Len(x) \in Nat /\ Len(y) \in Nat /\ Len(x) <= Len(y)
      /\ \A i \in 1 .. Len(x) : x[i] = y[i]
  BY PrefixIs DEF Lines
<1>2. PICK u \in Lines : /\ u = After(x, b) /\ Len(u) = Len(x) - b
                         /\ \A i \in 1 .. Len(x) - b : u[i] = x[b + i]
  BY AfterIs
<1>3. PICK v \in Lines : /\ v = After(y, b) /\ Len(v) = Len(y) - b
                         /\ \A i \in 1 .. Len(y) - b : v[i] = y[b + i]
  <2>1. b <= Len(y)
    BY <1>1
  <2> QED
    BY <2>1, AfterIs
<1>4. Len(u) <= Len(v) /\ \A i \in 1 .. Len(u) : u[i] = v[i]
  BY <1>1, <1>2, <1>3
<1>5. b <= Len(y) /\ IsPrefix(u, v)
  BY <1>1, <1>4, PrefixIs
<1> QED
  BY <1>2, <1>3, <1>5

\* The line under way, for the child that an operation has come to.
UnderWay == IF op = "write" THEN <<given[Len(given)]>> ELSE <<>>

LEMMA ChildSteps ==
    ASSUME SinkInv, process = "running", op # "none", next \in Children,
           NEW out \in IF IsConsole(next) THEN ConsoleOutcomes(next) ELSE FileOutcomes(next)
    PROVE  /\ Stepped(child[next], out, options[next], UnderWay, now)
           /\ ~ out.thrown /\ op = "flush" => out.sink.stream = <<>> /\ out.sink.staging = <<>>
           /\ ~ out.thrown /\ op = "poll" => ~ IsDue(out.sink, options[next], now)
           /\ ~ out.thrown /\ IsConsole(next) => out.sink.staging = <<>>
<1> DEFINE s == child[next]
           o == options[next]
<1>1. /\ s \in SinkType /\ now \in Nat /\ BatchOK(s, o, now)
      /\ o \in Options \cup ConsoleOptions
      /\ IsConsole(next) <=> o \in ConsoleOptions
      /\ IsConsole(next) => s.staging = <<>>
  BY DEF SinkInv, Types, BatchInv, IsConsole, Children
<1>2. op = "write" => /\ Last(given) = given[Len(given)] /\ Last(given) \in LineType
                      /\ Last(given).at = now
  BY DEF SinkInv, Types, WriteInv, Last, Lines
<1> HIDE DEF s, o
<1>3. CASE IsConsole(next) /\ op = "write"
  <2>1. out \in ConsoleWrite(s, o, Last(given))
    BY <1>3 DEF ConsoleOutcomes, s, o
  <2> QED
    BY <1>1, <1>2, <1>3, <2>1, ConsoleSteps DEF UnderWay, s, o
<1>4. CASE IsConsole(next) /\ op = "flush"
  <2>1. out \in ConsoleFlush(s)
    BY <1>4 DEF ConsoleOutcomes, s
  <2>2. PICK line : line \in LineType
    <3>1. [number |-> 0, session |-> 0, size |-> 0, at |-> 0] \in LineType
      BY DEF LineType
    <3> QED
      BY <3>1
  <2> QED
    BY <1>1, <1>4, <2>1, <2>2, ConsoleSteps DEF UnderWay, s, o
<1>5. CASE IsConsole(next) /\ op = "poll"
  <2>1. out = Outcome(s, FALSE)
    BY <1>5 DEF ConsoleOutcomes, s
  <2>2. Stepped(s, out, o, <<>>, now) /\ out.sink = s
    BY <1>1, <2>1, IdleSteps DEF Outcome
  <2> QED
    BY <1>1, <1>5, <2>2 DEF UnderWay, IsDue, HasDeadline, s, o
<1>6. CASE ~ IsConsole(next) /\ op = "write"
  <2>1. out \in Write(s, o, Last(given)) /\ o \in Options
    BY <1>1, <1>6 DEF FileOutcomes, s, o
  <2> QED
    BY <1>1, <1>2, <1>6, <2>1, WriteSteps DEF UnderWay, s, o
<1>7. CASE ~ IsConsole(next) /\ op = "flush"
  <2>1. out \in DrainStagingBuffer(s, o, TRUE) /\ o \in Options
    BY <1>1, <1>7 DEF FileOutcomes, Flush, s, o
  <2> QED
    BY <1>1, <1>7, <2>1, DrainSteps DEF UnderWay, s, o
<1>8. CASE ~ IsConsole(next) /\ op = "poll"
  <2>1. /\ o \in Options
        /\ \/ out \in DrainStagingBuffer(s, o, TRUE)
           \/ ~ IsDue(s, o, now) /\ out = Outcome(s, FALSE)
    BY <1>1, <1>8 DEF FileOutcomes, FlushIfDue, s, o
  <2>2. CASE out \in DrainStagingBuffer(s, o, TRUE)
    <3>1. Stepped(s, out, o, <<>>, now) /\ (~ out.thrown => out.sink.staging = <<>>)
      BY <1>1, <2>1, <2>2, DrainSteps
    <3> QED
      BY <1>8, <3>1 DEF UnderWay, IsDue, HasDeadline, s, o
  <2>3. CASE ~ IsDue(s, o, now) /\ out = Outcome(s, FALSE)
    <3>1. Stepped(s, out, o, <<>>, now) /\ out.sink = s
      BY <1>1, <2>3, IdleSteps DEF Outcome
    <3> QED
      BY <1>8, <2>3, <3>1 DEF UnderWay, s, o
  <2> QED
    BY <2>1, <2>2, <2>3
<1> QED
  BY <1>3, <1>4, <1>5, <1>6, <1>7, <1>8 DEF SinkInv, Types

\* A sink that has just been opened over a file.
LEMMA OpenedIs ==
    ASSUME NEW content \in Lines
    PROVE  /\ Opened(content) \in SinkType
           /\ Opened(content).file = content /\ Opened(content).staging = <<>>
           /\ Opened(content).stream = <<>>
           /\ Sent(Opened(content)) = content /\ All(Opened(content)) = content
<1>1. /\ Opened(content) \in SinkType
      /\ Opened(content).file = content /\ Opened(content).staging = <<>>
      /\ Opened(content).stream = <<>>
  BY Concat DEF Opened, SinkType
<1> QED
  BY <1>1, LinesOf

LEMMA OpenChildIs ==
    ASSUME NEW i \in Children, NEW content \in Lines
    PROVE  \E c \in Lines : OpenChild(i, content) = Opened(c) /\ (content = <<>> => c = <<>>)
BY Concat DEF OpenChild, Open

LEMMA AfterNothing ==
    ASSUME NEW x \in Lines
    PROVE  After(x, Len(x)) = <<>>
<1>1. Len(x) \in Nat
  BY DEF Lines
<1> QED
  BY <1>1 DEF After, Lines

LEMMA SinkInit == Init => SinkInv
<1> SUFFICES ASSUME Init PROVE SinkInv
  OBVIOUS
<1>1. <<>> \in Lines /\ Len(<<>>) = 0 /\ options \in Seq(Options \cup ConsoleOptions)
  BY Concat, MultiSinkAssumption DEF Init
<1>2. Len(options) \in Nat /\ (Children # {} => 1 \in Children)
  BY <1>1 DEF Children
<1>3. \A i \in Children : child[i] = Opened(<<>>)
  <2> SUFFICES ASSUME NEW i \in Children PROVE child[i] = Opened(<<>>)
    OBVIOUS
  <2>1. child[i] = OpenChild(i, <<>>)
    BY DEF Init
  <2> QED
    BY <1>1, <2>1, OpenChildIs
<1>4. \A i \in Children : /\ child[i] \in SinkType /\ child[i].file = <<>>
                          /\ child[i].staging = <<>> /\ child[i].stream = <<>>
                          /\ Sent(child[i]) = <<>> /\ All(child[i]) = <<>>
  BY <1>1, <1>3, OpenedIs
<1>5. Types
  <2>1. child \in [Children -> SinkType]
    BY <1>4 DEF Init
  <2> QED
    BY <1>1, <1>2, <2>1 DEF Init, Types
<1>6. HeldInv
  <2>1. After(<<>>, 0) = <<>> /\ IsPrefix(<<>>, <<>>)
    BY <1>1, AfterNothing, PrefixProperties
  <2> QED
    BY <1>1, <1>4, <2>1 DEF Init, HeldInv, GivenTo
<1>7. WriteInv /\ FlushInv /\ BatchInv /\ PollInv
  BY <1>1, <1>4 DEF Init, WriteInv, FlushInv, BatchInv, PollInv, BatchOK
<1> QED
  BY <1>5, <1>6, <1>7 DEF SinkInv

LEMMA BeginNext ==
    ASSUME SinkInv, BeginWrite \/ BeginFlush \/ BeginFlushIfDue
    PROVE  SinkInv'
<1>i. /\ Types /\ WriteInv /\ HeldInv /\ FlushInv /\ BatchInv /\ PollInv
      /\ process = "running" /\ op = "none" /\ process' = "running" /\ next' = 1
      /\ UNCHANGED <<options, child, now, restarts, flushed, base>>
      /\ op' \in {"write", "flush", "poll"}
  BY DEF SinkInv, BeginWrite, BeginFlush, BeginFlushIfDue, Begin
<1>1. /\ Children' = Children
      /\ \A i \in Children : IsConsole(i)' <=> IsConsole(i)
  BY <1>i DEF Children, IsConsole
<1>2. 1 \in Nat \ {0} /\ (Children # {} => 1 \in Children)
  BY <1>i DEF Types, Children
<1>3. /\ given' \in Lines
      /\ IsPrefix(given, given')
      /\ op' = "write" => /\ given' # <<>> /\ given'[Len(given')].at = now
                          /\ Front(given') = given
      /\ op' # "write" => given' = given
  <2>1. CASE BeginWrite
    <3>1. PICK line : /\ given' = Append(given, line) /\ line \in LineType /\ line.at = now
                      /\ op' = "write"
      <4>1. PICK size \in Sizes :
                given' = Append(given, [number |-> Len(given) + 1, session |-> restarts,
                                        size |-> size, at |-> now])
        BY <2>1 DEF BeginWrite
      <4>2. [number |-> Len(given) + 1, session |-> restarts, size |-> size, at |-> now]
                \in LineType
        BY <1>i, MultiSinkAssumption DEF Types, Lines, LineType
      <4> QED
        BY <2>1, <4>1, <4>2 DEF BeginWrite, Begin
    <3>2. given \in Seq(LineType)
      BY <1>i DEF Types, Lines
    <3>3. /\ Append(given, line) \in Seq(LineType) /\ Append(given, line) # <<>>
          /\ Len(Append(given, line)) = Len(given) + 1 /\ Len(given) \in Nat
          /\ Append(given, line)[Len(given) + 1] = line
          /\ Append(given, line) = given \o <<line>>
          /\ SubSeq(Append(given, line), 1, Len(given)) = given
      BY <3>1, <3>2, AppendProperties, AppendIsConcat
    <3>4. IsPrefix(given, given \o <<line>>)
      <4>1. <<line>> \in Lines
        BY <3>1 DEF Lines
      <4> QED
        BY <1>i, <4>1, PrefixProperties DEF Types
    <3>5. Front(given') = given
      BY <3>1, <3>3 DEF Front
    <3> QED
      BY <3>1, <3>3, <3>4, <3>5 DEF Lines
  <2>2. CASE BeginFlush \/ BeginFlushIfDue
    BY <2>2, <1>i, PrefixProperties DEF Types, BeginFlush, BeginFlushIfDue, Begin
  <2> QED
    BY <2>1, <2>2
<1>4. Types' /\ WriteInv'
  BY <1>i, <1>1, <1>2, <1>3 DEF Types, WriteInv
<1>5. HeldInv'
  <2>1. \A i \in Children : GivenTo(i) = given /\ GivenTo(i)' = given /\ i >= 1
    BY <1>i, <1>3 DEF GivenTo, Children
  <2>2. ASSUME NEW i \in Children
        PROVE  IsPrefix(After(Sent(child[i]), base[i]), given')
    <3>1. /\ child[i] \in SinkType /\ base[i] \in Nat /\ base[i] <= Len(child[i].file)
          /\ given \in Lines
          /\ IsPrefix(After(Sent(child[i]), base[i]), given)
      BY <1>i DEF Types, HeldInv
    <3>2. After(Sent(child[i]), base[i]) \in Lines
      BY <3>1, Tiers
    <3> QED
      BY <1>3, <3>1, <3>2, PrefixProperties
  <2> QED
    BY <1>i, <1>1, <2>1, <2>2 DEF HeldInv
<1>6. FlushInv' /\ BatchInv' /\ PollInv'
  BY <1>i, <1>1 DEF FlushInv, BatchInv, PollInv, Children
<1> QED
  BY <1>4, <1>5, <1>6 DEF SinkInv

\* The child that an operation has come to is left with all that is given, or has thrown.
LEMMA ChildCatchesUp ==
    ASSUME SinkInv, process = "running", op # "none", next \in Children, NEW out,
           Stepped(child[next], out, options[next], UnderWay, now)
    PROVE  /\ base[next] <= Len(out.sink.file)
           /\ Len(child[next].file) <= Len(out.sink.file)
           /\ ~ out.thrown => After(All(out.sink), base[next]) = given
           /\ IsPrefix(After(Sent(out.sink), base[next]), given)
<1> DEFINE s == child[next]
           b == base[next]
<1>i. /\ s \in SinkType /\ b \in Nat /\ b <= Len(s.file) /\ given \in Lines
      /\ After(All(s), b) = GivenTo(next)
      /\ op = "write" => given # <<>>
      /\ out.sink \in SinkType
      /\ \E g \in Lines : out.sink.file = s.file \o g
      /\ IsPrefix(Sent(out.sink), All(s) \o UnderWay)
      /\ ~ out.thrown => All(out.sink) = All(s) \o UnderWay
  BY DEF SinkInv, Types, WriteInv, HeldInv, Stepped
<1> HIDE DEF s, b
<1>1. /\ b <= Len(out.sink.file) /\ Len(s.file) <= Len(out.sink.file)
  <2>1. PICK g \in Lines : out.sink.file = s.file \o g
    BY <1>i
  <2>2. PICK f \in Lines : f = s.file
    BY <1>i, LinesOf
  <2>3. PICK z \in Lines : z = f \o g /\ Len(z) = Len(f) + Len(g) /\ Len(f) \in Nat /\ Len(g) \in Nat
    BY ConcatElements
  <2>4. Len(f) <= Len(z) /\ b <= Len(f)
    BY <1>i, <2>2, <2>3
  <2>5. b <= Len(z)
    BY <1>i, <2>3, <2>4
  <2> QED
    BY <2>1, <2>2, <2>3, <2>4, <2>5
<1>2. UnderWay \in Lines /\ All(s) \in Lines /\ All(s) \o UnderWay \in Lines /\ b <= Len(All(s))
  <2>1. UnderWay \in Lines
    <3>1. CASE op = "write"
      <4>1. given[Len(given)] \in LineType
        BY <1>i, <3>1 DEF Lines
      <4> QED
        BY <3>1, <4>1 DEF UnderWay, Lines
    <3>2. CASE op # "write"
      BY <3>2, Concat DEF UnderWay
    <3> QED
      BY <3>1, <3>2
  <2>2. All(s) \in Lines /\ b <= Len(All(s))
    <3>1. s \in SinkType /\ b \in Nat /\ b <= Len(s.file)
      BY <1>i
    <3> QED
      BY <3>1, LinesOf, Tiers
  <2> QED
    BY <2>1, <2>2, Concat
<1>3. GivenTo(next) \o UnderWay = given
  <2>1. next \in Nat
    BY DEF SinkInv, Types
  <2>2. CASE op = "write"
    <3>1. given \in Seq(LineType) /\ Len(given) \in Nat \ {0} /\ next >= next
      BY <1>i, <2>1, <2>2, EmptySeq DEF Lines
    <3>2. Len(given) \in 1 .. Len(given) /\ 1 \in 1 .. Len(given)
      BY <3>1
    <3>3. SubSeq(given, 1, Len(given)) = SubSeq(given, 1, Len(given) - 1) \o <<given[Len(given)]>>
      BY <3>1, <3>2, SubSeqRecursiveSecond
    <3>4. SubSeq(given, 1, Len(given)) = given
      BY <3>1, SubSeqFull
    <3> QED
      BY <2>2, <3>1, <3>3, <3>4 DEF GivenTo, UnderWay, Front
  <2>3. CASE op # "write"
    BY <1>i, <2>3, Concat DEF GivenTo, UnderWay
  <2> QED
    BY <2>2, <2>3
<1>4. After(All(s) \o UnderWay, b) = given
  <2>1. PICK x \in Lines, y \in Lines : x = All(s) /\ y = UnderWay
    BY <1>2
  <2>2. After(x \o y, b) = After(x, b) \o y
    <3>1. b \in Nat /\ b <= Len(x)
      BY <1>i, <1>2, <2>1
    <3> QED
      BY <3>1, AfterConcat
  <2> QED
    BY <1>i, <1>3, <2>1, <2>2
<1>5. IsPrefix(After(Sent(out.sink), b), given)
  <2>1. PICK x \in Lines, y \in Lines :
            x = Sent(out.sink) /\ y = All(s) \o UnderWay /\ b <= Len(x)
    BY <1>i, <1>1, <1>2, LinesOf, Tiers
  <2>2. IsPrefix(After(x, b), After(y, b))
    BY <1>i, <2>1, AfterPrefix
  <2> QED
    BY <1>4, <2>1, <2>2
<1> QED
  BY <1>i, <1>1, <1>4, <1>5 DEF s, b

LEMMA StepChildNext ==
    ASSUME SinkInv, StepChild
    PROVE  SinkInv'
<1>i. /\ Types /\ WriteInv /\ HeldInv /\ FlushInv /\ BatchInv /\ PollInv
      /\ process = "running" /\ op # "none"
      /\ UNCHANGED <<options, now, restarts, given, base>>
      /\ next \in Nat \ {0} /\ Len(options) \in Nat /\ Len(given) \in Nat
  BY DEF SinkInv, StepChild, Types, Lines
<1>1. PICK out \in IF IsConsole(next) THEN ConsoleOutcomes(next) ELSE FileOutcomes(next) :
         /\ child' = [child EXCEPT ![next] = out.sink]
         /\ process' = IF out.thrown THEN "failed" ELSE "running"
         /\ IF out.thrown THEN UNCHANGED <<op, next, flushed>>
            ELSE IF ~ Done THEN next' = next + 1 /\ UNCHANGED <<op, flushed>>
            ELSE /\ op' = "none" /\ next' = 1
                 /\ flushed' = IF op = "flush" THEN Len(given) ELSE flushed
  BY DEF StepChild
<1>2. /\ Children' = Children /\ Children = 1 .. Len(options)
      /\ \A i : IsConsole(i)' <=> IsConsole(i)
  BY <1>i DEF Children, IsConsole
<1>3. CASE Children = {}
  <2>1. Types'
    <3>1. child' \in [Children -> SinkType]
      BY <1>i, <1>1, <1>3 DEF Types
    <3>2. /\ next' \in Nat \ {0} /\ op' \in {"none", "write", "flush", "poll"}
          /\ flushed' \in Nat /\ process' \in {"running", "failed", "gone"}
      BY <1>i, <1>1 DEF Types
    <3> QED
      BY <1>i, <1>2, <1>3, <3>1, <3>2 DEF Types
  <2>2. WriteInv'
    BY <1>i, <1>1 DEF WriteInv
  <2>3. HeldInv' /\ FlushInv' /\ BatchInv' /\ PollInv'
    BY <1>2, <1>3 DEF HeldInv, FlushInv, BatchInv, PollInv
  <2> QED
    BY <2>1, <2>2, <2>3 DEF SinkInv
<1>4. CASE Children # {}
  <2>1. next \in Children
    BY <1>i, <1>4 DEF Types
  <2>2. /\ Stepped(child[next], out, options[next], UnderWay, now)
        /\ ~ out.thrown /\ op = "flush" => out.sink.stream = <<>> /\ out.sink.staging = <<>>
        /\ ~ out.thrown /\ op = "poll" => ~ IsDue(out.sink, options[next], now)
        /\ ~ out.thrown /\ IsConsole(next) => out.sink.staging = <<>>
    BY <1>i, <2>1, ChildSteps
  <2>3. /\ base[next] <= Len(out.sink.file)
        /\ Len(child[next].file) <= Len(out.sink.file)
        /\ ~ out.thrown => After(All(out.sink), base[next]) = given
        /\ IsPrefix(After(Sent(out.sink), base[next]), given)
    BY <1>i, <2>1, <2>2, ChildCatchesUp
  <2>4. /\ child'[next] = out.sink /\ out.sink \in SinkType
        /\ \A i \in Children : i # next => child'[i] = child[i]
    BY <1>i, <1>1, <2>1, <2>2 DEF Types, Stepped
  <2>5. /\ process' = "running" <=> ~ out.thrown
        /\ out.thrown => UNCHANGED <<op, next, flushed>>
        /\ ~ out.thrown /\ next # Len(options) => next' = next + 1 /\ UNCHANGED <<op, flushed>>
        /\ ~ out.thrown /\ next = Len(options) =>
              op' = "none" /\ next' = 1 /\ flushed' = IF op = "flush" THEN Len(given) ELSE flushed
    BY <1>1 DEF Done
  <2>6. Types'
    <3>1. child' \in [Children -> SinkType]
      BY <1>i, <1>1, <2>2 DEF Types, Stepped
    <3>2. next' \in Children
      BY <1>i, <1>2, <2>1, <2>5
    <3> QED
      BY <1>i, <1>1, <1>2, <2>5, <3>1, <3>2 DEF Types
  <2>7. WriteInv'
    BY <1>i, <2>5 DEF WriteInv
  <2>8. HeldInv'
    <3>1. ASSUME NEW i \in Children, process' = "running" PROVE After(All(child'[i]), base[i]) = GivenTo(i)'
      <4>1. CASE i = next
        BY <1>i, <1>2, <2>1, <2>3, <2>4, <2>5, <3>1, <4>1 DEF GivenTo
      <4>2. CASE i # next
        <5>1. GivenTo(i)' = GivenTo(i)
          BY <1>i, <1>2, <2>1, <2>5, <3>1, <4>2 DEF GivenTo
        <5> QED
          BY <1>i, <2>4, <4>2, <5>1 DEF HeldInv
      <4> QED
        BY <4>1, <4>2
    <3>2. ASSUME NEW i \in Children
          PROVE  /\ base[i] <= Len(child'[i].file)
                 /\ IsPrefix(After(Sent(child'[i]), base[i]), given)
      BY <1>i, <2>3, <2>4 DEF HeldInv
    <3> QED
      BY <1>i, <1>2, <3>1, <3>2 DEF HeldInv
  <2>9. FlushInv'
    <3>1. ASSUME NEW i \in Children, process' = "running", op' = "flush", i < next'
          PROVE  child'[i].stream = <<>> /\ child'[i].staging = <<>>
      BY <1>i, <1>2, <2>1, <2>2, <2>4, <2>5, <3>1 DEF FlushInv
    <3>2. ASSUME NEW i \in Children PROVE flushed' <= Len(child'[i].file) - base[i]
      <4>1. CASE flushed' = flushed
        <5>1. flushed <= Len(child[i].file) - base[i]
          BY <1>i DEF FlushInv
        <5>2. Len(child[i].file) \in Nat /\ Len(child'[i].file) \in Nat /\ base[i] \in Nat
          <6>1. child[i] \in SinkType /\ child'[i] \in SinkType /\ base[i] \in Nat
            BY <1>i, <1>2, <2>6 DEF Types
          <6>2. child[i].file \in Lines /\ child'[i].file \in Lines
            BY <6>1 DEF SinkType
          <6> QED
            BY <6>1, <6>2 DEF Lines
        <5>3. Len(child[i].file) <= Len(child'[i].file)
          BY <2>3, <2>4, <5>2
        <5> QED
          BY <1>i, <4>1, <5>1, <5>2, <5>3 DEF Types
      <4>2. CASE flushed' # flushed
        <5>1. /\ ~ out.thrown /\ next = Len(options) /\ op = "flush" /\ flushed' = Len(given)
              /\ process' = "running"
          BY <2>5, <4>2
        <5>2. child'[i].stream = <<>> /\ child'[i].staging = <<>>
          <6>1. i = next \/ i < next
            BY <1>i, <1>2, <5>1
          <6> QED
            BY <1>i, <2>1, <2>2, <2>4, <5>1, <6>1 DEF FlushInv
        <5>3. PICK s \in SinkType, b \in Nat :
                  s = child'[i] /\ b = base[i] /\ b <= Len(s.file) /\ After(All(s), b) = given
          <6>1. GivenTo(i)' = given
            BY <1>i, <2>5, <5>1 DEF GivenTo
          <6> QED
            BY <1>i, <1>2, <2>6, <2>8, <5>1, <6>1 DEF Types, HeldInv
        <5>4. All(s) = s.file
          BY <5>2, <5>3, LinesOf
        <5>5. Len(After(s.file, b)) = Len(s.file) - b
          BY <5>3, Tiers
        <5> QED
          BY <1>i, <5>1, <5>3, <5>4, <5>5
      <4> QED
        BY <4>1, <4>2
    <3> QED
      BY <1>i, <1>2, <3>1, <3>2 DEF FlushInv
  <2>10. BatchInv'
    BY <1>i, <1>2, <2>1, <2>2, <2>4, <2>5 DEF BatchInv, Stepped
  <2>11. PollInv'
    BY <1>i, <1>2, <2>1, <2>2, <2>4, <2>5 DEF PollInv
  <2> QED
    BY <2>6, <2>7, <2>8, <2>9, <2>10, <2>11 DEF SinkInv
<1> QED
  BY <1>3, <1>4

LEMMA TickNext ==
    ASSUME SinkInv, Tick
    PROVE  SinkInv'
<1>i. /\ Types /\ WriteInv /\ HeldInv /\ FlushInv /\ BatchInv /\ PollInv
      /\ process = "running" /\ op = "none" /\ WaitsUntilNext /\ now' = now + 1 /\ now \in Nat
      /\ UNCHANGED <<options, child, op, next, process, restarts, given, flushed, base>>
  BY DEF SinkInv, Tick, Types
<1>1. Children' = Children
  BY <1>i DEF Children
<1>2. ASSUME NEW i \in Children PROVE BatchOK(child[i], options[i], now + 1)
  <2> SUFFICES ASSUME child[i].staging # <<>>
               PROVE  /\ child[i].batchStartedAt \in Nat
                      /\ child[i].batchStartedAt <= now + 1
                      /\ \A n \in 1 .. Len(child[i].staging) :
                            child[i].batchStartedAt <= child[i].staging[n].at
                      /\ options[i].flushInterval > 0 =>
                            now + 1 <= child[i].batchStartedAt + options[i].flushInterval
    BY DEF BatchOK
  <2>1. /\ child[i].batchStartedAt \in Nat /\ child[i].batchStartedAt <= now
        /\ \A n \in 1 .. Len(child[i].staging) :
              child[i].batchStartedAt <= child[i].staging[n].at
    BY <1>i DEF BatchInv, BatchOK
  <2>2. ASSUME options[i].flushInterval > 0
        PROVE  now + 1 <= child[i].batchStartedAt + options[i].flushInterval
    <3>1. options[i] \in Options
      <4>1. options[i] \in Options \cup ConsoleOptions
        BY <1>i DEF Types, Children
      <4> QED
        BY <1>i, <4>1 DEF BatchInv, IsConsole
    <3>2. ~ (now >= child[i].batchStartedAt + options[i].flushInterval)
      BY <1>i, <2>1, <2>2, NoneAssumption
         DEF WaitsUntilNext, IsDue, HasDeadline, NextAutoFlushTime
    <3>3. options[i].flushInterval \in Nat
      BY <3>1 DEF Options
    <3> QED
      BY <1>i, <2>1, <3>2, <3>3
  <2> QED
    BY <1>i, <2>1, <2>2
<1> QED
  BY <1>i, <1>1, <1>2
     DEF SinkInv, Types, WriteInv, HeldInv, FlushInv, BatchInv, PollInv, GivenTo, IsConsole

\* The files of the children when the process is gone hold what was in their streams, or less.
LEMMA GoneFiles ==
    ASSUME SinkInv, Crash \/ Destroy
    PROVE  \E file \in [Children -> Lines] :
              /\ child' = [i \in Children |-> Opened(file[i])]
              /\ \A i \in Children : \E v \in SinkType : /\ Sent(v) = Sent(child[i]) /\ v.file = file[i]
                                                         /\ \E g \in Lines : v.file = child[i].file \o g
<1>i. Types
  BY DEF SinkInv
<1>0. \A i \in Children : /\ child[i] \in SinkType /\ child[i].file \in Lines
                          /\ child[i].file = child[i].file \o <<>> /\ <<>> \in Lines
                          /\ Sent(child[i]) \o <<>> = Sent(child[i])
  BY <1>i, LinesOf, Concat DEF Types
<1>1. CASE Crash
  <2> DEFINE f == [i \in Children |-> child[i].file]
  <2>1. f \in [Children -> Lines]
    BY <1>0
  <2>2. child' = [i \in Children |-> Opened(f[i])]
    BY <1>1 DEF Crash
  <2>3. \A i \in Children : \E v \in SinkType : /\ Sent(v) = Sent(child[i]) /\ v.file = f[i]
                                                /\ \E g \in Lines : v.file = child[i].file \o g
    BY <1>0
  <2> QED
    BY <2>1, <2>2, <2>3
<1>2. CASE Destroy
  <2>1. PICK f \in [Children -> UNION { Destroyed(child[i], TRUE) : i \in Children }] :
            /\ \A i \in Children : f[i] \in Destroyed(child[i], process = "failed" /\ i = next)
            /\ child' = [i \in Children |-> Opened(f[i])]
    BY <1>2 DEF Destroy
  <2>2. ASSUME NEW i \in Children
        PROVE  \E v \in SinkType : /\ Sent(v) = Sent(child[i]) /\ v.file = f[i]
                                   /\ \E g \in Lines : v.file = child[i].file \o g
    <3>1. PICK v \in Streamed(child[i], <<>>) \cup {Flushed(child[i])} : v.file = f[i]
      BY <2>1 DEF Destroyed
    <3>2. CASE v \in Streamed(child[i], <<>>)
      BY <1>0, <3>1, <3>2, StreamedIs
    <3>3. CASE v = Flushed(child[i])
      BY <1>0, <3>1, <3>3, FlushedIs
    <3> QED
      BY <3>2, <3>3
  <2>3. f \in [Children -> Lines]
    BY <2>1, <2>2 DEF SinkType
  <2> QED
    BY <2>1, <2>2, <2>3
<1> QED
  BY <1>1, <1>2

LEMMA GoneNext ==
    ASSUME SinkInv, Crash \/ Destroy
    PROVE  SinkInv'
<1>i. /\ Types /\ HeldInv /\ FlushInv
      /\ UNCHANGED <<options, now, restarts, given, flushed, base>>
      /\ process' = "gone" /\ op' = "none" /\ next' = 1 /\ Children' = Children
  BY DEF SinkInv, Crash, Destroy, Children
<1>1. PICK file \in [Children -> Lines] :
          /\ child' = [i \in Children |-> Opened(file[i])]
          /\ \A i \in Children : \E v \in SinkType : /\ Sent(v) = Sent(child[i]) /\ v.file = file[i]
                                                     /\ \E g \in Lines : v.file = child[i].file \o g
  BY GoneFiles
<1>2. ASSUME NEW i \in Children
      PROVE  /\ child'[i] \in SinkType
             /\ base[i] <= Len(child'[i].file)
             /\ IsPrefix(After(Sent(child'[i]), base[i]), given)
             /\ flushed <= Len(child'[i].file) - base[i]
  <2>1. PICK s \in SinkType, b \in Nat :
            /\ s = child[i] /\ b = base[i] /\ b <= Len(s.file)
            /\ IsPrefix(After(Sent(s), b), given) /\ flushed <= Len(s.file) - b
            /\ given \in Lines /\ flushed \in Nat
    BY <1>i DEF Types, HeldInv, FlushInv
  <2>2. PICK v \in SinkType, g \in Lines :
            Sent(v) = Sent(s) /\ v.file = file[i] /\ v.file = s.file \o g
    BY <1>1, <2>1
  <2>3. child'[i] = Opened(v.file) /\ v.file \in Lines /\ s.file \in Lines
    BY <1>1, <2>2, LinesOf
  <2>4. PICK t \in SinkType : t = child'[i] /\ t.file = v.file /\ Sent(t) = v.file
    BY <2>3, OpenedIs
  <2>5. PICK x \in Lines, z \in Lines : x = s.file /\ z = v.file /\ Len(x) <= Len(z)
                                        /\ Len(x) \in Nat /\ Len(z) \in Nat
    <3>1. PICK x \in Lines : x = s.file
      BY <2>3
    <3>2. PICK z \in Lines : z = x \o g /\ Len(z) = Len(x) + Len(g)
                             /\ Len(x) \in Nat /\ Len(g) \in Nat
      BY ConcatElements
    <3>3. Len(x) <= Len(z) /\ Len(z) \in Nat
      BY <3>2
    <3> QED
      BY <2>2, <3>1, <3>2, <3>3
  <2>6. b <= Len(z) /\ flushed <= Len(z) - b
    BY <2>1, <2>5
  <2>7. IsPrefix(After(z, b), After(Sent(v), b))
    <3>1. v.stream \in Lines /\ After(v.file, b) \in Lines
          /\ After(Sent(v), b) = After(v.file, b) \o v.stream
      BY <2>5, <2>6, LinesOf, Tiers
    <3> QED
      BY <2>5, <3>1, PrefixProperties
  <2>8. After(z, b) \in Lines /\ After(Sent(v), b) \in Lines
    BY <2>5, <2>6, LinesOf, Tiers
  <2>9. IsPrefix(After(z, b), given)
    BY <2>1, <2>2, <2>7, <2>8, PrefixProperties
  <2> QED
    BY <2>1, <2>4, <2>5, <2>6, <2>9
<1>3. Types'
  <2>1. child' \in [Children -> SinkType]
    BY <1>1, <1>2
  <2>2. Children # {} => 1 \in Children
    BY <1>i DEF Types, Children
  <2> QED
    BY <1>i, <2>1, <2>2 DEF Types
<1>4. HeldInv' /\ FlushInv' /\ WriteInv' /\ BatchInv' /\ PollInv'
  BY <1>i, <1>2 DEF HeldInv, FlushInv, WriteInv, BatchInv, PollInv
<1> QED
  BY <1>3, <1>4 DEF SinkInv

LEMMA RestartNext ==
    ASSUME SinkInv, Restart
    PROVE  SinkInv'
<1>i. /\ Types
      /\ options' = options /\ now' = now /\ process' = "running" /\ op' = "none" /\ next' = 1
      /\ given' = <<>> /\ flushed' = 0 /\ restarts' = restarts + 1
      /\ child' = [i \in Children |-> OpenChild(i, child[i].file)]
      /\ base' = [i \in Children |-> Len(child'[i].file)]
      /\ Children' = Children /\ <<>> \in Lines
  BY Concat DEF SinkInv, Restart, Children
<1>1. ASSUME NEW i \in Children
      PROVE  /\ child'[i] \in SinkType
             /\ base'[i] = Len(child'[i].file) /\ Len(child'[i].file) \in Nat
             /\ After(All(child'[i]), base'[i]) = <<>> /\ After(Sent(child'[i]), base'[i]) = <<>>
             /\ child'[i].staging = <<>> /\ child'[i].stream = <<>>
  <2>1. child[i].file \in Lines
    BY <1>i DEF Types, SinkType
  <2>2. PICK c \in Lines : child'[i] = Opened(c)
    BY <1>i, <2>1, OpenChildIs
  <2>3. PICK s \in SinkType : /\ s = child'[i] /\ s.file = c /\ Sent(s) = c /\ All(s) = c
                              /\ s.staging = <<>> /\ s.stream = <<>>
    BY <2>2, OpenedIs
  <2>4. base'[i] = Len(c) /\ Len(c) \in Nat
    BY <1>i, <2>3 DEF Lines
  <2> QED
    BY <2>3, <2>4, AfterNothing
<1>2. Types'
  <2>1. child' \in [Children -> SinkType] /\ base' \in [Children -> Nat]
    BY <1>i, <1>1
  <2>2. Children # {} => 1 \in Children
    BY <1>i DEF Types, Children
  <2> QED
    BY <1>i, <2>1, <2>2 DEF Types
<1>3. HeldInv'
  <2>1. IsPrefix(<<>>, <<>>)
    BY <1>i, PrefixProperties
  <2> QED
    BY <1>i, <1>1, <2>1 DEF HeldInv, GivenTo
<1>4. WriteInv' /\ FlushInv' /\ BatchInv' /\ PollInv'
  BY <1>i, <1>1 DEF WriteInv, FlushInv, BatchInv, BatchOK, PollInv
<1> QED
  BY <1>2, <1>3, <1>4 DEF SinkInv

LEMMA SinkNext == SinkInv /\ [Next]_vars => SinkInv'
<1> SUFFICES ASSUME SinkInv, [Next]_vars PROVE SinkInv'
  OBVIOUS
<1>1. CASE UNCHANGED vars
  BY <1>1 DEF vars, SinkInv, Types, WriteInv, HeldInv, FlushInv, BatchInv, PollInv, Children,
              GivenTo, IsConsole
<1> QED
  BY <1>1, BeginNext, StepChildNext, TickNext, GoneNext, RestartNext DEF Next

THEOREM SinkInvariant == Spec => []SinkInv
BY SinkInit, SinkNext, PTL DEF Spec

(***************************************************************************)
(* The theorems.                                                           *)
(***************************************************************************)

\* The tiers of a child, as the properties state them.
LEMMA TiersOf ==
    ASSUME SinkInv, NEW i \in Children
    PROVE  /\ InFile(i) = After(child[i].file, base[i])
           /\ Held(i) = After(All(child[i]), base[i])
           /\ InFile(i) \in Lines /\ given \in Lines /\ After(Sent(child[i]), base[i]) \in Lines
           /\ IsPrefix(InFile(i), After(Sent(child[i]), base[i]))
           /\ Len(InFile(i)) = Len(child[i].file) - base[i]
<1>1. PICK s \in SinkType, b \in Nat : s = child[i] /\ b = base[i] /\ b <= Len(s.file)
  BY DEF SinkInv, Types, HeldInv
<1>2. InFile(i) = After(s.file, b)
  BY <1>1 DEF InFile, After
<1>3. Held(i) = (After(s.file, b) \o s.stream) \o s.staging
  BY <1>1, <1>2 DEF Held
<1>4. /\ After(s.file, b) \in Lines /\ After(Sent(s), b) \in Lines /\ s.stream \in Lines
      /\ After(Sent(s), b) = After(s.file, b) \o s.stream
      /\ After(All(s), b) = After(Sent(s), b) \o s.staging
      /\ Len(After(s.file, b)) = Len(s.file) - b
  BY <1>1, LinesOf, Tiers
<1>5. IsPrefix(After(s.file, b), After(s.file, b) \o s.stream)
  BY <1>4, PrefixProperties
<1>6. given \in Lines
  BY DEF SinkInv, Types
<1> QED
  BY <1>1, <1>2, <1>3, <1>4, <1>5, <1>6

\* A child's file holds a beginning of the lines of this session.
LEMMA InFileIsPrefix ==
    SinkInv => \A i \in Children : IsPrefix(InFile(i), given)
<1> SUFFICES ASSUME SinkInv, NEW i \in Children PROVE IsPrefix(InFile(i), given)
  OBVIOUS
<1>1. IsPrefix(After(Sent(child[i]), base[i]), given)
  BY DEF SinkInv, HeldInv
<1> QED
  BY <1>1, TiersOf, PrefixProperties

\* Whatever the children are and however writing to them fails, each holds all the lines it
\* has been given in order, and its file a beginning of them, across crashes and restarts.
THEOREM NoLineIsLostOrRepeatedTheorem == Spec => []NoLineIsLostOrRepeated
<1>1. SinkInv => NoLineIsLostOrRepeated
  <2> SUFFICES ASSUME SinkInv, NEW i \in Children
               PROVE  /\ process = "running" => Held(i) = GivenTo(i)
                      /\ IsPrefix(InFile(i), given)
    BY DEF NoLineIsLostOrRepeated
  <2>1. /\ process = "running" => After(All(child[i]), base[i]) = GivenTo(i)
        /\ IsPrefix(After(Sent(child[i]), base[i]), given)
    BY DEF SinkInv, HeldInv
  <2> QED
    BY <2>1, TiersOf, PrefixProperties
<1> QED
  BY <1>1, SinkInvariant, PTL

\* A Flush that has returned has put every line before it into every file, for good.
THEOREM FlushedLinesAreInEveryFileTheorem == Spec => []FlushedLinesAreInEveryFile
<1>1. SinkInv => FlushedLinesAreInEveryFile
  <2> SUFFICES ASSUME SinkInv, NEW i \in Children PROVE Len(InFile(i)) >= flushed
    BY DEF FlushedLinesAreInEveryFile
  <2>1. flushed <= Len(child[i].file) - base[i]
    BY DEF SinkInv, FlushInv
  <2>2. PICK n \in Int : n = Len(InFile(i)) /\ n = Len(child[i].file) - base[i]
    <3>1. Len(InFile(i)) \in Nat
      BY TiersOf DEF Lines
    <3> QED
      BY <3>1, TiersOf
  <2> QED
    BY <2>1, <2>2 DEF SinkInv, Types
<1> QED
  BY <1>1, SinkInvariant, PTL

\* A worker that waits no longer than NextAutoFlushTime keeps no line staged beyond the
\* child's interval.
THEOREM StagedLinesMeetIntervalTheorem == Spec => []StagedLinesMeetInterval
<1>1. SinkInv => StagedLinesMeetInterval
  <2> SUFFICES ASSUME SinkInv, process = "running", NEW i \in Children,
                      NEW n \in 1 .. Len(child[i].staging), options[i].flushInterval > 0
               PROVE  now <= child[i].staging[n].at + options[i].flushInterval
    BY DEF StagedLinesMeetInterval
  <2>1. PICK s \in SinkType : s = child[i] /\ s.staging \in Seq(LineType)
    BY DEF SinkInv, Types, SinkType, Lines
  <2>2. s.staging # <<>>
    BY <2>1
  <2>3. options[i] \in Options
    <3>1. options[i] \in Options \cup ConsoleOptions
      BY DEF SinkInv, Types, Children
    <3> QED
      BY <2>1, <2>2, <3>1 DEF SinkInv, BatchInv, IsConsole
  <2>4. options[i].flushInterval \in Nat /\ s.staging[n].at \in Nat /\ now \in Nat
    <3>1. s.staging[n] \in LineType
      BY <2>1, ElementOfSeq
    <3> QED
      BY <2>3, <3>1 DEF Options, LineType, SinkInv, Types
  <2>5. /\ s.batchStartedAt \in Nat /\ s.batchStartedAt <= s.staging[n].at
        /\ now <= s.batchStartedAt + options[i].flushInterval
    BY <2>1, <2>2 DEF SinkInv, BatchInv, BatchOK
  <2> QED
    BY <2>1, <2>4, <2>5
<1> QED
  BY <1>1, SinkInvariant, PTL

\* No child is passed over by a poll because an earlier one had something to flush.
THEOREM PollServesEveryChildTheorem == Spec => PollServesEveryChild
<1>1. ASSUME SinkInv, [Next]_vars, op = "poll", op' = "none", process' = "running",
             NEW i \in Children
      PROVE  ~ IsDue(child'[i], options[i], now)
  <2>1. StepChild \/ Restart
    BY <1>1 DEF Next, BeginWrite, BeginFlush, BeginFlushIfDue, Begin, Tick, Crash, Destroy,
                vars
  <2>2. CASE StepChild
    <3>1. PICK out \in IF IsConsole(next) THEN ConsoleOutcomes(next) ELSE FileOutcomes(next) :
              /\ child' = [child EXCEPT ![next] = out.sink] /\ ~ out.thrown /\ Done
      BY <1>1, <2>2 DEF StepChild
    <3>2. process = "running" /\ next \in Children /\ (i = next \/ i < next)
      BY <1>1, <2>2, <3>1 DEF StepChild, Done, SinkInv, Types, Children
    <3>3. ~ IsDue(out.sink, options[next], now)
      BY <1>1, <3>1, <3>2, ChildSteps
    <3>4. i < next => ~ IsDue(child[i], options[i], now)
      BY <1>1, <3>2 DEF SinkInv, PollInv
    <3>5. child'[i] = IF i = next THEN out.sink ELSE child[i]
      BY <1>1, <3>1 DEF SinkInv, Types
    <3> QED
      BY <3>2, <3>3, <3>4, <3>5
  <2>3. CASE Restart
    <3>1. child'[i] = OpenChild(i, child[i].file)
      BY <2>3 DEF Restart
    <3>2. child[i].file \in Lines
      BY <1>1 DEF SinkInv, Types, SinkType
    <3>3. child'[i].staging = <<>>
      BY <3>1, <3>2, OpenChildIs, OpenedIs
    <3> QED
      BY <3>3 DEF IsDue, HasDeadline
  <2> QED
    BY <2>1, <2>2, <2>3
<1>2. SinkInv /\ [Next]_vars =>
          (op = "poll" /\ op' = "none" /\ process' = "running" =>
              \A i \in Children : ~ IsDue(child'[i], options[i], now))
  BY <1>1
<1> QED
  BY <1>2, SinkInvariant, PTL DEF Spec, PollServesEveryChild

(***************************************************************************)
(* The promise of a sink.                                                  *)
(***************************************************************************)

\* A beginning, in the words of the promise.
LEMMA SamePrefix == \A x, y : Promise!IsPrefix(x, y) <=> IsPrefix(x, y)
BY DEF Promise!IsPrefix, IsPrefix

\* The same after a step.
LEMMA NextInFileIsPrefix == SinkInv' => \A i \in Children' : IsPrefix(InFile(i)', given')
<1>1. (SinkInv => \A i \in Children : IsPrefix(InFile(i), given))'
  BY InFileIsPrefix, PTL
<1> QED
  BY <1>1

\* A child's file grows, and holds a beginning of what this session was given.
LEMMA FileGrows ==
    ASSUME SinkInv, SinkInv', UNCHANGED <<options, base, given>>, NEW i \in Children,
           \E g \in Lines : child'[i].file = child[i].file \o g
    PROVE  IsPrefix(InFile(i), InFile(i)') /\ IsPrefix(InFile(i)', given)
<1>1. PICK g \in Lines, x \in Lines, b \in Nat :
          /\ x = child[i].file /\ b = base[i] /\ b <= Len(x) /\ child'[i].file = x \o g
  BY DEF SinkInv, Types, HeldInv, SinkType
<1>2. /\ InFile(i) = After(x, b) /\ InFile(i)' = After(x \o g, b)
      /\ After(x \o g, b) = After(x, b) \o g /\ After(x, b) \in Lines
  BY <1>1, AfterConcat, AfterIs DEF InFile, After
<1>3. IsPrefix(InFile(i)', given')
  <2>1. i \in Children'
    BY DEF Children
  <2> QED
    BY <2>1, NextInFileIsPrefix
<1> QED
  BY <1>1, <1>2, <1>3, PrefixProperties

\* A step in which every child's file grows.
LEMMA ProgressStep ==
    ASSUME SinkInv, SinkInv', UNCHANGED <<options, base, given>>,
           \A i \in Children : \E g \in Lines : child'[i].file = child[i].file \o g
    PROVE  Promise!Progress
<1>1. Children' = Children
  BY DEF Children
<1>2. \A i \in Children : IsPrefix(InFile(i), InFile(i)') /\ IsPrefix(InFile(i)', given)
  BY FileGrows
<1> QED
  BY <1>1, <1>2, SamePrefix DEF Promise!Progress

\* The outputs of the promised sink before and after a step that opens or closes nothing.
LEMMA SameFiles ==
    ASSUME UNCHANGED <<options, base, child>>
    PROVE  [i \in Children |-> InFile(i)]' = [i \in Children |-> InFile(i)]
BY DEF Children, InFile

\* A Begin action takes a line, or changes nothing that the promise is about.
LEMMA BeginPromise ==
    ASSUME SinkInv, SinkInv', BeginWrite \/ BeginFlush \/ BeginFlushIfDue \/ Tick
    PROVE  Promise!Take \/ UNCHANGED <<given, [i \in Children |-> InFile(i)], flushed, process>>
<1>1. /\ UNCHANGED <<options, base, child, flushed, process>> /\ process = "running"
      /\ given \in Lines /\ given' \in Lines
      /\ [i \in Children |-> InFile(i)]' = [i \in Children |-> InFile(i)]
  BY SameFiles DEF BeginWrite, BeginFlush, BeginFlushIfDue, Tick, Begin, SinkInv, Types
<1>2. CASE BeginWrite
  <2>1. PICK line : given' = Append(given, line)
    BY <1>2 DEF BeginWrite
  <2>2. Len(given') = Len(given) + 1 /\ IsPrefix(given, given')
    <3>1. line \in LineType
      <4>1. given'[Len(given) + 1] = line /\ Len(given) + 1 \in 1 .. Len(given')
        BY <1>1, <2>1 DEF Lines
      <4> QED
        BY <1>1, <4>1, ElementOfSeq DEF Lines
    <3>2. /\ Len(given) \in Nat /\ Len(given') = Len(given) + 1
          /\ \A i \in 1 .. Len(given) : given'[i] = given[i]
      BY <1>1, <2>1, <3>1 DEF Lines
    <3> QED
      BY <1>1, <3>2, PrefixIs
  <2> QED
    BY <1>1, <2>2, SamePrefix DEF Promise!Take
<1>3. CASE BeginFlush \/ BeginFlushIfDue \/ Tick
  BY <1>1, <1>3 DEF BeginFlush, BeginFlushIfDue, Tick, Begin
<1> QED
  BY <1>2, <1>3 DEF Promise!Take

\* When a Flush has come past the last child, every file holds every line.
LEMMA FlushReaches ==
    ASSUME SinkInv, SinkInv', StepChild, op = "flush", process' = "running", op' = "none",
           NEW i \in Children
    PROVE  InFile(i)' = given
<1>1. PICK out \in IF IsConsole(next) THEN ConsoleOutcomes(next) ELSE FileOutcomes(next) :
          /\ child' = [child EXCEPT ![next] = out.sink] /\ ~ out.thrown /\ Done
  BY DEF StepChild
<1>2. /\ process = "running" /\ next \in Children /\ (i = next \/ i < next)
      /\ UNCHANGED <<options, base, given>>
  BY <1>1 DEF StepChild, Done, SinkInv, Types, Children
<1>3. child'[i].stream = <<>> /\ child'[i].staging = <<>>
  <2>1. out.sink.stream = <<>> /\ out.sink.staging = <<>>
    BY <1>1, <1>2, ChildSteps
  <2>2. i < next => child[i].stream = <<>> /\ child[i].staging = <<>>
    BY <1>2 DEF SinkInv, FlushInv
  <2>3. child'[i] = IF i = next THEN out.sink ELSE child[i]
    BY <1>1, <1>2 DEF SinkInv, Types
  <2> QED
    BY <1>2, <2>1, <2>2, <2>3
<1>4. /\ i \in Children' /\ child'[i] \in SinkType
      /\ After(All(child'[i]), base'[i]) = given
  BY <1>2 DEF SinkInv, Types, HeldInv, GivenTo, Children
<1>5. All(child'[i]) = child'[i].file
  BY <1>3, <1>4, LinesOf
<1> QED
  BY <1>4, <1>5 DEF InFile, After

\* What a child writes of a line, a flush or a poll is progress; the sink may throw, and at
\* the end of a flush all is in the files.
LEMMA StepChildPromise ==
    ASSUME SinkInv, SinkInv', StepChild
    PROVE  Promise!Reach \/ Promise!Harden \/ Promise!Fail
<1>1. PICK out \in IF IsConsole(next) THEN ConsoleOutcomes(next) ELSE FileOutcomes(next) :
          /\ child' = [child EXCEPT ![next] = out.sink]
          /\ process' = IF out.thrown THEN "failed" ELSE "running"
          /\ IF out.thrown THEN UNCHANGED <<op, next, flushed>>
             ELSE IF ~ Done THEN next' = next + 1 /\ UNCHANGED <<op, flushed>>
             ELSE /\ op' = "none" /\ next' = 1
                  /\ flushed' = IF op = "flush" THEN Len(given) ELSE flushed
  BY DEF StepChild
<1>2. process = "running" /\ op # "none" /\ UNCHANGED <<options, base, given>>
  BY DEF StepChild
<1>3. Promise!Progress
  <2>1. ASSUME NEW i \in Children
        PROVE  \E g \in Lines : child'[i].file = child[i].file \o g
    <3>1. next \in Children /\ child[i] \in SinkType
      BY <2>1 DEF SinkInv, Types
    <3>2. \E g \in Lines : out.sink.file = child[next].file \o g
      BY <1>1, <1>2, <3>1, ChildSteps DEF Stepped
    <3>3. child'[i] = IF i = next THEN out.sink ELSE child[i]
      BY <1>1 DEF SinkInv, Types
    <3>4. child[i].file = child[i].file \o <<>> /\ <<>> \in Lines
      BY <3>1, LinesOf, Concat
    <3> QED
      BY <3>2, <3>3, <3>4
  <2> QED
    BY <1>2, <2>1, ProgressStep
<1>4. CASE out.thrown
  BY <1>1, <1>2, <1>3, <1>4 DEF Promise!Fail
<1>5. CASE ~ out.thrown /\ flushed' = flushed
  BY <1>1, <1>2, <1>3, <1>5 DEF Promise!Reach
<1>6. CASE ~ out.thrown /\ flushed' # flushed
  <2>1. op = "flush" /\ op' = "none" /\ process' = "running" /\ flushed' = Len(given)
    BY <1>1, <1>6
  <2>2. \A i \in Children : InFile(i)' = given
    BY <2>1, FlushReaches
  <2>3. Children' = Children
    BY <1>2 DEF Children
  <2>4. \A o \in DOMAIN [i \in Children |-> InFile(i)] :
            ([i \in Children |-> InFile(i)]')[o] = given
    BY <2>2, <2>3
  <2> QED
    BY <1>2, <1>3, <2>1, <2>4 DEF Promise!Harden
<1> QED
  BY <1>4, <1>5, <1>6

\* The end of a process, and the next one.
LEMMA ProcessPromise ==
    ASSUME SinkInv, SinkInv', Crash \/ Destroy \/ Restart
    PROVE  Promise!End \/ Promise!Reopen
<1>1. Children' = Children
  BY DEF Crash, Destroy, Restart, Children
<1>2. CASE Crash \/ Destroy
  <2>1. /\ UNCHANGED <<options, base, given, flushed>>
        /\ process # "gone" /\ process' = "gone"
    BY <1>2 DEF Crash, Destroy
  <2>2. ASSUME NEW i \in Children
        PROVE  \E g \in Lines : child'[i].file = child[i].file \o g
    <3>1. PICK file \in [Children -> Lines] :
              /\ child' = [j \in Children |-> Opened(file[j])]
              /\ \E v \in SinkType : /\ v.file = file[i]
                                     /\ \E g \in Lines : v.file = child[i].file \o g
      BY <1>2, GoneFiles
    <3>2. child'[i].file = file[i]
      BY <3>1, OpenedIs
    <3> QED
      BY <3>1, <3>2
  <2>3. Promise!Progress
    BY <2>1, <2>2, ProgressStep
  <2> QED
    BY <2>1, <2>3 DEF Promise!End
<1>3. CASE Restart
  <2>1. /\ process = "gone" /\ process' = "running" /\ given' = <<>> /\ flushed' = 0
        /\ base' = [i \in Children |-> Len(child'[i].file)]
    BY <1>3 DEF Restart
  <2>2. ASSUME NEW i \in Children PROVE InFile(i)' = <<>>
    <3>1. child'[i].file \in Lines
      BY <1>1 DEF SinkInv, Types, SinkType
    <3> QED
      BY <2>1, <3>1, AfterNothing DEF InFile, After
  <2>3. /\ DOMAIN [i \in Children |-> InFile(i)]' = DOMAIN [i \in Children |-> InFile(i)]
        /\ \A o \in DOMAIN [i \in Children |-> InFile(i)] :
               ([i \in Children |-> InFile(i)]')[o] = <<>>
    BY <1>1, <2>2
  <2> QED
    BY <2>1, <2>3 DEF Promise!Reopen
<1> QED
  BY <1>2, <1>3

\* MultiSink over any children is one sink that keeps the promise of SinkPromise: whatever
\* a child does, each file only ever gains lines that were given, in order, and a Flush that
\* returns has left none behind in any of them.
THEOREM KeepsSinkPromiseTheorem == Spec => KeepsSinkPromise
<1>1. Init => Promise!Init
  <2> SUFFICES ASSUME Init PROVE Promise!Init
    OBVIOUS
  <2>1. ASSUME NEW i \in Children PROVE InFile(i) = <<>>
    <3>1. <<>> \in Lines /\ child[i] = OpenChild(i, <<>>) /\ base[i] = 0
      BY Concat DEF Init
    <3>2. child[i].file = <<>>
      BY <3>1, OpenChildIs, OpenedIs
    <3> QED
      BY <3>1, <3>2, AfterNothing DEF InFile, After
  <2> QED
    BY <2>1 DEF Init, Promise!Init
<1>2. SinkInv /\ SinkInv' /\ [Next]_vars
          => [Promise!Next]_<<given, [i \in Children |-> InFile(i)], flushed, process>>
  <2> SUFFICES ASSUME SinkInv, SinkInv', [Next]_vars
               PROVE  Promise!Next
                      \/ UNCHANGED <<given, [i \in Children |-> InFile(i)], flushed, process>>
    OBVIOUS
  <2>1. CASE UNCHANGED vars
    BY <2>1, SameFiles DEF vars
  <2> QED
    BY <2>1, BeginPromise, StepChildPromise, ProcessPromise DEF Next, Promise!Next
<1> QED
  BY <1>1, <1>2, SinkInvariant, PTL DEF Spec, KeepsSinkPromise, Promise!Spec
====
