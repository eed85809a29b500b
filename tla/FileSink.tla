------------------------------- MODULE FileSink -------------------------------
(***************************************************************************)
(* hlog::FileSink (src/sinks/file_sink.cpp) as operations on a sink value. *)
(* A line passes through three tiers: the staging buffer, the buffer of    *)
(* the std::ofstream, and the file.  An operation maps a sink to the set   *)
(* of its outcomes: the stream passes what it likes to the file before it  *)
(* is flushed, and writing or flushing it may fail.                        *)
(***************************************************************************)
EXTENDS OutputStream

CONSTANT None    \* the time point {} of a batch that has not begun

\* The clock is past its epoch.
ASSUME NoneAssumption == None \notin Nat

Options == [maxBatchSize : Nat, flushInterval : Nat, truncate : BOOLEAN, mayFail : BOOLEAN]

\* std::ofstream over a file that holds content.
Opened(content) == [staging |-> <<>>, batchStartedAt |-> None, stream |-> <<>>,
                    file |-> content]

Open(o, content) == Opened(IF o.truncate THEN <<>> ELSE content)

NormalizeBatchSize(size) == IF size = 0 THEN 1 ELSE size

(* DrainStagingBuffer, in two halves.                                      *)
Unstaged(s) == [s EXCEPT !.staging = <<>>, !.batchStartedAt = None]

\* Seeded fault: the batch is written, and stays staged.
WriteBatchKeepsIt(s, o) ==
    LET written == Streamed(s, s.staging) IN
    IF s.staging = <<>> THEN {Outcome(s, FALSE)}
    ELSE { Outcome(w, FALSE) : w \in written }
         \cup { Outcome(w, TRUE) : w \in IF o.mayFail THEN written ELSE {} }

WriteBatch(s, o) ==
    LET written == Streamed(s, s.staging) IN
    IF s.staging = <<>> THEN {Outcome(s, FALSE)}
    ELSE { Outcome(Unstaged(w), FALSE) : w \in written }
         \cup { Outcome(w, TRUE) : w \in IF o.mayFail THEN written ELSE {} }

FlushStream(s, o) ==
    {Outcome(Flushed(s), FALSE)}
    \cup { Outcome(w, TRUE) : w \in IF o.mayFail THEN Streamed(s, <<>>) ELSE {} }

DrainStagingBuffer(s, o, flushStream) ==
    UNION { IF w.thrown \/ ~ flushStream THEN {w} ELSE FlushStream(w.sink, o)
              : w \in WriteBatch(s, o) }

\* Seeded fault: every line restarts the batch's clock.
StagedRestartingClock(s, line) ==
    [s EXCEPT !.staging = Append(@, line), !.batchStartedAt = line.at]

Staged(s, line) ==
    [s EXCEPT !.staging = Append(@, line),
              !.batchStartedAt = IF s.staging = <<>> THEN line.at ELSE @]

\* line.at is the time read on entry.
Write(s, o, line) ==
    LET t == Staged(s, line)
        flushForSize == SizeOf(t.staging) >= NormalizeBatchSize(o.maxBatchSize)
        flushForInterval == /\ o.flushInterval > 0
                            /\ line.at >= t.batchStartedAt + o.flushInterval
    IN  IF flushForSize \/ flushForInterval
        THEN DrainStagingBuffer(t, o, flushForInterval)
        ELSE {Outcome(t, FALSE)}

\* Seeded fault: the stream is not flushed.
FlushLeavesStream(s, o) == DrainStagingBuffer(s, o, FALSE)

Flush(s, o) == DrainStagingBuffer(s, o, TRUE)

HasDeadline(s, o) == /\ s.staging # <<>>
                     /\ o.flushInterval > 0
                     /\ s.batchStartedAt # None

NextAutoFlushTime(s, o) == s.batchStartedAt + o.flushInterval

IsDue(s, o, now) == HasDeadline(s, o) /\ now >= NextAutoFlushTime(s, o)

FlushIfDue(s, o, now) == IF IsDue(s, o, now) THEN DrainStagingBuffer(s, o, TRUE)
                                             ELSE {Outcome(s, FALSE)}

\* ~FileSink: the stream is flushed by its own destructor, which may fail where a write
\* has failed before; the staging buffer is not drained.
Destroyed(s, failed) == { w.file : w \in IF failed THEN Streamed(s, <<>>) ELSE {Flushed(s)} }
===============================================================================
