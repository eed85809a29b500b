------------------------------- MODULE MultiSink -------------------------------
(***************************************************************************)
(* hlog::MultiSink (include/hlog/sinks/multi_sink.h) over file and console *)
(* sinks, used as the worker of AsyncLogger uses its sink: one thread writes      *)
(* lines, flushes, polls FlushIfDue and, when it has nothing to do, waits  *)
(* at most until NextAutoFlushTime.  The loops over the children are steps *)
(* of their own, since any child may throw and the process may be killed.  *)
(***************************************************************************)
EXTENDS FileSink, ConsoleSink

CONSTANTS Setups,       \* sequences of the children's options
          Sizes,        \* sizes of lines
          MaxLines,     \* bound: lines written in one session
          MaxTime,      \* bound: the clock
          MaxRestarts   \* bound: restarts of the process

ASSUME MultiSinkAssumption ==
    /\ \A setup \in Setups : setup \in Seq(Options \cup ConsoleOptions)
    /\ Sizes \subseteq Nat /\ {MaxLines, MaxTime, MaxRestarts} \subseteq Nat

VARIABLES
    options,    \* of the children, in the order of sinks_
    child,      \* the children
    now,        \* Clock::now()
    op, next,   \* the operation under way, and the child it has come to
    process,    \* "running", "failed" (a child threw), "gone"
    restarts,
    given,      \* history: lines passed to Write since the sinks were opened
    flushed,    \* history: how many of them the last Flush to return had before it
    base        \* history: lines in each file when it was opened

vars == <<options, child, now, op, next, process, restarts, given, flushed, base>>

Children == 1 .. Len(options)
IsConsole(i) == options[i] \in ConsoleOptions

\* A child that finds this content in its file, or on its terminal.
OpenChild(i, content) == IF IsConsole(i) THEN Opened(content) ELSE Open(options[i], content)

\* Files of the first process do not exist yet.
Init == /\ options \in Setups
        /\ child = [i \in Children |-> OpenChild(i, <<>>)]
        /\ now = 0 /\ op = "none" /\ next = 1
        /\ process = "running" /\ restarts = 0
        /\ given = <<>> /\ flushed = 0
        /\ base = [i \in Children |-> 0]

Begin(operation) == /\ process = "running" /\ op = "none"
                    /\ op' = operation /\ next' = 1

BeginWrite == /\ Begin("write")
              /\ Len(given) < MaxLines
              /\ \E size \in Sizes :
                    given' = Append(given, [number |-> Len(given) + 1, session |-> restarts,
                                            size |-> size, at |-> now])
              /\ UNCHANGED <<options, child, now, process, restarts, flushed, base>>

BeginFlush == /\ Begin("flush")
              /\ UNCHANGED <<options, child, now, process, restarts, given, flushed, base>>

\* Seeded fault: the poll stops at the first child that flushes.
DoneShortCircuit ==
    \/ next = Len(options)
    \/ op = "poll" /\ IsDue(child[next], options[next], now)

\* The call returns after the last child.
Done == next = Len(options)

BeginFlushIfDue ==
    /\ Begin("poll")
    /\ UNCHANGED <<options, child, now, process, restarts, given, flushed, base>>

ConsoleOutcomes(i) ==
    CASE op = "write" -> ConsoleWrite(child[i], options[i], Last(given))
      [] op = "flush" -> ConsoleFlush(child[i])
      [] op = "poll"  -> {Outcome(child[i], FALSE)}

FileOutcomes(i) ==
    CASE op = "write" -> Write(child[i], options[i], Last(given))
      [] op = "flush" -> Flush(child[i], options[i])
      [] op = "poll"  -> FlushIfDue(child[i], options[i], now)

\* One iteration of the loop over sinks_.
StepChild ==
    /\ process = "running" /\ op # "none"
    /\ \E out \in IF IsConsole(next) THEN ConsoleOutcomes(next) ELSE FileOutcomes(next) :
          /\ child' = [child EXCEPT ![next] = out.sink]
          /\ process' = IF out.thrown THEN "failed" ELSE "running"
          /\ IF out.thrown THEN UNCHANGED <<op, next, flushed>>
             ELSE IF ~ Done THEN next' = next + 1 /\ UNCHANGED <<op, flushed>>
             ELSE /\ op' = "none" /\ next' = 1
                  /\ flushed' = IF op = "flush" THEN Len(given) ELSE flushed
    /\ UNCHANGED <<options, now, restarts, given, base>>

\* Seeded fault: the latest deadline instead of the earliest.
WaitsUntilLatest == { i \in Children : HasDeadline(child[i], options[i]) } # {} =>
    \E i \in Children : HasDeadline(child[i], options[i])
                            /\ now < NextAutoFlushTime(child[i], options[i])

\* now is before the minimum of the children's deadlines.
WaitsUntilNext == \A i \in Children : ~ IsDue(child[i], options[i], now)

\* Time passes while the worker waits; it wakes up at the deadline, and polls.
Tick == /\ process = "running" /\ op = "none" /\ now < MaxTime
        /\ WaitsUntilNext
        /\ now' = now + 1
        /\ UNCHANGED <<options, child, op, next, process, restarts, given, flushed, base>>

\* The process is killed: only the files remain.
Crash == /\ process # "gone"
         /\ process' = "gone"
         /\ child' = [i \in Children |-> Opened(child[i].file)]
         /\ op' = "none" /\ next' = 1
         /\ UNCHANGED <<options, now, restarts, given, flushed, base>>

\* The sinks are destroyed, between two calls or after a failure.
Destroy == /\ process = "failed" \/ (process = "running" /\ op = "none")
           /\ process' = "gone"
           /\ \E file \in [Children -> UNION { Destroyed(child[i], TRUE) : i \in Children }] :
                 /\ \A i \in Children :
                       file[i] \in Destroyed(child[i], process = "failed" /\ i = next)
                 /\ child' = [i \in Children |-> Opened(file[i])]
           /\ op' = "none" /\ next' = 1
           /\ UNCHANGED <<options, now, restarts, given, flushed, base>>

Restart == /\ process = "gone" /\ restarts < MaxRestarts
           /\ process' = "running" /\ restarts' = restarts + 1
           /\ child' = [i \in Children |-> OpenChild(i, child[i].file)]
           /\ base' = [i \in Children |-> Len(child'[i].file)]
           /\ op' = "none" /\ next' = 1
           /\ given' = <<>> /\ flushed' = 0
           /\ UNCHANGED <<options, now>>

Next == \/ BeginWrite \/ BeginFlush \/ BeginFlushIfDue \/ StepChild
        \/ Tick \/ Crash \/ Destroy \/ Restart

Spec == Init /\ [][Next]_vars

-------------------------------------------------------------------------------
(* Properties                                                              *)

\* The lines of this session that a child's file holds, and all the child holds.
InFile(i) == SubSeq(child[i].file, base[i] + 1, Len(child[i].file))
Held(i)   == InFile(i) \o child[i].stream \o child[i].staging

\* What child i has been given: the write under way may not have come to it.
GivenTo(i) == IF op = "write" /\ i >= next THEN Front(given) ELSE given

\* Through all three tiers no child loses, repeats or reorders a line, and the children
\* never differ by more than the line being written; when a child has thrown or the
\* process is gone, each file holds a gapless beginning of what was given.
NoLineIsLostOrRepeated ==
    /\ process = "running" => \A i \in Children : Held(i) = GivenTo(i)
    /\ \A i \in Children : IsPrefix(InFile(i), given)

\* What a Flush that returned has covered is in every child's file, also after the
\* process is killed later on or another child throws.
FlushedLinesAreInEveryFile == \A i \in Children : Len(InFile(i)) >= flushed

Promise == INSTANCE SinkPromise
               WITH taken <- given, durable <- flushed, state <- process,
                    reached <- [i \in Children |-> InFile(i)]

\* To its caller the composite is one sink: no file ever loses a line again, Flush returns
\* only when every child holds every line, and a sink that has thrown writes nothing
\* more than what its streams still keep, until the next process opens it.
KeepsSinkPromise == Promise!Spec

\* A child with a flush interval keeps no line in its staging buffer beyond it, whatever
\* the others' intervals are, if the worker polls when NextAutoFlushTime says.
StagedLinesMeetInterval ==
    process = "running" =>
        \A i \in Children : \A n \in 1 .. Len(child[i].staging) :
            options[i].flushInterval > 0 =>
                now <= child[i].staging[n].at + options[i].flushInterval

\* After a poll no child is due, although an earlier one had something to flush.
PollServesEveryChild ==
    [][ op = "poll" /\ op' = "none" /\ process' = "running" =>
          \A i \in Children : ~ IsDue(child'[i], options[i], now) ]_vars

\* README.md:50 - a buffered batch is flushed when the interval has passed, although no
\* new line comes: no line is kept from its file for longer than that.
LinesMeetInterval ==
    process = "running" =>
        \A i \in Children : options[i].flushInterval > 0 =>
            LET kept == child[i].stream \o child[i].staging IN
            \A n \in 1 .. Len(kept) : now <= kept[n].at + options[i].flushInterval
===============================================================================
