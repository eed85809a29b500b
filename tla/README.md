# HLog in TLA+

HLog is a C++20 asynchronous logging library: any number of threads call `Log`,
`Flush` and `Stop` on an `AsyncLogger`, a bounded lock-free queue carries the
messages to one worker thread, and the worker gives them to a sink (files,
rotating files, the console, or several of them).  An example program, an HTTP
service, uses it the way production code would.  This directory holds TLA+ models
of both, the TLC configurations that check them, and proofs that the TLA+
proof system checks.  Paths below are relative to the repository; `logger` stands
for `src/core/async_logger.cpp`, `ring` for
`include/hlog/detail/lock_free_ring_buffer.h` and `service` for
`examples/service_example.cpp`.

To repeat a check or a proof, in this directory:

    tlc -workers 2 -config AsyncLoggerLogging.cfg MCAsyncLogger
    tlapm AsyncLoggerProofs.tla


## 1. Inventory

| Component | State | Operations | Modelled by |
|---|---|---|---|
| `LockFreeRingBuffer` (`ring`) | two positions, one sequence number and one value per cell | `TryEnqueue`, `TryDequeue`, `RoundUpPowerOfTwo` | `RingBuffer`, `RingCapacity`, promise in `ReservationQueue` |
| `AsyncLogger`, client side (`logger:24-166`, `async_logger.h`) | `operation_state_` (gate bit and operation count), request ticket, counters, `worker_` handle, levels | `Log`, `Publish`, `Flush`, `Stop`, `SetLevel`, `SetFlushLevel`; `Stats`, `failed` only read | `AsyncLogger`, promise in `LoggerPromise` |
| `AsyncLogger`, worker (`logger:168-300`) | completed ticket, failure flag and message, `wake_signal_`, mutex and condition variable, locals of the loop | `WorkerLoop`, `HandleItem`, `WaitForWakeup`, `NotifyWorker`, `RecordWorkerFailure` | `AsyncLogger` |
| `FileSink` | staging buffer, start of its batch, stream, file | `Write`, `Flush`, `NextAutoFlushTime`, `FlushIfDue`, constructor | `FileSink`, `OutputStream` |
| `MultiSink` | the children | the same, over all children | `MultiSink` |
| `RotatingFileSink` | as `FileSink`, and `current_size_`, archives on disk | the same, `RotateFiles`, `ResetOnStartup` | `RotatingFileSink`, `OutputStream` |
| `ConsoleSink` | none | `Write`, `Flush` on `std::cout` or `std::cerr` | `ConsoleSink`, `OutputStream` |
| `LogPayload`, `LogMessage` | inline or heap storage | `assign`, `append`, `push_back`, move, copy | `LogPayload`, `MessagePath` |
| `PatternFormatter` | parsed pattern | constructor, `FormatTo` | `PatternFormatter`, `MessagePath` |
| `LogLevel` | - | `ShouldLog`; parsing and names | `ShouldLog` in `AsyncLogger` and `LoggerConfig`, `ParseLogLevel` in `LoggerConfig` |
| `LoggerConfig`, `CreateLogger` | none | builds sinks and a logger | `CreateSink` in `LoggerConfig` |
| HTTP service (`service`) | `g_running`, `ConnectionQueue` (deque, `stopped_`, mutex and condition variable), `total_requests`, locals of `main` and of the workers | `LoadConfig`, the accept loop, `Push`, `Pop`, `Stop`, `HandleConnection`, shutdown | `Service`, `LoggerConfig` |
| benchmarks | a mutex-based baseline logger, timers | | no |
| tests, scripts, build files | | | no: read for what they promise |

**How they interact.**  Clients and worker share the queue, atomics and one
condition variable.  A client's `Log` or `Flush` enters through the gate
(`TryStartOperation`, a compare-and-swap on `operation_state_`), checks the failure
flag, publishes an item to the queue and notifies the worker; an `OperationGuard`
leaves the gate again and, if it is the last one out of a closed gate, notifies the
worker too.  `Flush` draws a ticket, queues it as an item like any other and blocks
on the completed ticket (`atomic::wait`).  The worker drains the queue, writes each
log to the sink, completes tickets after flushing the sink, polls `FlushIfDue`, and
waits for `wake_signal_` to change, for a failure, for the end of the last
operation, or for the sink's deadline.  An exception of the sink ends the worker
through `RecordWorkerFailure`, which closes the gate, raises the flag and completes
all tickets.  `Stop` closes the gate, notifies, and joins.  Sinks are called by the
worker only.

The service's `main` accepts connections and pushes their descriptors, plain
integers, on a queue; workers pop them, wrap them, read a request, answer and log.
Workers and `main` share the logger, the queue and one counter.  A signal clears
`g_running`; `main` then stops the queue, joins the workers, reports, flushes the
logger and stops it.

**What is hard.**  Two threads in one cell of the ring; a refusal judged from a
stale position; a notification that falls between the evaluation of a wait's
predicate and the wait; the worker deciding to exit while a producer is half way
through; tickets queued out of order; a failure overtaking flushers in any of their
steps; statistics counted on both sides of a queue; a sink that throws or is killed
in the middle of a batch or of a rotation; a deadline that is reset.  In the service: a
notification after the unlock, when the worker it was meant for may be asleep again or
not yet; descriptor numbers that are used again while copies of them travel; a
shutdown with connections still queued; a log that must be complete at exit.
`PROJECT.json` lists these hazards at their lines, with the properties aimed at
each.

**What makes each part correct.**

* The ring is a bounded FIFO of slots in which reservation and publication are
  separate, never lets two threads at one cell, and refuses only for a reason.
* The logger neither loses, repeats nor reorders (per client) an accepted log; a
  `Flush` that returns true has made earlier logs durable; statistics are exact; the
  worker does not leave operations behind, a failure releases everybody; every call
  returns.
* A file sink holds each line in exactly one of its three tiers, in order; flushed
  lines are in the file; the interval is kept; a fan-out treats its children alike.
* A rotating sink keeps the newest lines without a gap, archives for as long as
  promised, and files within their size, through crashes and restarts.
* The service serves every connection it accepted, leaks or reuses no descriptor,
  answers each peer its own request, ends, reports exact counts, and leaves a complete
  log on disk.


## 2. The modules

### ReservationQueue, RingBuffer, RingCapacity

`ReservationQueue` is the promise of the queue: a bounded sequence of slots that go
through *reserved*, *ready*, *taken* and (with several consumers) *released*.
`RingBuffer` models `TryEnqueue` and `TryDequeue` with one action per access to the
positions, a cell's sequence number or a cell's value: load of the position, load of
the sequence and comparison, compare-and-swap, move of the value, store of the
sequence.  Its property `ImplementsReservationQueue` is `ReservationQueue!QSpec`
under a refinement mapping that reads the window of slots off the positions, cells
and program counters.  Positions do not wrap.  `RingCapacity` is `RoundUpPowerOfTwo`
with its shifts and its wrapping, in words of any width.  A word is a number where the code
compares and adds, and the set of its bits where it shifts and combines (`Bits`, `NumberOf`
lead from one to the other).  `CapacityFits` compares the result with the least power of two
that is enough, and says for which sizes there is none.

### AsyncLogger, AsyncLoggerProperties

`AsyncLogger` is the core.  Its state is that of the class plus, per client, the
program counter `pc` and the locals of the call under way, and for the worker `wpc`
and the locals of `WorkerLoop`.  Every access to something another thread writes is
an action of its own, named for the function it belongs to (`Publish...`,
`Flush...`, `Fail...`).  `map` in `PROJECT.json` gives each definition its lines.

Reductions, and why they are sound:

* Memory is sequentially consistent.  The code uses acquire/release on all the
  atomics that order other data; the counters that are `relaxed` order nothing.
* The compare-and-swap loops of the gate take effect where they succeed: a failed
  iteration has no effect and reads again.
* Steps that touch only a thread's own variables are part of the neighbouring shared
  access.  Back-off in `Publish` (`yield`, sleep) only delays.
* `wake_signal_` is compared with the worker's one snapshot only, so the model keeps
  the Boolean `wakeChanged`.
* The queue is `ReservationQueue` with one consumer.  That this is what the logger's
  own queue steps amount to is a property of the run (`QueueIsReservationQueue`), and
  that the code's ring implements it is the run of `RingBuffer`.
* A message is the call that made it and its level; the payload is opaque.
* The sink is any sink: a line is durable after a `Flush`, every `Write`, `Flush` and
  `FlushIfDue` may throw if the setup says so, and with `autoFlush` a deadline may
  exist while lines are not flushed.
* The mutex of the condition variable is left out: the worker is the only one that
  takes it, so evaluating the predicate (`EvaluateWake`) and blocking (`Sleep`) are
  two steps that a notification may fall between.

History variables: `accepted`, the logs whose `TryEnqueue` succeeded, and `goal`, for
each flush, what had been accepted when it drew its ticket.  `AsyncLoggerProperties`
states the properties over this state.

### LoggerPromise

What a program may rely on that has an `AsyncLogger` and does not look inside: a line of
accepted messages that are written in that order, a durable prefix, `Flush` that
succeeds only when the caller's goal is durable, and a failure after which nothing is
written.  `ImplementsLoggerPromise` says that `AsyncLogger` keeps it: pending are the
worker's hand and the queue's slots, a slot counting from its reservation, because that
is when its place in the order is settled.  `Service` is built on the promise instead of
on the logger, and on nothing the logger does not promise: above all, `Stop` need not
write what is pending.

### SinkPromise

What the logger may rely on in a sink, and all it may ask of it: lines taken one by one;
outputs that each hold a beginning of them, which only grows; a `Flush` that returns only
when every output holds every line; and after an exception, silence, until the next process
opens its sinks.  It is the seam between the logger and the sinks.  `MultiSink` over its
children and `RotatingFileSink` keep it (`KeepsSinkPromise`), and the logger uses its sink
within it (`UsesSinkAsPromised`: `Sink!Spec` over `sinkOut` and `durable`, which stand for
the sink in `AsyncLogger`).  So what `FlushMakesDurable` says of an abstract sink holds of
files.

### OutputStream, FileSink, ConsoleSink, MultiSink

`FileSink` is written as operations on a sink value, since a sink runs in one thread:
each operation maps a sink to the set of its outcomes, among them those that throw.
`OutputStream` (the standard library's part) passes any beginning of what it holds to
the file at each write.  `MultiSink` is the state machine around them: a worker that
writes, flushes, polls and waits as `WaitForWakeup` does, with a step per child, a
clock, a process that may be killed at any step (only files survive), be destroyed
(streams are flushed, staging buffers are not) and start again; either ends the operation
under way.  A child may be a
`ConsoleSink`, which keeps nothing back from its stream and never fails.

### RotatingFileSink

Each file system call of startup and rotation is an action that may also fail, and a
crash may follow any of them.  A restart may choose other options, as the service's
environment variables allow.  Time is a free choice here (whether the interval has
passed); the deadline logic is the one `FileSink` has.  Histories: `disk`, every line that
ever reached the log file, in order; `earlier`, how many of them had when this process
began; `removed`, those that a truncating start has deleted; a line carries the number of
rotations begun when it was staged (`era`).

### LogPayload, PatternFormatter, MessagePath

`LogPayload` models the object's two buffers with their terminator, growth, and moves;
`PatternFormatter` the tokenizer (`Compile` reads the pattern's characters one by one with
the pending literal at hand, and whether a `%` is waiting for its specifier; `allowed` is
the code's `allow_default_expansion`) and `FormatTo`.  `MessagePath` joins them: `Log` builds a payload from
arguments, move assignments take it into a reused cell and into the worker's reused
item, and a line is formatted from it.  `Expansion` says what a pattern means without
tokens: a `%` begins a specifier if it ends an odd run of `%`.  Fields other than the
text, the level and the source line stand for their value.

### LoggerConfig

Pure functions: level names and `ShouldLog`, the service's environment variables with
their defaults and bounds, and the sink that results.  A text is absent, a number or a
word; how digits make a number is left out, but a number out of its type's range is
refused, as `std::from_chars` does.

### Service, ServiceProperties

Each critical section of `ConnectionQueue` is an action, and so is each notification:
`Push` unlocks before `notify_one`, `Stop` before `notify_all`, so a worker may fall
asleep or wake for another reason in between.  `hand`, `queue` and `fd` hold descriptors
where `main`, the deque and the workers do; `owner` is the system's table of the open
ones, and `accept` gives the lowest free number, so numbers come back at once.  A peer
connects once, sends a request or nothing, and may be gone when the answer is sent: the
answer is then lost, or SIGPIPE ends the process (`SendKills`), because nothing ignores
that signal.  `accept` may fail for want of a descriptor, or be interrupted once a signal
has been handled; `HandleSignal` may come at any time.  What is reduced:

* `recv`, the counting of the request and `ParseRequest` are one step; the counter is
  atomic and read again only for an answer.
* A line is its level, kind and subject.  It is accepted where the code logs it, for the
  service uses Block and its queue has at least 256 places.  After a failure of the
  logger nothing is accepted: such a line is never written anyhow.
* The logger hardens only while `main` flushes.  What is durable earlier, nobody in the
  service can see, and no property speaks of it.

### The proof modules

`AsyncLoggerProofs`, `AsyncLoggerOrderProofs` and `AsyncLoggerRefinementProofs` about
`AsyncLogger`, each building on the one before; `RingBufferProofs`, `MultiSinkProofs`,
`RotatingFileSinkProofs`, `MessagePathProofs` and `ServiceProofs` about the modules they
are named for; see section 5.

`MC...` modules give constants values; the refinement mappings are in `RingBuffer` and
`AsyncLoggerProperties`, where the proofs can use them.  Definitions introduced by a comment
"Seeded fault" are variants that no action uses: `PROJECT.json` pairs each with the
property that must fail when it takes the place of the definition below it.


## 3. The runs

| Run | Question | Bounds |
|---|---|---|
| `ring_buffer` | Is the ring race free, a bounded FIFO, and honest when it refuses? | 2 producers x 3 enqueues, 2 consumers x 2 dequeues, 2 cells: more than two laps of each cell; symmetric threads.  For the capacity, every size of a word of 8 bits |
| `logger_logging` | Are accepted logs conserved, in order, counted, and signalled, and is a flush turned down by a failed worker only? | 2 producers (2 calls and 1), one also flushing, 1 stopper, 2 slots; Block with a sink that throws, DropNewest with one that does not |
| `logger_flush` | Does a successful flush mean durable, is nobody left behind by the worker, does the logger keep `LoggerPromise`, and does it stay within `SinkPromise`? | 2 flushers, one logging before, 1 stopper, Block, a sink with a flush interval that may throw |
| `logger_liveness` | Do calls return? | 1 client x 3 calls (log or flush) on 2 slots, 1 stopper, levels changing, sink may throw |
| `logger_stop_drain`, `logger_lost_wakeup`, `logger_flush_order` | Three documented promises | the smallest setting that shows the difference |
| `multi_sink` | Are lines conserved over tiers, children, faults and restarts, intervals kept, and is the whole one sink? | Three setups of 2 children: two files with different batches and intervals; a console and a file that is truncated at its opening; a console that flushes each line and a file without interval.  3 lines of size 1 or 2, 3 instants, 1 restart |
| `sink_interval` | Is a buffered line flushed within the interval? | 1 child, 1 line |
| `message_path` | Is each line what pattern and arguments say, whatever the buffers held before? | 3 messages of up to 5 characters, 2 of them inline (so two sizes of heap block), 1 cell, patterns of up to 3 of the characters `%`, `+`, `v`, `x` |
| `rotation` | Do the files hold the newest lines, and above all the flushed ones, for long enough, within their size, and can a user of the sink not tell? | 5 lines of size 1 or 3, file sizes 2 and 3, 0 to 2 archives, truncating or not, 2 restarts, all chosen anew at each |
| `service` | Is every connection served once and answered for itself, does the service end, with exact counts and a complete log? | 2 peers that connect once each, 2 kinds of request, descriptors 4 and 5, three environments: two workers logging warnings, two workers and one request, one worker (from a refused 0) and two requests |

**Why these bounds are enough to be interesting.**  A ring of two cells is the
smallest the constructor builds and makes every enqueue after the second reuse a
cell; with three enqueues per producer a stalled thread is overtaken by a whole lap.
In the logger, two slots and three calls fill the queue (the `HasRoom` refusal, the
Block retry and DropNewest all occur); two flushers are enough for tickets to swap;
one stopper closes the gate at every point of every call.  For rotation, two archives
and five lines of a file's size make lines fall off the end; two restarts let a
process find the hole a crash in the middle of a rotation left, and rotate again.  In
the service two peers on two descriptors make a number come back while its former worker
is still running, exhaust the descriptors, and leave a connection in the queue when it is
stopped; two workers are enough for a notification to reach the wrong one, and fewer
requests than peers for the limit to end the loop.
Every action and every disjunct of every next-state relation is taken in a run.
`CHECK_DEADLOCK` is off because the systems end: calls are bounded and the worker
exits.

**Named bounds** are `MaxEnqueues`, `MaxDequeues`, `MaxCalls`, `MaxLines`, `MaxTime`,
`MaxRestarts`, `MaxText`, `MaxMessages`, `MaxPattern`, `MaxThreads`, `MaxWarnings`,
`Width`; nothing else is bounded.

### Properties that hold

* Ring: `NoDataRace`, `ImplementsReservationQueue`, `RefusalsAreTrue`,
  `CapacityFits` and the type invariant.
* Logger: `AcceptedLogsAreConserved`, `ProducerOrder`, `StatsAreExact`,
  `NoItemWithoutSignal`, `QueueIsReservationQueue`, `FlushMakesDurable`,
  `NoOperationOutlivesWorker`, `FlushFailsOnlyWithWorker`, `FailureIsPublished`,
  `FailureReleasesCallers`, `CallsReturnIfWorkerWakes`, `ImplementsLoggerPromise`,
  `UsesSinkAsPromised` and the type invariant.
* Sinks: `NoLineIsLostOrRepeated`, `FlushedLinesAreInEveryFile`,
  `StagedLinesMeetInterval`, `PollServesEveryChild`, `RetainedIsNewest`,
  `ArchivesAreKept`, `FilesRespectMaxSize`, `NoLineIsLostInRotation`, and `KeepsSinkPromise`
  for `MultiSink` and for `RotatingFileSink`.
* Messages: `LinesShowMessages`, `TextsAreWhole`, `PayloadsWellFormed`.
* Service: `SleepersHaveNoWork`, `EveryDescriptorHasOneHolder`, `AnswersMatchRequests`,
  `ReportIsExact`, `LogIsWholeAtExit`, `ServiceEnds`, `EveryConnectionIsServed` and the
  type invariant.

### Where code and documentation differ

Four runs expect a violation, each of one sentence of the documentation; the findings
in `PROJECT.json` quote them.

1. `StopDrainsAcceptedLogs`: the worker tests "gate closed and no operation active"
   after its drain loop found the queue empty and exits without looking again; a log
   published and finished in between is accepted and never written.
2. `WorkerWakes`: `NotifyWorker` does not hold the mutex, so its notification can fall
   between the predicate and the wait, and be lost; a `Flush` or `Stop` may hang.
3. `SimultaneousFlushesReturn`: tickets are drawn before items are queued, so the
   completed ticket may go backwards and strand the later flusher.
4. `LinesMeetInterval`: a batch drained because it is full goes to the stream without
   a flush and takes the deadline with it; no later poll flushes it.

The passing properties are stated so that they hold around these: conservation says
where an unwritten log is (in the queue), liveness assumes `WorkerWakes`, and
`StagedLinesMeetInterval` speaks of the staging buffer only.  The service is not exposed
to the first: it flushes before it stops the logger, and `LogIsWholeAtExit` fails if it
does not.

One more difference needs no run to be seen.  Question 46 of the interview notes has it that
the compare-and-swap on the gate makes the procedure of `Stop` run once only; it lets only one
thread notify the worker, but every thread in `Stop` goes on to `joinable()` and `join()`, and
two at once may both join, which the standard leaves undefined.  The runs have one stopper.
The `joinable()` of a `Flush` can meet that stopper's join only when the worker has failed:
otherwise it exits, and the join ends, when no operation is under way
(`NoOperationOutlivesWorker`).

### Fairness

`FairSpec` has weak fairness of each client's step inside a call and of the worker's
own step: the operating system runs every runnable thread.  Nobody is obliged to make
a call, the sink is never obliged to throw, and spurious wake-ups of the condition
variable may happen but are not relied on.  `atomic::wait` compares and blocks in one
step, as the standard guarantees.  A producer that spins on a full queue under Block
needs no strong fairness because the worker, once it takes an item, frees the slot
and no bounded set of other producers can refill it for ever.

The service's `FairSpec` has weak fairness of `main`'s own steps, of each worker's own
steps, and of the return of `Flush` and `Stop` from a logger that has failed
(`FailureReleasesCallers` is why).  Connections, requests, signals and
spurious wake-ups belong to the environment and are owed to nobody: `accept` and `recv`
may block for ever.  `ServiceEnds` and `EveryConnectionIsServed` therefore assume
`PeersSpeak`, that no worker sits in `recv` for ever; without it one silent peer keeps the
service from ending, as it does in the code, which sets no timeout.

Nothing is owed by a logger that has not failed: its worker may have missed a notification
(the second finding), and then neither writes nor lets `Flush` or `Stop` return.  So
`ServiceEnds` says two things: that every worker is joined and `main` comes to its `Flush`,
whatever the logger does; and that the service exits if the logger's worker wakes
(`LoggerWakes`: it goes on writing, hardening and answering while it can) or has failed.
Without that premise the second part is false, as it is of the code.
`EveryConnectionIsServed` needs nothing of the logger.


## 4. What TLC cannot see here

Weak-memory behaviour, the destruction of a logger while the last operation is still
touching `wake_signal_`, wrapping of 64-bit positions and counters, torn lines (the
stream passes whole lines), a console that cannot be written to (the code does not look), arguments that point into the payload they are appended to,
the lifetime of the strings a message only views, and unbounded load: under a stream of logs that never
ends the drain loop postpones `FlushIfDue` and the level flush without limit, which
needs a model of its own.


## 5. The proofs

### AsyncLogger

For every set of clients (finite), every number of calls, capacity of at least two,
set of levels and setups - the assumptions `LoggerAssumption` and `NoneAssumption` and
nothing else - TLAPS checks, in the three modules named after it:

| Theorem | Establishes |
|---|---|
| `TypeInvariant` (`AsyncLoggerProofs`) | `Spec => []TypeInv`, each variable in its domain |
| `InductiveInvariant` | `Spec => []IInv` |
| `TypeCorrect` | `TypeOK`, with the queue within its capacity and the decremented counters never below zero |
| `StatisticsTheorem` | `StatsAreExact` |
| `FailureTheorem` | `FailureIsPublished` |
| `WorkerExitTheorem` | `NoOperationOutlivesWorker` |
| `FlushFailureTheorem` | `FlushFailsOnlyWithWorker` |
| `SignalTheorem` | `NoItemWithoutSignal` |
| `DeliveryInvariant` (`AsyncLoggerOrderProofs`) | `Spec => [](IInv /\ DeliveryInv)` |
| `ConservationTheorem` | `AcceptedLogsAreConserved` |
| `OrderTheorem` | `ProducerOrder` |
| `FlushTheorem` | `FlushMakesDurable` |
| `QueueRefinementTheorem` (`AsyncLoggerRefinementProofs`) | `QueueIsReservationQueue` |
| `PromiseTheorem` | `ImplementsLoggerPromise` |
| `UsesSinkTheorem` | `UsesSinkAsPromised` |

`AsyncLoggerProofs` first proves what the four queue operations do to a sequence of
slots (`Reserve`, `Publish`, `Take`, `Release`) and then that every action keeps the
types.  Types are not quite inductive: that `active` and `enqueued` are natural
numbers after a decrement needs the invariant, so `TypeInv` has them as integers.

`IInv` is a conjunction, each part proved from those before it:

* `GateInv`: the count of the gate is the number of clients inside an operation.  All
  steps are classified as letting one client in, one out, or neither (`GateStep`).
* `FlagInv`: how far `RecordWorkerFailure` has come - message, gate, flag.
* `ExitInv`: a worker on its way out without failure has seen a closed gate and a zero
  count, and a closed gate lets nobody in.
* `ItemOwnerInv`, `SlotInv`: a reserved slot belongs to the client about to publish
  it, and at most the first slot is taken, while the worker releases it.  Without them
  publishing could touch another client's slot.
* `TicketInv`: which tickets a flusher can hold in each step, and what the failing
  worker's stored ticket covers.  It excludes a flusher blocked after the worker is
  gone: its ticket was drawn before the failure was published, so it is at most the
  request ticket the worker loaded afterwards.
* `StatsInv`: `enqueued` is the size of `accepted` plus the calls that have counted
  theirs; that a call adds a log that was not there before needs the numbering of
  calls per client.
* `NoItemWithoutSignal` is inductive given these.

`FlushFailsOnlyWithWorker` has an invariant of its own, `TurnedDownInv`, which only needs the
types: a client at the end of a `Flush` that drew its ticket has a result, or has seen the
failure, which nothing takes back (`FailureStays`).

`DeliveryInv` builds on it.  The accepted logs stand in one line: what the sink has, what
the worker holds, the queue's slots.  Its parts:

* `HandInv`, `ReservedInv`: the worker holds an item exactly while it handles it, and a
  slot that is reserved holds what its client is about to publish.
* `LatestInv`, `OrderInv`: the numbers of one client increase along the line, and a log
  that has no slot yet has a larger number than all of them.  Order alone is not
  inductive: a new slot is in order only because its client has no later one.
* `ConservedInv`: the line holds each accepted log once.
* `BoundInv`, `ResultInv`: no ticket in the queue, in hand or completed exceeds the
  request ticket, and a flush succeeds at its end only.
* `GoalInv`: what a flush must make durable stays ahead of every flush item whose ticket
  is as late as its own, until it is durable.  This is what makes a flush right that is
  released by somebody else's ticket: tickets and queue positions may be in different
  orders (the third finding), but each ticket at least as late was queued behind the goal.

The two refinements map every step to a step of the abstract module or to a stutter, and
need what the users of the queue may rely on (`UseInv`):

* `CallInv`, `CountInv`, `PossibleInv`: there are finitely many calls (`CallIdsFinite`), each
  flush has drawn at most one ticket, so no ticket exceeds their number and every item
  published is one of the `Values` of the queue.
* `DistinctInv`, `TakenInv`: no two slots hold the same item, so the slot a client
  publishes is the one it reserved; the worker's slot is the first.

For `LoggerPromise` the line that is pending is read off the queue by rank among the slots
that hold a log (`WaitingIn`), so that a flush item that comes or goes leaves it alone: the
lemmas about it say what each of the four queue operations does to that line.  The
promise's `Flush` may succeed only when its goal is durable: `GoalInv` says so at the step
that makes the result true.

For `SinkPromise` the steps are sorted by what they do to the sink (`StepKinds`): writing,
flushing, throwing, or leaving it alone.  The sink counts as failed from the step in which it
throws; `ThrownInv` ties that to the worker's position, which has come behind the catch
for good, so that no step of the first two kinds can follow.

### RingBuffer

For every capacity of at least two, any sets of producers and consumers and any number of
calls (`RingAssumption`; the capacity need not be a power of two), and words whose width is
any power of two (`WidthAssumption`, which `CapacityTheorem` alone uses), `RingBufferProofs`
has:

| Theorem | Establishes |
|---|---|
| `TypeCorrect` | `TypeOK` |
| `NoDataRaceTheorem` | `NoDataRace` |
| `RingQueueInvariant` | `Spec => [](RingInv /\ QueueInv)` |
| `RingImplementsReservationQueue` | `ImplementsReservationQueue`, step by step |
| `RingRefusalsAreTrue` | `RefusalsAreTrue` |
| `CapacityTheorem` | `CapacityFits` |

`RingInv` adds to the types:

* `SeenInv`: a thread that compared the sequence of the cell at its position with success
  may rely on the value as long as the position has not moved on, because only whoever
  moves the position changes that sequence.
* `ClaimInv`: whoever has moved the position finds the cell's sequence at the value it
  compared with until it stores the next one, and no other claimant has that position.

Two threads at one cell would need one sequence with two values, or two claimants of one
position (`OneClaimant`); `CellProperties` is the arithmetic that keeps a cell's *ready*
position apart from the next cell.

The refinement needs more, `QueueInv`: the positions that are not released form one window
(`WindowInv`: consumers stay behind producers, and those at most one lap ahead of the oldest
slot); the sequence of a cell says what has become of the latest position in it (`CellInv`)
and never falls behind a claimed one (`LagInv`: this is what makes a stale load harmless); a
value moved into a cell stays there (`ItemInv`).  `SlotShape` reads from it what each slot of
the abstract queue is, and `Trimmed` that a release at the front takes with it every slot
that was released behind it.  A refusal compares a sequence that is too small for the
position: `CellInv` and `LagInv` say that the lap is full, or the oldest slot unpublished,
at that very step.

`CapacityTheorem` is about the rounding alone, for sizes that no run could enumerate.  The
size less one has a highest bit (`HighestBit`).  After `j` of the shifts the word has all of
the `2^j` bits from there downwards that there are, and none above (`Filling`,
`FillingFills`): each shift doubles the run of ones.  The shifts reach the width
(`ShiftsEnough`), so all bits below the highest are set; their sum is one less than a power
of two (`NumberOfOnes`), and that power is the least one above the size less one, or the
word's modulus, which wraps to 0.

### MultiSink

For every sequence of file and console children, any options, sizes, times and numbers of
lines and restarts (`MultiSinkAssumption`, and `NoneAssumption`: no time is the value that
stands for no batch), `MultiSinkProofs` has `SinkInvariant` (`Spec => []SinkInv`) and from it
`NoLineIsLostOrRepeatedTheorem`, `FlushedLinesAreInEveryFileTheorem`,
`StagedLinesMeetIntervalTheorem` and `PollServesEveryChildTheorem`, for the properties of
those names, and `KeepsSinkPromiseTheorem` (`KeepsSinkPromise`), that every step is a step or
a stutter of `SinkPromise`.

Of a child only the line of all it holds matters: `All` is the file, then the stream, then
the staging buffer, `Sent` the first two.  Each operation of `FileSink` and `ConsoleSink`,
whatever it throws, adds what it was given to the right of `All` or moves lines to the left
(`Moved`, `Stepped`).  `SinkInv` then says of every child:

* `HeldInv`: what it holds beyond its first lines of this session is what the worker has
  given it so far, the line under way included once the round has passed it (`GivenTo`); what it
  sent is a beginning of that, also after an exception.
* `FlushInv`: a child that the round of a flush has passed holds nothing back.  Without it
  the last child's return could not speak for the others.
* `BatchInv`, `WriteInv`: a batch began no later than its lines came and is not overdue.
* `PollInv`: the children a poll has passed are not due.

For the promise, `InFileIsPrefix` (from `HeldInv`, also in the state a step leads to) and
`FileGrows` (a child's operation, whatever it throws, only appends to its file) make every
step at least `Progress`; the step of the last child of a flush is `Harden` by `FlushInv`.

### RotatingFileSink

For all sets of options that have a largest file size and number of files, and any sizes and
numbers of lines and restarts (`RotatingAssumption`; `AbsentAssumption`: a file that is
absent is not one that has lines), `RotatingFileSinkProofs` has:

| Theorem | Establishes |
|---|---|
| `RotationInvariant` | `Spec => []RotationInv` |
| `RetainedIsNewestTheorem` | `RetainedIsNewest` |
| `ArchivesAreKeptTheorem` | `ArchivesAreKept` |
| `FilesRespectMaxSizeTheorem` | `FilesRespectMaxSize` |
| `NoLineIsLostInRotationTheorem` | `NoLineIsLostInRotation` |
| `KeepsSinkPromiseTheorem` | `KeepsSinkPromise`, step by step |

`RotationInv` is a conjunction:

* `TypeInv`, `ControlInv`: what each step may rely on - a rotation has an empty stream and
  staging buffer, and the place it moves an archive to is free.
* `RowInv`: the lines of earlier processes that reached the disk and those this process has
  staged stand in one row, `Row`, with rising numbers; the disk is a beginning of it, the
  stream goes on from there, and while the sink works the staging buffer has the rest.
* `SizeInv`: the log file with all that is on its way there (`Filling`) fits, or is one line;
  `current_size_` is exact.  Fitting of the files alone is not inductive, a drain only moves
  what was allowed in when it was staged.
* `EraInv`: no file has been moved more often than rotations have begun since the eras of
  its lines; a file the rotation under way still has to move (`Unmoved`) one time less.
* `FilesInv`: the files hold lines of the disk (`OnDisk`), in order over all archives
  (`InOrder`); among the files that every process so far has asked for nothing is missing
  between a held line and the newest (`WithoutGap`); young lines are held (`YoungInv`).  The
  last two are proved by what a step takes away: a removal at the top of a rotation
  takes lines that `EraInv` shows to be old enough, a truncating start only those that
  count as removed.
* `OwnInv`: a truncating start removes lines of earlier processes only, for nothing is staged
  before it is over.

`NoLineIsLostInRotation` is about the files for what a `Flush` has covered, not about `disk`,
which never shrinks: `OwnInv` and `YoungInv` together say that such a line is held, however
the process fails or is killed, until `max_files` more rotations than the one that archived it
have begun.  That is all the code gives: without archives the next rotation truncates the log
file, flushed lines included.

The size of a file is a sum over its lines; what the proofs need of it (a concatenation's
size is the sum of the sizes, at least that of each line) is derived from the recursive
function's defining equation, by a least counterexample instead of induction.

### MessagePath

For every alphabet, inline capacity, number of cells, messages and any argument texts
(`PathAssumption`; `BlockAssumption`: a null pointer is not a block), `MessagePathProofs` has
`PathInvariant`, and from it `PayloadsTheorem` (`PayloadsWellFormed`), `TextsTheorem`
(`TextsAreWhole`: a text waits in its payload as its arguments made it up) and `TextsArrive`,
that the sink gets those texts, each once and in the order of the queue.  Each operation of
`LogPayload` is shown to keep `Good`, a payload of the right types that is well formed, and to
change its `View` as its name says (`AssignIs`, `AppendIs`, `PushIs`, `MoveIs`), whichever
buffers source and destination use.  `CountInv` counts one text for each message under way, and
messages less than a lap apart are in different cells (`CellsDiffer`).

`LinesShowMessagesTheorem` (`LinesShowMessages`) adds the formatter, for patterns of any length
and characters (`PatternAssumption`: a pattern is a sequence).  What a state of the compiler
shows is the line its tokens give, followed by the pending literal (`Shows`); `FlushLiteral`
leaves that alone, and every other step adds to it what it says (`AddLiteralIs`,
`AddTokensIs`, `SpecifierIs`).  `CompileShows` follows the compiler and the definition
`Expansion` along the pattern: after each character both have come to the same line, except
that behind a `%` that begins a specifier the compiler is one piece late; it is there
exactly where the definition by odd runs of `%` says so (`BeginsSteps`).  The standard
pattern, in which `%+` stands for itself, and then the sink's pattern, in which `%+` stands
for the standard one, are two uses of this lemma.

### Inductions over data

`TwoTo`, `RoundUpPowerOfTwo`, `Compile`, `FormatTo`, `FlattenSeq` and the sizes of files are
recursive functions, and the library's induction rules, which have an operator as a
parameter, cannot be used with the installed provers.  Two lemmas take their place:
`Recursion`, that a function on `0 .. n` with a given first value and step exists, so that
the CHOOSE in a recursive definition chooses one; and `Upwards`, that a set which has 0 and
with every number the next one has all of them up to `n`.  Both are proved from the least
element of a set of numbers.

### Service

For every number of workers, peers, descriptors, requests and configurations within
`ServiceAssumption`, `ServiceProofs` has:

| Theorem | Establishes |
|---|---|
| `TypeCorrect` | `TypeOK`; in particular only open descriptors leave `main` |
| `SleepersTheorem` | `SleepersHaveNoWork` |
| `HolderTheorem` | `EveryDescriptorHasOneHolder` |
| `AnswersTheorem` | `AnswersMatchRequests` |
| `ServiceInvariant` | `Spec => []ServiceInv` |
| `ReportTheorem` | `ReportIsExact`, if every configuration has a worker |
| `LogTheorem` | `LogIsWholeAtExit`, under the same hypothesis |
| `WorkersTheorem` | what `LoadConfig` returns has one, whatever the environment holds |

`SleepersHaveNoWork` and `EveryDescriptorHasOneHolder` are inductive as they stand, given
the types: the first counts awake workers against waiting connections (`WorkerMove` says
how the two sets change), the second is about who may hold what.  `MatchInv` says whom
each descriptor leads to and how far that peer's worker has come; it needs the one holder,
or another worker could stand at the descriptor.  `CountInv` relates `accepted` and
`total_requests` to the peers, and `DrainInv` says that a worker ends only at a stopped and
empty queue and the report comes after all of them.  With no worker at all the queue would
not be drained and the report would be wrong: hence the hypothesis, and `WorkersTheorem`.

`LogInv` adds the log.  `Due` is the set of lines that `main` and the workers have come past,
read off their program counters; `DueInv` says that the logger has exactly those of them that
the level lets pass, each once, `LastInv` that the report is behind all others.  `GoalInv` and
`WholeInv` follow the flush: it begins when all is logged, so its goal is everything, and when
it has returned nothing is pending and all is durable until `main` exits.

Each part was first checked by TLC as an invariant of the runs above.

### Model-checked only

* Everything temporal: `FailureReleasesCallers`, `CallsReturnIfWorkerWakes`, `ServiceEnds`
  and `EveryConnectionIsServed`; liveness under fairness is out of the proof system's reach.
* The four properties that the code does not have.


## 6. Plan

Order of work, most important first.

1. *(done)* `ReservationQueue`, `RingBuffer`, `AsyncLogger` with its properties, runs,
   findings and liveness; `RingCapacity`.
2. *(done)* Sinks: `OutputStream`, `FileSink`, `ConsoleSink`, `MultiSink`,
   `RotatingFileSink`.
3. *(done)* `LogPayload`, `PatternFormatter` and their composition `MessagePath`.
4. *(done)* `LoggerPromise`, what `AsyncLogger` promises, and `LoggerConfig` and `Service`
   built on it.
5. *(done)* Proofs of all safety properties that the runs check: of `AsyncLogger`, the ring
   and its capacity, the sinks, the payloads, the formatter and the service, and of the
   refinements.
6. *(done)* `SinkPromise`, the seam between the logger and its sinks: proved of the logger on
   one side and of `MultiSink` and `RotatingFileSink` on the other, so that
   `FlushMakesDurable` speaks of files.
7. A model of the drain loop under load without end.
8. Proofs: of the service on the logger itself, the promise's refinement put in the place of
   the promise.

**Not modelled**, and not planned: the benchmarks and their baseline logger (programs that
time one operation after the other: what they measure is not in the models), formatting
and layout of lines, copies of payloads and arguments that point into the payload they are
appended to, `socket`, `bind` and `listen` beyond that they may fail, tests, scripts and
build files (read for what they promise).
