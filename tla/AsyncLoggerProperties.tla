------------------------- MODULE AsyncLoggerProperties -------------------------
(***************************************************************************)
(* What AsyncLogger must guarantee to its callers, and where it does not.  *)
(***************************************************************************)
EXTENDS AsyncLogger

LogPcs     == {"logFailed", "logLevel", "countEnqueued", "uncountFailed",
               "uncountDropped", "countDropped"}
PublishPcs == {"publishFailed", "tryEnqueue", "publishSlot", "publishSignal",
               "publishNotify"}
FlushPcs   == {"flushJoinable", "flushFailed", "flushTicket", "flushLoad", "flushCheck",
               "flushWait", "flushBlocked", "flushResult"}
\* Where a client holds an OperationGuard.
Operating  == LogPcs \cup PublishPcs \cup FlushPcs \cup {"finish"}
StopPcs    == {"stopSignal", "stopNotify", "stopJoinable", "stopJoin"}
ClientPcs  == Operating \cup StopPcs \cup {"idle", "finishSignal", "finishNotify"}

WaitPcs    == {"evaluate", "sleep", "blocked"}
FailPcs    == {"failRecord", "failGate", "failFlag", "failLoad", "failStore", "failNotify"}
WorkerPcs  == {"drain", "release", "handle", "flushNotify", "recheckFlush", "levelFlush",
               "autoFlush", "checkStop", "finalFlush", "loadSignal", "recheck", "exited"}
              \cup WaitPcs \cup FailPcs

SlotType == [val : Items, state : {"reserved", "ready", "taken"}]

\* Every variable stays in its domain, and the queue within its capacity.
TypeOK ==
    /\ closed \in BOOLEAN /\ active \in Nat
    /\ queue \in Seq(SlotType) /\ Len(queue) <= Capacity
    /\ wakeChanged \in BOOLEAN
    /\ requestTicket \in Nat /\ completeTicket \in Nat /\ failTicket \in Nat
    /\ workerFailed \in BOOLEAN /\ failureRecorded \in BOOLEAN
    /\ enqueued \in Nat /\ dropped \in Nat /\ written \in Nat
    /\ joinable \in BOOLEAN
    /\ setup \in Setups
    /\ level \in Thresholds /\ flushLevel \in FlushThresholds
    /\ sinkOut \in Seq(Logs) /\ durable \in Nat /\ durable <= Len(sinkOut)
    /\ pc \in [Clients -> ClientPcs]
    /\ item \in [Clients -> Items \cup {None}]
    /\ seen \in [Clients -> Nat]
    /\ result \in [Clients -> BOOLEAN]
    /\ calls \in [Clients -> Nat]
    /\ wpc \in WorkerPcs /\ wItem \in Items \cup {None}
    /\ rechecking \in BOOLEAN /\ madeProgress \in BOOLEAN /\ flushRequired \in BOOLEAN
    /\ accepted \in SUBSET Logs
    /\ goal \in [Clients -> SUBSET Logs]

Elements(s) == { s[i] : i \in 1 .. Len(s) }
ReadyLogs   == { s.val : s \in { q \in Elements(queue) : q.state = "ready" /\ q.val.kind = "Log" } }
LogInHand   == IF wItem # None /\ wItem.kind = "Log" THEN {wItem} ELSE {}
WrittenLogs == Elements(sinkOut)

\* Every log whose TryEnqueue succeeded is in exactly one place: the queue, the
\* worker's hand or, once, the sink.  The worker neither loses nor repeats nor
\* invents a log; what it has not written when it is gone is still in the queue.
AcceptedLogsAreConserved ==
    /\ accepted = ReadyLogs \cup LogInHand \cup WrittenLogs
    /\ ReadyLogs \cap LogInHand = {} /\ ReadyLogs \cap WrittenLogs = {}
    /\ LogInHand \cap WrittenLogs = {}
    /\ Cardinality(WrittenLogs) = Len(sinkOut)

\* The sink gets the logs of one client in the order of the calls that made them.
ProducerOrder ==
    \A i, j \in 1 .. Len(sinkOut) :
        i < j /\ sinkOut[i].client = sinkOut[j].client => sinkOut[i].number < sinkOut[j].number

\* A Flush that returns true has made durable every log that had its slot in the queue
\* when the flush took its ticket, accepted or about to be - also when another flush's completion releases it, when flush items are
\* queued out of ticket order, and when the failing worker releases the waiters.
FlushMakesDurable ==
    \A t \in Clients :
        result[t] /\ item[t].kind = "Flush" =>
            goal[t] \subseteq { sinkOut[i] : i \in 1 .. durable }

\* The statistics: a log is counted as enqueued from before its slot is reserved, and
\* uncounted if it is refused, so pending (enqueued - written) is exactly what the
\* queue, the worker's hand and the calls under way hold.
Counted(t) == /\ pc[t] \in (PublishPcs \ {"publishSignal", "publishNotify"})
                           \cup {"uncountFailed", "uncountDropped"}
              /\ item[t].kind = "Log"
StatsAreExact ==
    /\ written = Len(sinkOut)
    /\ enqueued = Cardinality(accepted) + Cardinality({ t \in Clients : Counted(t) })

\* Unless it fails, the worker exits only after every Log and Flush that passed the gate
\* is over: no slot is left half published and no flusher waits for a dead worker.  (A
\* flush item may stay queued: its caller was released by a later ticket.)
NoOperationOutlivesWorker ==
    wpc = "exited" /\ ~ workerFailed =>
        /\ closed
        /\ \A t \in Clients : pc[t] \notin Operating
        /\ \A i \in 1 .. Len(queue) : queue[i].state = "ready"

\* A Flush that has drawn its ticket is turned down by a failed worker only: neither a full
\* queue, whatever the overflow policy, nor a Stop that overtakes it makes it return false.
FlushFailsOnlyWithWorker ==
    \A t \in Clients :
        /\ pc[t] = "finish" /\ item[t] # None /\ item[t].kind = "Flush" /\ ~ result[t]
        => workerFailed

\* A worker about to wait, or waiting, with an item ready for it has a changed
\* wake_signal_ or a producer about to change it: looking at the queue again after
\* reading the signal closes the gap between the drain and the wait's predicate.
NoItemWithoutSignal ==
    wpc \in WaitPcs /\ HeadReady =>
        wakeChanged \/ \E t \in Clients : pc[t] = "publishSignal"

\* Whoever sees failed() also finds the failure message and a closed gate, and once a
\* failed worker is gone no flusher is left blocked on a ticket nobody will complete.
FailureIsPublished ==
    workerFailed =>
        /\ closed /\ failureRecorded
        /\ wpc = "exited" => \A t \in Clients : pc[t] # "flushBlocked"

-------------------------------------------------------------------------------
(* What the logger makes of its queue, and what it is to its callers.      *)

\* The calls clients may make, and what they may publish in them.
CallIds == UNION { {t} \X (1 .. MaxCalls[t]) : t \in Clients }
PossibleLogs  == { LogItem(c[1], c[2], l) :
                       c \in { d \in CallIds : d[1] \in Loggers }, l \in MessageLevels }
PossibleItems == PossibleLogs \cup
                     { FlushItem(t, n) : t \in Flushers, n \in 1 .. Cardinality(CallIds) }

RQ == INSTANCE ReservationQueue
          WITH slots <- queue, Values <- PossibleItems, NoValue <- None

\* What waits in a queue for the worker, oldest first: the k-th log is the one in the slot
\* of rank k among those that hold a log nobody has taken.
LogSlots(q)  == { i \in 1 .. Len(q) : q[i].val.kind = "Log" /\ q[i].state # "taken" }
Rank(S, i)   == Cardinality({ j \in S : j <= i })
WaitingIn(q) == [k \in 1 .. Cardinality(LogSlots(q)) |->
                    q[CHOOSE i \in LogSlots(q) : Rank(LogSlots(q), i) = k].val]

\* What the worker has not written yet: the log in its hand and those that wait.
Pending == (IF LogInHand = {} THEN <<>> ELSE <<wItem>>) \o WaitingIn(queue)

\* Whose Flush has succeeded.
Succeeded == [t \in Clients |-> result[t] /\ item[t].kind = "Flush"]

Promise == INSTANCE LoggerPromise
               WITH Callers <- Clients,
                    Lines <- PossibleLogs,
                    pending <- Pending, out <- sinkOut, failed <- workerFailed,
                    flushed <- Succeeded

\* The logger uses its queue as ReservationQueue's single consumer: items leave it in the
\* order in which they got their slots, and only once they are published.
QueueIsReservationQueue == RQ!QSpec

Sink == INSTANCE SinkPromise
            WITH taken <- sinkOut, reached <- << SubSeq(sinkOut, 1, durable) >>,
                 state <- IF failureRecorded \/ wpc = "failRecord" THEN "failed" ELSE "running"

\* The logger relies on its sink for no more than SinkPromise gives, and keeps its side of
\* it: once the sink has thrown, in whatever call, the worker never calls it again.
UsesSinkAsPromised == Sink!Spec

\* To its callers the logger is the one LoggerPromise describes.
ImplementsLoggerPromise == Promise!Spec

-------------------------------------------------------------------------------
(* Liveness, under FairSpec.                                               *)

\* When the worker fails, every call under way returns: producers stuck on a full queue,
\* flushers waiting for a ticket, and Stop.
FailureReleasesCallers == workerFailed ~> \A t \in Clients : pc[t] = "idle"

\* The worker is not left blocked for good although it has a reason to wake up.
WorkerWakes == []<> ~ (wpc = "blocked" /\ ShouldWake)

CallsReturn == \A t \in Clients : pc[t] # "idle" ~> pc[t] = "idle"

\* With flushes that do not overlap, a missed wake-up is the only way to hang: if the
\* worker wakes, every Log (also one blocked on a full queue), Flush and Stop returns.
CallsReturnIfWorkerWakes == WorkerWakes => CallsReturn

-------------------------------------------------------------------------------
(* What the documentation says and the code does not do.                   *)

\* README.md:28 - Stop lets the worker drain the queue: once it has exited without a
\* failure, every accepted log is written.
StopDrainsAcceptedLogs == wpc = "exited" /\ ~ workerFailed => accepted \subseteq WrittenLogs

\* Interview notes, question 45 - simultaneous flushes complete in ticket order: if the
\* worker wakes, every flusher waiting for its ticket is released.
SimultaneousFlushesReturn ==
    WorkerWakes => \A t \in Flushers : pc[t] = "flushBlocked" ~> pc[t] = "idle"
===============================================================================
