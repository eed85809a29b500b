------------------------------ MODULE AsyncLogger ------------------------------
(***************************************************************************)
(* hlog::AsyncLogger (include/hlog/async_logger.h, src/core/               *)
(* async_logger.cpp): client threads calling Log, Flush and Stop, the      *)
(* worker thread, and what they share.  One action per access to shared    *)
(* state; accesses interleave in a sequentially consistent order, and a    *)
(* step that only touches what its own thread owns is part of the next.    *)
(*                                                                         *)
(* The queue is the one ReservationQueue promises, with one consumer.  The *)
(* sink is any Sink: a line it was given becomes durable when it is        *)
(* flushed, and every Write and Flush may throw.                           *)
(***************************************************************************)
EXTENDS Naturals, Sequences, FiniteSets

CONSTANTS Clients,                     \* the threads using the logger
          Loggers, Flushers, Stoppers, \* those calling Log, Flush, Stop
          MaxCalls,                    \* bound: calls each client makes
          Capacity,                    \* capacity of the queue
          MessageLevels,               \* levels of the messages clients log
          Thresholds, FlushThresholds, \* values of level_ and of flush_level_
          Setups,                      \* overflow policies and kinds of sinks
          None                         \* no item

ASSUME LoggerAssumption ==
    /\ IsFiniteSet(Clients)
    /\ Loggers \subseteq Clients /\ Flushers \subseteq Clients
    /\ Stoppers \subseteq Clients
    /\ MaxCalls \in [Clients -> Nat]
    /\ Capacity \in Nat \ {0, 1}
    /\ MessageLevels \subseteq 0 .. 6 /\ Thresholds \subseteq 0 .. 6
    /\ FlushThresholds \subseteq 0 .. 6
    /\ Setups \subseteq [policy : {"Block", "DropNewest"},  \* overflow_policy_
                          autoFlush : BOOLEAN,  \* may NextAutoFlushTime be finite?
                          sinkMayThrow : BOOLEAN]

Off == 6

ShouldLog(messageLevel, configuredLevel) ==
    /\ configuredLevel # Off
    /\ messageLevel >= configuredLevel
    /\ messageLevel # Off

(* A log is told from the others by the call that made it, a flush by its  *)
(* ticket.                                                                 *)
LogItem(t, n, l)   == [kind |-> "Log", client |-> t, number |-> n, level |-> l]
FlushItem(t, n)    == [kind |-> "Flush", client |-> t, number |-> n, level |-> Off]
Logs  == [kind : {"Log"}, client : Clients, number : Nat, level : Nat]
Items == [kind : {"Log", "Flush"}, client : Clients, number : Nat, level : Nat]

ASSUME NoneAssumption == None \notin Items

VARIABLES
    closed, active,               \* operation_state_: gate bit, operation count
    queue,                        \* slots of queue_, oldest first
    wakeChanged,                  \* wake_signal_ differs from the worker's snapshot
    requestTicket, completeTicket,  \* flush_request_ticket_, flush_complete_ticket_
    workerFailed,                 \* worker_failed_
    failureRecorded,              \* background_failure_ and its message are set
    enqueued, dropped, written,   \* the statistics counters
    joinable,                     \* worker_.joinable()
    setup, level, flushLevel,
    sinkOut, durable,             \* lines given to the sink; how many are flushed
    pc, item, seen, result, calls,  \* locals of the clients
    wpc, wItem, rechecking, madeProgress, flushRequired, failTicket,  \* of the worker
    accepted,                     \* history: logs TryEnqueue has published
    goal                          \* history: logs in place when a flush took its ticket

gate    == <<closed, active>>
options == <<setup, level, flushLevel>>
logger  == <<gate, options, queue, wakeChanged>>

\* What only clients write.
totals  == <<requestTicket, enqueued, dropped, joinable>>
locals  == <<item, seen, result, calls>>
history == <<accepted, goal>>
clientOwned == <<totals, pc, locals, history>>

\* What only the worker writes, but for the notification that wakes it.
outcome == <<completeTicket, workerFailed, failureRecorded, written>>
sink    == <<sinkOut, durable>>
working == <<wItem, rechecking, madeProgress, flushRequired, failTicket>>
workerOwned == <<outcome, sink, wpc, working>>

vars == <<logger, clientOwned, workerOwned>>

Init ==
    /\ closed = FALSE /\ active = 0
    /\ queue = <<>>
    /\ wakeChanged = FALSE
    /\ requestTicket = 0 /\ completeTicket = 0
    /\ workerFailed = FALSE /\ failureRecorded = FALSE
    /\ enqueued = 0 /\ dropped = 0 /\ written = 0
    /\ joinable = TRUE
    /\ setup \in Setups
    /\ level \in Thresholds /\ flushLevel \in FlushThresholds
    /\ sinkOut = <<>> /\ durable = 0
    /\ pc = [t \in Clients |-> "idle"]
    /\ item = [t \in Clients |-> None]
    /\ seen = [t \in Clients |-> 0]
    /\ result = [t \in Clients |-> FALSE]
    /\ calls = [t \in Clients |-> 0]
    /\ wpc = "drain" /\ wItem = None /\ rechecking = FALSE
    /\ madeProgress = FALSE /\ flushRequired = FALSE /\ failTicket = 0
    /\ accepted = {}
    /\ goal = [t \in Clients |-> {}]

-------------------------------------------------------------------------------
(* The queue, with slots as in ReservationQueue.                           *)

Slot(v, s) == [val |-> v, state |-> s]
\* Seeded faults: one slot too many; a slot taken before it is published.
HasRoomForOneMore == Len(queue) <= Capacity
HeadPresent == queue # <<>>

\* Logs that have their slot, but may not be published yet.
ReservedLogs == { queue[i].val : i \in { j \in 1 .. Len(queue) : queue[j].val.kind = "Log" } }

HasRoom    == Len(queue) < Capacity
HeadReady  == queue # <<>> /\ queue[1].state = "ready"

Reserve(v) == queue' = Append(queue, Slot(v, "reserved"))
Publish(v) == queue' = [i \in 1 .. Len(queue) |->
                           IF queue[i].val = v THEN Slot(v, "ready") ELSE queue[i]]
Take       == queue' = [queue EXCEPT ![1].state = "taken"]
Release    == queue' = Tail(queue)

(* The gate: TryStartOperation, FinishOperation and RequestStop are loops  *)
(* around one compare-and-swap, and take effect at its success.            *)

Enter       == ~ closed /\ active' = active + 1 /\ UNCHANGED closed
Leave       == active' = active - 1 /\ UNCHANGED closed
LastToLeave == closed /\ active = 1
CloseGate   == closed' = TRUE /\ UNCHANGED active
\* Seeded fault: the worker does not wait for the operations under way.
DrainedEarly == closed

Drained     == closed /\ active = 0   \* StopRequested and no active operation

\* Steps of a client: a move of its program counter, and one that changes nothing else.
Go(t, from, to)   == pc[t] = from /\ pc' = [pc EXCEPT ![t] = to]
Jump(t, from, to) == /\ Go(t, from, to)
                     /\ UNCHANGED <<logger, workerOwned, totals, locals, history>>

-------------------------------------------------------------------------------
(* Log                                                                     *)

\* The gate is closed: Log and Flush return false at once.
CallRefused(t) ==
    /\ t \in Loggers \cup Flushers
    /\ pc[t] = "idle" /\ calls[t] < MaxCalls[t]
    /\ closed
    /\ calls' = [calls EXCEPT ![t] = @ + 1]
    /\ UNCHANGED <<logger, workerOwned, totals, pc, item, seen, result, history>>

StartLog(t) ==
    /\ t \in Loggers
    /\ calls[t] < MaxCalls[t]
    /\ Go(t, "idle", "logFailed")
    /\ Enter
    /\ calls' = [calls EXCEPT ![t] = @ + 1]
    /\ \E l \in MessageLevels :
          item' = [item EXCEPT ![t] = LogItem(t, calls[t] + 1, l)]
    /\ UNCHANGED <<options, queue, wakeChanged, workerOwned, totals, seen, result,
                   history>>

LogCheckFailed(t) ==
    Jump(t, "logFailed", IF workerFailed THEN "finish" ELSE "logLevel")

LogCheckLevel(t) ==
    Jump(t, "logLevel", IF ShouldLog(item[t].level, level) THEN "countEnqueued" ELSE "finish")

-------------------------------------------------------------------------------
(* Publish                                                                 *)

isLog(t) == item[t].kind = "Log"

PublishCount(t) ==
    /\ Go(t, "countEnqueued", "publishFailed")
    /\ enqueued' = enqueued + 1
    /\ UNCHANGED <<logger, workerOwned, requestTicket, dropped, joinable, locals,
                   history>>

PublishCheckFailed(t) ==
    Jump(t, "publishFailed", CASE ~ workerFailed -> "tryEnqueue"
                               [] isLog(t)       -> "uncountFailed"
                               [] OTHER          -> "finish")

PublishReserve(t) ==
    /\ HasRoom
    /\ Go(t, "tryEnqueue", "publishSlot")
    /\ Reserve(item[t])
    /\ UNCHANGED <<gate, options, wakeChanged, workerOwned, totals, locals, history>>

\* Seeded fault: the policy decides about flush items too.
MayBlockByPolicy(t) == setup.policy = "Block"

MayBlock(t) == ~ isLog(t) \/ setup.policy = "Block"

\* Seeded fault: a dropped log stays counted as enqueued.
PublishFullKeepsCount(t) ==
    /\ ~ HasRoom
    /\ Jump(t, "tryEnqueue", IF MayBlock(t) THEN "publishFailed" ELSE "countDropped")

\* The queue is full: retry (the back-off only delays), or give the log up.
PublishFull(t) ==
    /\ ~ HasRoom
    /\ Jump(t, "tryEnqueue", IF MayBlock(t) THEN "publishFailed" ELSE "uncountDropped")

PublishSlot(t) ==
    /\ Go(t, "publishSlot", "publishSignal")
    /\ Publish(item[t])
    /\ result' = [result EXCEPT ![t] = isLog(t)]
    /\ accepted' = IF isLog(t) THEN accepted \cup {item[t]} ELSE accepted
    /\ UNCHANGED <<gate, options, wakeChanged, workerOwned, totals, item, seen, calls,
                   goal>>

PublishUncount(t) ==
    /\ \/ Go(t, "uncountFailed", "finish")
       \/ Go(t, "uncountDropped", "countDropped")
    /\ enqueued' = enqueued - 1
    /\ UNCHANGED <<logger, workerOwned, requestTicket, dropped, joinable, locals,
                   history>>

PublishDrop(t) ==
    /\ Go(t, "countDropped", "finish")
    /\ dropped' = dropped + 1
    /\ UNCHANGED <<logger, workerOwned, requestTicket, enqueued, joinable, locals,
                   history>>

-------------------------------------------------------------------------------
(* NotifyWorker, from the three places that call it.                       *)

NotifySignal(t) ==
    /\ \/ Go(t, "publishSignal", "publishNotify")
       \/ Go(t, "finishSignal", "finishNotify")
       \/ Go(t, "stopSignal", "stopNotify")
    /\ wakeChanged' = TRUE
    /\ UNCHANGED <<gate, options, queue, workerOwned, totals, locals, history>>

\* notify_one reaches the worker only if it is blocked already.
WakeBlocked == wpc' = IF wpc = "blocked" THEN "evaluate" ELSE wpc

NotifyOne(t) ==
    /\ \/ Go(t, "publishNotify", IF isLog(t) THEN "finish" ELSE "flushLoad")
       \/ Go(t, "finishNotify", "idle")
       \/ Go(t, "stopNotify", "stopJoinable")
    /\ WakeBlocked
    /\ UNCHANGED <<logger, totals, locals, history, outcome, sink, working>>

\* ~OperationGuard; the locals of the call go out of scope.
FinishOperation(t) ==
    /\ Go(t, "finish", IF LastToLeave THEN "finishSignal" ELSE "idle")
    /\ Leave
    /\ item' = [item EXCEPT ![t] = None]
    /\ seen' = [seen EXCEPT ![t] = 0]
    /\ result' = [result EXCEPT ![t] = FALSE]
    /\ goal' = [goal EXCEPT ![t] = {}]
    /\ UNCHANGED <<options, queue, wakeChanged, workerOwned, totals, calls, accepted>>

-------------------------------------------------------------------------------
(* Flush                                                                   *)

StartFlush(t) ==
    /\ t \in Flushers
    /\ calls[t] < MaxCalls[t]
    /\ Go(t, "idle", "flushJoinable")
    /\ Enter
    /\ calls' = [calls EXCEPT ![t] = @ + 1]
    /\ UNCHANGED <<options, queue, wakeChanged, workerOwned, totals, item, seen,
                   result, history>>

FlushCheckJoinable(t) ==
    Jump(t, "flushJoinable", IF joinable THEN "flushFailed" ELSE "finish")

FlushCheckFailed(t) ==
    Jump(t, "flushFailed", IF workerFailed THEN "finish" ELSE "flushTicket")

FlushTicket(t) ==
    /\ Go(t, "flushTicket", "publishFailed")
    /\ requestTicket' = requestTicket + 1
    /\ item' = [item EXCEPT ![t] = FlushItem(t, requestTicket + 1)]
    /\ goal' = [goal EXCEPT ![t] = accepted \cup ReservedLogs]
    /\ UNCHANGED <<logger, workerOwned, enqueued, dropped, joinable, seen, result,
                   calls, accepted>>

FlushLoad(t) ==
    /\ Go(t, "flushLoad",
          IF completeTicket < item[t].number THEN "flushCheck" ELSE "flushResult")
    /\ seen' = [seen EXCEPT ![t] = completeTicket]
    /\ UNCHANGED <<logger, workerOwned, totals, item, result, calls, history>>

FlushCheckWorker(t) ==
    Jump(t, "flushCheck", IF workerFailed THEN "finish" ELSE "flushWait")

\* atomic::wait compares and blocks in one step; notify_all makes it compare again.
FlushWait(t) ==
    Jump(t, "flushWait", IF completeTicket = seen[t] THEN "flushBlocked" ELSE "flushLoad")

\* Seeded fault: reaching the ticket is taken for success.
FlushResultUnchecked(t) ==
    /\ Go(t, "flushResult", "finish")
    /\ result' = [result EXCEPT ![t] = TRUE]
    /\ UNCHANGED <<logger, workerOwned, totals, item, seen, calls, history>>

FlushResult(t) ==
    /\ Go(t, "flushResult", "finish")
    /\ result' = [result EXCEPT ![t] = ~ workerFailed]
    /\ UNCHANGED <<logger, workerOwned, totals, item, seen, calls, history>>

-------------------------------------------------------------------------------
(* Stop, which the destructor calls too.                                   *)

StartStop(t) ==
    /\ t \in Stoppers
    /\ calls[t] < MaxCalls[t]
    /\ Go(t, "idle", IF closed THEN "stopJoinable" ELSE "stopSignal")
    /\ CloseGate
    /\ calls' = [calls EXCEPT ![t] = @ + 1]
    /\ UNCHANGED <<options, queue, wakeChanged, workerOwned, totals, item, seen,
                   result, history>>

StopCheckJoinable(t) ==
    Jump(t, "stopJoinable", IF joinable THEN "stopJoin" ELSE "idle")

\* What a join does beside or after another one is undefined: that thread stays in it.
StopJoin(t) ==
    /\ joinable /\ wpc = "exited"
    /\ Go(t, "stopJoin", "idle")
    /\ joinable' = FALSE
    /\ UNCHANGED <<logger, workerOwned, requestTicket, enqueued, dropped, locals,
                   history>>

SetLevel == /\ level' \in Thresholds
            /\ UNCHANGED <<gate, setup, flushLevel, queue,
                           wakeChanged, clientOwned, workerOwned>>

SetFlushLevel == /\ flushLevel' \in FlushThresholds
                 /\ UNCHANGED <<gate, setup, level, queue,
                                wakeChanged, clientOwned, workerOwned>>

-------------------------------------------------------------------------------
(* The worker: WorkerLoop, HandleItem, WaitForWakeup.                      *)

\* A move of the worker's program counter, and one that changes nothing else.
WGo(from, to)   == wpc = from /\ wpc' = to
WJump(from, to) == /\ WGo(from, to)
                   /\ UNCHANGED <<logger, clientOwned, outcome, sink, working>>

\* The sink makes every line it was given durable.
SinkFlush == durable' = Len(sinkOut)

\* TryDequeue succeeds, in the drain loop or in the second look before waiting.
TakeItem ==
    /\ HeadReady
    /\ \/ WGo("drain", "release") /\ rechecking' = FALSE /\ madeProgress' = TRUE
       \/ WGo("recheck", "release") /\ rechecking' = TRUE /\ UNCHANGED madeProgress
    /\ Take
    /\ wItem' = queue[1].val
    /\ UNCHANGED <<gate, options, wakeChanged, clientOwned, outcome, sink,
                   flushRequired, failTicket>>

\* Seeded fault: the item of the second look is dropped.
ReleaseSlotForgets ==
    /\ WGo("release", IF rechecking THEN "drain" ELSE "handle")
    /\ Release
    /\ UNCHANGED <<gate, options, wakeChanged, clientOwned, outcome, sink, working>>

\* Seeded fault: the second look puts the item back, at the end of the queue.
ReleaseSlotRequeues ==
    /\ WGo("release", IF rechecking THEN "drain" ELSE "handle")
    /\ IF rechecking THEN queue' = Append(Tail(queue), Slot(wItem, "ready")) /\ wItem' = None
                     ELSE Release /\ UNCHANGED wItem
    /\ UNCHANGED <<gate, options, wakeChanged, clientOwned, outcome, sink,
                   rechecking, madeProgress, flushRequired, failTicket>>

ReleaseSlot ==
    /\ WGo("release", "handle")
    /\ Release
    /\ UNCHANGED <<gate, options, wakeChanged, clientOwned, outcome, sink, working>>

\* After an item: the drain loop goes on, the second look ends the iteration.
AfterItem(required) ==
    IF rechecking /\ required THEN "recheckFlush" ELSE "drain"

EndOfIteration == madeProgress' = FALSE /\ flushRequired' = FALSE

HandleLog ==
    /\ wItem # None /\ wItem.kind = "Log"
    /\ sinkOut' = Append(sinkOut, wItem)
    /\ written' = written + 1
    /\ LET required == ShouldLog(wItem.level, flushLevel) IN
          /\ WGo("handle", AfterItem(required))
          /\ IF rechecking
                THEN EndOfIteration
                ELSE flushRequired' = (flushRequired \/ required) /\ UNCHANGED madeProgress
    /\ wItem' = None
    /\ UNCHANGED <<logger, clientOwned, completeTicket, workerFailed, failureRecorded,
                   durable, rechecking, failTicket>>

HandleFlush ==
    /\ wItem # None /\ wItem.kind = "Flush"
    /\ WGo("handle", "flushNotify")
    /\ SinkFlush
    /\ completeTicket' = wItem.number
    /\ UNCHANGED <<logger, clientOwned, workerFailed, failureRecorded, written,
                   sinkOut, working>>

\* Seeded fault: the notification is forgotten.
WakeNobody == UNCHANGED pc

\* notify_all on flush_complete_ticket_.
WakeFlushers == pc' = [t \in Clients |-> IF pc[t] = "flushBlocked" THEN "flushWait" ELSE pc[t]]

NotifyFlushers ==
    /\ WGo("flushNotify", "drain")
    /\ WakeFlushers
    /\ wItem' = None
    /\ IF rechecking THEN EndOfIteration ELSE UNCHANGED <<madeProgress, flushRequired>>
    /\ UNCHANGED <<logger, totals, locals, history, outcome, sink, rechecking,
                   failTicket>>

RecheckFlush ==
    /\ WGo("recheckFlush", "drain")
    /\ SinkFlush
    /\ UNCHANGED <<logger, clientOwned, outcome, sinkOut, working>>

\* TryDequeue fails: the drain loop ends.
DrainEnds == /\ ~ HeadReady
             /\ WJump("drain", IF flushRequired THEN "levelFlush" ELSE "autoFlush")

LevelFlush ==
    /\ WGo("levelFlush", "autoFlush")
    /\ SinkFlush
    /\ UNCHANGED <<logger, clientOwned, outcome, sinkOut, working>>

\* A sink with a flush interval has a deadline while it holds unflushed lines.
HasDeadline == setup.autoFlush /\ durable < Len(sinkOut)

AutoFlushDue ==
    /\ HasDeadline
    /\ WGo("autoFlush", "checkStop")
    /\ SinkFlush
    /\ madeProgress' = TRUE
    /\ UNCHANGED <<logger, clientOwned, outcome, sinkOut, wItem, rechecking,
                   flushRequired, failTicket>>

AutoFlushNotDue == WJump("autoFlush", "checkStop")

CheckStop ==
    /\ WGo("checkStop", CASE Drained      -> "finalFlush"
                          [] madeProgress -> "drain"
                          [] OTHER        -> "loadSignal")
    /\ EndOfIteration
    /\ UNCHANGED <<logger, clientOwned, outcome, sink, wItem, rechecking, failTicket>>

FinalFlush ==
    /\ WGo("finalFlush", "exited")
    /\ SinkFlush
    /\ UNCHANGED <<logger, clientOwned, outcome, sinkOut, working>>

\* Seeded fault: no second look at the queue.
LoadSignalOnly ==
    /\ WGo("loadSignal", "evaluate")
    /\ wakeChanged' = FALSE
    /\ UNCHANGED <<gate, options, queue, clientOwned, outcome, sink, working>>

LoadSignal ==
    /\ WGo("loadSignal", "recheck")
    /\ wakeChanged' = FALSE
    /\ UNCHANGED <<gate, options, queue, clientOwned, outcome, sink, working>>

RecheckEmpty == ~ HeadReady /\ WJump("recheck", "evaluate")

\* The predicate of the wait; notify_one does not take the mutex it runs under.
ShouldWake == wakeChanged \/ workerFailed \/ Drained

EvaluateWake == WJump("evaluate", IF ShouldWake THEN "drain" ELSE "sleep")

Sleep == WJump("sleep", "blocked")

WaitTimesOut == HasDeadline /\ WJump("blocked", "drain")

SpuriousWakeup == WJump("blocked", "evaluate")

-------------------------------------------------------------------------------
(* An exception leaves the loop; RecordWorkerFailure.                      *)

SinkThrows ==
    /\ setup.sinkMayThrow
    /\ \/ WGo("handle", "failRecord")
       \/ WGo("recheckFlush", "failRecord")
       \/ WGo("levelFlush", "failRecord")
       \/ HasDeadline /\ WGo("autoFlush", "failRecord")
       \/ WGo("finalFlush", "failRecord")
    /\ UNCHANGED <<logger, clientOwned, outcome, sink, working>>

\* Seeded fault: the exception is caught within the loop, which goes on.
FailRecordGoesOn ==
    /\ WGo("failRecord", "drain")
    /\ failureRecorded' = TRUE
    /\ UNCHANGED <<logger, clientOwned, completeTicket, workerFailed, written, sink,
                   working>>

FailRecord ==
    /\ WGo("failRecord", "failGate")
    /\ failureRecorded' = TRUE
    /\ UNCHANGED <<logger, clientOwned, completeTicket, workerFailed, written, sink,
                   working>>

FailCloseGate ==
    /\ WGo("failGate", "failFlag")
    /\ CloseGate
    /\ UNCHANGED <<options, queue, wakeChanged, clientOwned, outcome, sink, working>>

FailSetFlag ==
    /\ WGo("failFlag", "failLoad")
    /\ workerFailed' = TRUE
    /\ UNCHANGED <<logger, clientOwned, completeTicket, failureRecorded, written, sink,
                   working>>

FailLoadTicket ==
    /\ WGo("failLoad", "failStore")
    /\ failTicket' = requestTicket
    /\ UNCHANGED <<logger, clientOwned, outcome, sink, wItem, rechecking, madeProgress,
                   flushRequired>>

\* Seeded fault: the failing worker leaves the completed ticket alone.
FailKeepTicket == WJump("failStore", "failNotify")

FailStoreTicket ==
    /\ WGo("failStore", "failNotify")
    /\ completeTicket' = failTicket
    /\ UNCHANGED <<logger, clientOwned, workerFailed, failureRecorded, written, sink,
                   working>>

\* Wakes the flushers; the worker's notification of itself finds nobody waiting.
FailNotify ==
    /\ WGo("failNotify", "exited")
    /\ WakeFlushers
    /\ wakeChanged' = TRUE
    /\ UNCHANGED <<gate, options, queue, totals, locals, history, outcome, sink,
                   working>>

-------------------------------------------------------------------------------

Call(t) == CallRefused(t) \/ StartLog(t) \/ StartFlush(t) \/ StartStop(t)

\* Everything a client does once it is inside a call.
ClientStep(t) ==
    \/ LogCheckFailed(t) \/ LogCheckLevel(t)
    \/ PublishCount(t) \/ PublishCheckFailed(t) \/ PublishReserve(t) \/ PublishFull(t)
    \/ PublishSlot(t) \/ PublishUncount(t) \/ PublishDrop(t)
    \/ NotifySignal(t) \/ NotifyOne(t) \/ FinishOperation(t)
    \/ FlushCheckJoinable(t) \/ FlushCheckFailed(t) \/ FlushTicket(t) \/ FlushLoad(t)
    \/ FlushCheckWorker(t) \/ FlushWait(t) \/ FlushResult(t)
    \/ StopCheckJoinable(t) \/ StopJoin(t)

\* What the worker does on its own account; it may throw or be woken for no reason.
WorkerStep ==
    \/ TakeItem \/ ReleaseSlot \/ HandleLog \/ HandleFlush \/ NotifyFlushers
    \/ RecheckFlush \/ DrainEnds \/ LevelFlush \/ AutoFlushDue \/ AutoFlushNotDue
    \/ CheckStop \/ FinalFlush \/ LoadSignal \/ RecheckEmpty \/ EvaluateWake \/ Sleep
    \/ WaitTimesOut
    \/ FailRecord \/ FailCloseGate \/ FailSetFlag \/ FailLoadTicket \/ FailStoreTicket
    \/ FailNotify

Next == \/ \E t \in Clients : Call(t) \/ ClientStep(t)
        \/ WorkerStep \/ SinkThrows \/ SpuriousWakeup
        \/ SetLevel \/ SetFlushLevel

Spec == Init /\ [][Next]_vars

\* Every thread that can go on is eventually scheduled.
FairSpec == Spec /\ (\A t \in Clients : WF_vars(ClientStep(t))) /\ WF_vars(WorkerStep)
===============================================================================
