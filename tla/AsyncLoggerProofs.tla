--------------------------- MODULE AsyncLoggerProofs ---------------------------
(***************************************************************************)
(* Safety of AsyncLogger for every number of clients, calls and slots and  *)
(* for every sink.  First what the queue operations do to its slots, then  *)
(* the types.  The inductive invariant IInv is a conjunction of parts      *)
(* that are proved one after the other, each from the parts before it:     *)
(* what the gate counts, what a failing worker has done so far, when the   *)
(* worker may be gone, who owns an item and a slot, where flush tickets    *)
(* stand, what the statistics count, and who is about to wake the worker.  *)
(***************************************************************************)
EXTENDS AsyncLoggerProperties, Integers, FiniteSetTheorems, SequenceTheorems, TLAPS

(***************************************************************************)
(* What the four operations do to the queue, slot by slot.                 *)
(***************************************************************************)

\* TryEnqueue's claim appends one slot.
LEMMA ReserveProperties ==
    ASSUME queue \in Seq(SlotType), NEW v \in Items, Reserve(v)
    PROVE  /\ queue' \in Seq(SlotType)
           /\ Len(queue') = Len(queue) + 1
           /\ \A i \in 1 .. Len(queue) : queue'[i] = queue[i]
           /\ queue'[Len(queue) + 1] = Slot(v, "reserved")
<1>1. Slot(v, "reserved") \in SlotType
  BY DEF Slot, SlotType
<1> QED
  BY <1>1 DEF Reserve

\* TryEnqueue's publication changes slots in place.
LEMMA PublishProperties ==
    ASSUME queue \in Seq(SlotType), NEW v \in Items, Publish(v)
    PROVE  /\ queue' \in Seq(SlotType)
           /\ Len(queue') = Len(queue)
           /\ \A i \in 1 .. Len(queue) :
                 queue'[i] = IF queue[i].val = v THEN Slot(v, "ready") ELSE queue[i]
<1>1. Slot(v, "ready") \in SlotType
  BY DEF Slot, SlotType
<1> QED
  BY <1>1 DEF Publish

\* TryDequeue's claim marks the oldest slot.
LEMMA TakeProperties ==
    ASSUME queue \in Seq(SlotType), HeadReady, Take
    PROVE  /\ queue' \in Seq(SlotType)
           /\ Len(queue') = Len(queue) /\ Len(queue) > 0
           /\ queue[1] \in SlotType
           /\ queue'[1] = Slot(queue[1].val, "taken")
           /\ \A i \in 2 .. Len(queue) : queue'[i] = queue[i]
<1>1. queue[1] \in SlotType /\ Len(queue) > 0
  BY EmptySeq DEF HeadReady
<1>2. [queue[1] EXCEPT !.state = "taken"] = Slot(queue[1].val, "taken")
  BY <1>1 DEF SlotType, Slot
<1>3. Slot(queue[1].val, "taken") \in SlotType
  BY <1>1 DEF SlotType, Slot
<1>4. queue' = [queue EXCEPT ![1] = Slot(queue[1].val, "taken")]
  BY <1>2 DEF Take
<1> QED
  BY <1>1, <1>3, <1>4, ExceptSeq

\* TryDequeue's release removes the oldest slot.
LEMMA ReleaseProperties ==
    ASSUME queue \in Seq(SlotType), queue # <<>>, Release
    PROVE  /\ queue' \in Seq(SlotType)
           /\ Len(queue') = Len(queue) - 1
           /\ \A i \in 1 .. Len(queue') : queue'[i] = queue[i + 1]
BY HeadTailProperties DEF Release

(***************************************************************************)
(* The inductive form of TypeOK, by owner.  Two counters are decremented:  *)
(* they are integers here, and natural numbers by the theorems of          *)
(* AsyncLoggerProofs.  A client or the worker that is about to use an item *)
(* holds one.                                                              *)
(***************************************************************************)

FlushItemPcs == {"flushLoad", "flushCheck", "flushWait", "flushBlocked", "flushResult"}

\* What a client must hold where its program counter is p.
FitsAt(i, p) == /\ p \in LogPcs => i \in Logs
                /\ p \in PublishPcs => i \in Items
                /\ p \in FlushItemPcs => i \in Items /\ i.kind = "Flush"

ClientTypes ==
    /\ requestTicket \in Nat /\ enqueued \in Int /\ dropped \in Nat
    /\ pc \in [Clients -> ClientPcs]
    /\ item \in [Clients -> Items \cup {None}]
    /\ seen \in [Clients -> Nat]
    /\ result \in [Clients -> BOOLEAN]
    /\ calls \in [Clients -> Nat]
    /\ accepted \in SUBSET Logs
    /\ goal \in [Clients -> SUBSET Logs]
    /\ \A t \in Clients : FitsAt(item[t], pc[t])

SharedTypes ==
    /\ active \in Int
    /\ queue \in Seq(SlotType) /\ Len(queue) <= Capacity
    /\ setup \in Setups
    /\ level \in Thresholds /\ flushLevel \in FlushThresholds
    /\ wpc = "release" => queue # <<>>

\* Where the worker holds an item.
ItemPcs == {"release", "handle", "flushNotify"}

WorkerTypes ==
    /\ completeTicket \in Nat /\ failTicket \in Nat /\ written \in Nat
    /\ sinkOut \in Seq(Logs) /\ durable \in Nat /\ durable <= Len(sinkOut)
    /\ wpc \in WorkerPcs /\ wItem \in Items \cup {None}
    /\ wpc \in ItemPcs => wItem \in Items

FlagTypes ==
    /\ closed \in BOOLEAN /\ wakeChanged \in BOOLEAN /\ joinable \in BOOLEAN
    /\ workerFailed \in BOOLEAN /\ failureRecorded \in BOOLEAN
    /\ rechecking \in BOOLEAN /\ madeProgress \in BOOLEAN /\ flushRequired \in BOOLEAN

TypeInv == ClientTypes /\ SharedTypes /\ WorkerTypes /\ FlagTypes

(***************************************************************************)
(* Steps that change little.                                               *)
(***************************************************************************)

\* Types survive steps that leave their variables alone.
LEMMA ClientFrame == ClientTypes /\ UNCHANGED clientOwned => ClientTypes'
BY DEF ClientTypes, clientOwned, totals, locals, history

LEMMA SharedFrame == SharedTypes /\ UNCHANGED logger /\ wpc' # "release" => SharedTypes'
BY DEF SharedTypes, logger, gate, options

LEMMA WorkerFrame == WorkerTypes /\ UNCHANGED workerOwned => WorkerTypes'
BY DEF WorkerTypes, workerOwned, outcome, sink, working

\* A step of a client that leaves the shared state and the worker alone.
LEMMA ClientOnly ==
    ASSUME TypeInv, ClientTypes', UNCHANGED <<logger, workerOwned, joinable>>
    PROVE  TypeInv'
<1>1. SharedTypes'
  BY DEF TypeInv, SharedTypes, logger, gate, options, workerOwned
<1>2. FlagTypes'
  BY DEF TypeInv, FlagTypes, logger, gate, workerOwned, outcome, working
<1> QED
  BY <1>1, <1>2, WorkerFrame DEF TypeInv

\* A step of the worker that leaves the shared state and the clients alone.
LEMMA WorkerOnly ==
    ASSUME TypeInv, WorkerTypes', FlagTypes', wpc' # "release",
           UNCHANGED <<logger, clientOwned>>
    PROVE  TypeInv'
BY ClientFrame, SharedFrame DEF TypeInv

\* Moves of a program counter and nothing else.
LEMMA JumpTypes ==
    ASSUME TypeInv, NEW t \in Clients, NEW from, NEW to \in ClientPcs,
           Jump(t, from, to), FitsAt(item[t], to)
    PROVE  TypeInv'
<1>1. ClientTypes'
  BY DEF TypeInv, ClientTypes, Jump, Go, totals, locals, history
<1> QED
  BY <1>1, ClientOnly DEF Jump, totals

LEMMA WJumpTypes ==
    ASSUME TypeInv, NEW from, NEW to \in WorkerPcs \ ItemPcs, WJump(from, to)
    PROVE  TypeInv'
<1>1. WorkerTypes' /\ wpc' # "release"
  BY DEF TypeInv, WorkerTypes, WJump, WGo, outcome, sink, working, ItemPcs
<1>2. FlagTypes'
  BY DEF TypeInv, FlagTypes, WJump, logger, gate, clientOwned, totals, outcome, working
<1> QED
  BY <1>1, <1>2, WorkerOnly DEF WJump

(***************************************************************************)

\* What is reserved under the name of a log is one.
LEMMA ReservedAreLogs == SharedTypes => ReservedLogs \subseteq Logs
<1> SUFFICES ASSUME SharedTypes, NEW l \in ReservedLogs PROVE l \in Logs
  OBVIOUS
<1>1. PICK j \in 1 .. Len(queue) : queue[j].val.kind = "Log" /\ l = queue[j].val
  BY DEF ReservedLogs
<1>2. queue[j] \in SlotType
  BY DEF SharedTypes
<1>3. queue[j].val \in Items
  BY <1>2 DEF SlotType
<1> QED
  BY <1>1, <1>3 DEF Items, Logs

\* The types hold initially,
LEMMA TypeInit == Init => TypeInv
<1> SUFFICES ASSUME Init PROVE TypeInv
  OBVIOUS
<1> USE DEF Init
<1>1. ClientTypes
  BY DEF ClientTypes, FitsAt, ClientPcs, Operating, LogPcs, PublishPcs, FlushItemPcs
<1>2. SharedTypes
  BY LoggerAssumption, EmptySeq DEF SharedTypes
<1>3. WorkerTypes
  BY EmptySeq DEF WorkerTypes, WorkerPcs, ItemPcs
<1>4. FlagTypes
  BY DEF FlagTypes
<1> QED
  BY <1>1, <1>2, <1>3, <1>4 DEF TypeInv

\* and every action preserves them.
LEMMA TypeNext == TypeInv /\ [Next]_vars => TypeInv'
<1> SUFFICES ASSUME TypeInv, [Next]_vars PROVE TypeInv'
  OBVIOUS
<1> USE DEF TypeInv, ClientPcs, Operating, LogPcs, PublishPcs, FlushPcs, StopPcs,
            FlushItemPcs
<1>1. ASSUME NEW t \in Clients, CallRefused(t) PROVE TypeInv'
  <2>1. ClientTypes'
    BY <1>1 DEF CallRefused, Go, ClientTypes, FitsAt, totals, locals, history
  <2> QED
    BY <2>1, <1>1, ClientOnly DEF CallRefused, totals
<1>2. ASSUME NEW t \in Clients, StartLog(t) PROVE TypeInv'
  <2>1. ClientTypes'
    BY <1>2, LoggerAssumption
       DEF StartLog, Go, ClientTypes, FitsAt, totals, locals, history, LogItem, Logs,
           Items
  <2>2. SharedTypes'
    BY <1>2 DEF StartLog, SharedTypes, logger, gate, options, workerOwned, Enter
  <2>3. WorkerTypes'
    BY <1>2, WorkerFrame DEF StartLog
  <2>4. FlagTypes'
    BY <1>2
       DEF StartLog, FlagTypes, logger, gate, clientOwned, totals, workerOwned, outcome,
           working, Enter
  <2> QED
    BY <2>1, <2>2, <2>3, <2>4
<1>3. ASSUME NEW t \in Clients, LogCheckFailed(t) PROVE TypeInv'
  BY <1>3, JumpTypes DEF LogCheckFailed, Jump, Go, ClientTypes, FitsAt
<1>4. ASSUME NEW t \in Clients, LogCheckLevel(t) PROVE TypeInv'
  BY <1>4, JumpTypes DEF LogCheckLevel, Jump, Go, ClientTypes, FitsAt
<1>5. ASSUME NEW t \in Clients, PublishCount(t) PROVE TypeInv'
  <2>1. ClientTypes'
    BY <1>5
       DEF PublishCount, Logs, Items, Go, ClientTypes, FitsAt, totals, locals, history
  <2> QED
    BY <2>1, <1>5, ClientOnly DEF PublishCount, totals
<1>6. ASSUME NEW t \in Clients, PublishCheckFailed(t) PROVE TypeInv'
  BY <1>6, JumpTypes
     DEF PublishCheckFailed, isLog, Logs, Items, Jump, Go, ClientTypes, FitsAt
<1>7. ASSUME NEW t \in Clients, PublishReserve(t) PROVE TypeInv'
  <2>1. ClientTypes'
    BY <1>7 DEF PublishReserve, Go, ClientTypes, FitsAt, totals, locals, history
  <2>2. item[t] \in Items
    BY <1>7 DEF PublishReserve, Go, ClientTypes, FitsAt
  <2>3. queue' \in Seq(SlotType) /\ Len(queue') = Len(queue) + 1
    BY <2>2, <1>7, ReserveProperties DEF PublishReserve, SharedTypes
  <2>4. SharedTypes'
    <3>1. Len(queue') <= Capacity
      BY <2>3, <1>7, LoggerAssumption DEF PublishReserve, SharedTypes, HasRoom
    <3>2. queue # <<>> => queue' # <<>>
      BY <2>3, EmptySeq DEF SharedTypes
    <3> QED
      BY <2>3, <3>1, <3>2, <1>7
         DEF PublishReserve, SharedTypes, gate, options, workerOwned
  <2>5. WorkerTypes'
    BY <1>7, WorkerFrame DEF PublishReserve
  <2>6. FlagTypes'
    BY <1>7 DEF PublishReserve, FlagTypes, gate, totals, workerOwned, outcome, working
  <2> QED
    BY <2>1, <2>4, <2>5, <2>6
<1>8. ASSUME NEW t \in Clients, PublishFull(t) PROVE TypeInv'
  BY <1>8, JumpTypes
     DEF PublishFull, MayBlock, isLog, Logs, Items, Jump, Go, ClientTypes, FitsAt
<1>9. ASSUME NEW t \in Clients, PublishSlot(t) PROVE TypeInv'
  <2>1. ClientTypes'
    BY <1>9
       DEF PublishSlot, Go, ClientTypes, FitsAt, totals, locals, history, isLog, Logs,
           Items
  <2>2. item[t] \in Items
    BY <1>9 DEF PublishSlot, Go, ClientTypes, FitsAt
  <2>3. queue' \in Seq(SlotType) /\ Len(queue') = Len(queue)
    BY <2>2, <1>9, PublishProperties DEF PublishSlot, SharedTypes
  <2>4. SharedTypes'
    <3>1. Len(queue') <= Capacity
      BY <2>3, <1>9 DEF PublishSlot, SharedTypes, HasRoom
    <3>2. queue # <<>> => queue' # <<>>
      BY <2>3, EmptySeq DEF SharedTypes
    <3> QED
      BY <2>3, <3>1, <3>2, <1>9 DEF PublishSlot, SharedTypes, gate, options, workerOwned
  <2>5. WorkerTypes'
    BY <1>9, WorkerFrame DEF PublishSlot
  <2>6. FlagTypes'
    BY <1>9 DEF PublishSlot, FlagTypes, gate, totals, workerOwned, outcome, working
  <2> QED
    BY <2>1, <2>4, <2>5, <2>6
<1>10. ASSUME NEW t \in Clients, PublishUncount(t) PROVE TypeInv'
  <2>1. ClientTypes'
    BY <1>10 DEF PublishUncount, Go, ClientTypes, FitsAt, totals, locals, history
  <2> QED
    BY <2>1, <1>10, ClientOnly DEF PublishUncount, totals
<1>11. ASSUME NEW t \in Clients, PublishDrop(t) PROVE TypeInv'
  <2>1. ClientTypes'
    BY <1>11 DEF PublishDrop, Go, ClientTypes, FitsAt, totals, locals, history
  <2> QED
    BY <2>1, <1>11, ClientOnly DEF PublishDrop, totals
<1>12. ASSUME NEW t \in Clients, NotifySignal(t) PROVE TypeInv'
  <2>1. ClientTypes'
    BY <1>12 DEF NotifySignal, Go, ClientTypes, FitsAt, totals, locals, history
  <2>2. SharedTypes'
    BY <1>12 DEF NotifySignal, SharedTypes, logger, gate, options, workerOwned
  <2>3. WorkerTypes'
    BY <1>12, WorkerFrame DEF NotifySignal
  <2>4. FlagTypes'
    BY <1>12
       DEF NotifySignal, FlagTypes, logger, gate, clientOwned, totals, workerOwned,
           outcome, working, gate
  <2> QED
    BY <2>1, <2>2, <2>3, <2>4
<1>13. ASSUME NEW t \in Clients, NotifyOne(t) PROVE TypeInv'
  <2>1. ClientTypes'
    BY <1>13
       DEF NotifyOne, Go, ClientTypes, FitsAt, totals, locals, history, isLog, Logs,
           Items
  <2>2. SharedTypes'
    BY <1>13 DEF NotifyOne, SharedTypes, logger, gate, options, workerOwned, WakeBlocked
  <2>3. WorkerTypes'
    BY <1>13
       DEF NotifyOne, WorkerTypes, outcome, sink, working, WakeBlocked, WorkerPcs,
           WaitPcs, ItemPcs
  <2>4. FlagTypes'
    BY <1>13
       DEF NotifyOne, FlagTypes, logger, gate, clientOwned, totals, workerOwned,
           outcome, working
  <2> QED
    BY <2>1, <2>2, <2>3, <2>4
<1>14. ASSUME NEW t \in Clients, FinishOperation(t) PROVE TypeInv'
  <2>1. ClientTypes'
    BY <1>14 DEF FinishOperation, Go, ClientTypes, FitsAt, totals, locals, history
  <2>2. SharedTypes'
    BY <1>14 DEF FinishOperation, SharedTypes, logger, gate, options, workerOwned, Leave
  <2>3. WorkerTypes'
    BY <1>14, WorkerFrame DEF FinishOperation
  <2>4. FlagTypes'
    BY <1>14
       DEF FinishOperation, FlagTypes, logger, gate, clientOwned, totals, workerOwned,
           outcome, working, Leave
  <2> QED
    BY <2>1, <2>2, <2>3, <2>4
<1>15. ASSUME NEW t \in Clients, StartFlush(t) PROVE TypeInv'
  <2>1. ClientTypes'
    BY <1>15 DEF StartFlush, Go, ClientTypes, FitsAt, totals, locals, history
  <2>2. SharedTypes'
    BY <1>15 DEF StartFlush, SharedTypes, logger, gate, options, workerOwned, Enter
  <2>3. WorkerTypes'
    BY <1>15, WorkerFrame DEF StartFlush
  <2>4. FlagTypes'
    BY <1>15
       DEF StartFlush, FlagTypes, logger, gate, clientOwned, totals, workerOwned,
           outcome, working, Enter
  <2> QED
    BY <2>1, <2>2, <2>3, <2>4
<1>16. ASSUME NEW t \in Clients, FlushCheckJoinable(t) PROVE TypeInv'
  BY <1>16, JumpTypes DEF FlushCheckJoinable, Jump, Go, ClientTypes, FitsAt
<1>17. ASSUME NEW t \in Clients, FlushCheckFailed(t) PROVE TypeInv'
  BY <1>17, JumpTypes DEF FlushCheckFailed, Jump, Go, ClientTypes, FitsAt
<1>18. ASSUME NEW t \in Clients, FlushTicket(t) PROVE TypeInv'
  <2>1. ClientTypes'
    BY <1>18, ReservedAreLogs
       DEF FlushTicket, FlushItem, Items, Off, Go, ClientTypes, FitsAt, totals, locals,
           history
  <2> QED
    BY <2>1, <1>18, ClientOnly DEF FlushTicket, totals
<1>19. ASSUME NEW t \in Clients, FlushLoad(t) PROVE TypeInv'
  <2>1. ClientTypes'
    BY <1>19
       DEF FlushLoad, WorkerTypes, Go, ClientTypes, FitsAt, totals, locals, history
  <2> QED
    BY <2>1, <1>19, ClientOnly DEF FlushLoad, totals
<1>20. ASSUME NEW t \in Clients, FlushCheckWorker(t) PROVE TypeInv'
  BY <1>20, JumpTypes DEF FlushCheckWorker, Jump, Go, ClientTypes, FitsAt
<1>21. ASSUME NEW t \in Clients, FlushWait(t) PROVE TypeInv'
  BY <1>21, JumpTypes DEF FlushWait, Jump, Go, ClientTypes, FitsAt
<1>22. ASSUME NEW t \in Clients, FlushResult(t) PROVE TypeInv'
  <2>1. ClientTypes'
    BY <1>22 DEF FlushResult, Go, ClientTypes, FitsAt, totals, locals, history
  <2> QED
    BY <2>1, <1>22, ClientOnly DEF FlushResult, totals
<1>23. ASSUME NEW t \in Clients, StartStop(t) PROVE TypeInv'
  <2>1. ClientTypes'
    BY <1>23 DEF StartStop, Go, ClientTypes, FitsAt, totals, locals, history
  <2>2. SharedTypes'
    BY <1>23 DEF StartStop, SharedTypes, logger, gate, options, workerOwned, CloseGate
  <2>3. WorkerTypes'
    BY <1>23, WorkerFrame DEF StartStop
  <2>4. FlagTypes'
    BY <1>23
       DEF StartStop, FlagTypes, logger, gate, clientOwned, totals, workerOwned,
           outcome, working, CloseGate
  <2> QED
    BY <2>1, <2>2, <2>3, <2>4
<1>24. ASSUME NEW t \in Clients, StopCheckJoinable(t) PROVE TypeInv'
  BY <1>24, JumpTypes DEF StopCheckJoinable, Jump, Go, ClientTypes, FitsAt
<1>25. ASSUME NEW t \in Clients, StopJoin(t) PROVE TypeInv'
  <2>1. ClientTypes'
    BY <1>25 DEF StopJoin, Go, ClientTypes, FitsAt, totals, locals, history
  <2>2. SharedTypes'
    BY <1>25 DEF StopJoin, SharedTypes, logger, gate, options, workerOwned
  <2>3. WorkerTypes'
    BY <1>25, WorkerFrame DEF StopJoin
  <2>4. FlagTypes'
    BY <1>25
       DEF StopJoin, FlagTypes, logger, gate, clientOwned, totals, workerOwned, outcome,
           working
  <2> QED
    BY <2>1, <2>2, <2>3, <2>4
<1>26. ASSUME SetLevel PROVE TypeInv'
  <2>1. ClientTypes'
    BY <1>26, ClientFrame DEF SetLevel
  <2>2. SharedTypes'
    BY <1>26 DEF SetLevel, SharedTypes, logger, gate, options, workerOwned, WGo
  <2>3. WorkerTypes'
    BY <1>26
       DEF SetLevel, WGo, WorkerTypes, outcome, sink, working, WorkerPcs, ItemPcs,
           workerOwned
  <2>4. FlagTypes'
    BY <1>26
       DEF SetLevel, FlagTypes, logger, gate, clientOwned, totals, workerOwned, outcome,
           working
  <2> QED
    BY <2>1, <2>2, <2>3, <2>4
<1>27. ASSUME SetFlushLevel PROVE TypeInv'
  <2>1. ClientTypes'
    BY <1>27, ClientFrame DEF SetFlushLevel
  <2>2. SharedTypes'
    BY <1>27 DEF SetFlushLevel, SharedTypes, logger, gate, options, workerOwned, WGo
  <2>3. WorkerTypes'
    BY <1>27
       DEF SetFlushLevel, WGo, WorkerTypes, outcome, sink, working, WorkerPcs, ItemPcs,
           workerOwned
  <2>4. FlagTypes'
    BY <1>27
       DEF SetFlushLevel, FlagTypes, logger, gate, clientOwned, totals, workerOwned,
           outcome, working
  <2> QED
    BY <2>1, <2>2, <2>3, <2>4
<1>28. ASSUME TakeItem PROVE TypeInv'
  <2>1. ClientTypes'
    BY <1>28, ClientFrame DEF TakeItem
  <2>2. SharedTypes'
    BY <1>28, TakeProperties, EmptySeq
       DEF TakeItem, SharedTypes, logger, gate, options, workerOwned, WGo
  <2>3. WorkerTypes'
    BY <1>28, TakeProperties
       DEF TakeItem, WGo, WorkerTypes, outcome, sink, working, WorkerPcs, ItemPcs,
           SharedTypes, SlotType
  <2>4. FlagTypes'
    BY <1>28
       DEF TakeItem, FlagTypes, logger, gate, clientOwned, totals, workerOwned, outcome,
           working, WGo, HeadReady
  <2> QED
    BY <2>1, <2>2, <2>3, <2>4
<1>29. ASSUME ReleaseSlot PROVE TypeInv'
  <2>1. queue' \in Seq(SlotType) /\ Len(queue') <= Capacity
    BY <1>29, ReleaseProperties, LoggerAssumption DEF ReleaseSlot, WGo, SharedTypes
  <2>2. SharedTypes'
    BY <2>1, <1>29 DEF ReleaseSlot, WGo, SharedTypes, gate, options
  <2>3. WorkerTypes'
    BY <1>29
       DEF ReleaseSlot, WGo, WorkerTypes, outcome, sink, working, WorkerPcs, ItemPcs
  <2>4. FlagTypes'
    BY <1>29 DEF ReleaseSlot, FlagTypes, gate, clientOwned, totals, outcome, working
  <2> QED
    BY <2>2, <2>3, <2>4, <1>29, ClientFrame DEF ReleaseSlot
<1>30. ASSUME HandleLog PROVE TypeInv'
  <2>1. wItem \in Logs
    BY <1>30 DEF HandleLog, WGo, WorkerTypes, ItemPcs, Logs, Items
  <2>2. sinkOut' \in Seq(Logs) /\ Len(sinkOut') = Len(sinkOut) + 1
    BY <2>1, <1>30 DEF HandleLog, WorkerTypes
  <2>3. wpc' \in {"drain", "recheckFlush"}
    BY <1>30 DEF HandleLog, WGo, AfterItem
  <2>4. WorkerTypes'
    BY <2>2, <2>3, <1>30 DEF HandleLog, WorkerTypes, WorkerPcs, ItemPcs
  <2>5. FlagTypes'
    <3>1. flushRequired' \in BOOLEAN /\ madeProgress' \in BOOLEAN
      BY <1>30 DEF HandleLog, EndOfIteration, ShouldLog, FlagTypes
    <3> QED
      BY <3>1, <1>30 DEF HandleLog, FlagTypes, logger, gate, clientOwned, totals
  <2> QED
    BY <2>3, <2>4, <2>5, <1>30, WorkerOnly DEF HandleLog
<1>31. ASSUME HandleFlush PROVE TypeInv'
  <2>1. WorkerTypes' /\ wpc' # "release"
    BY <1>31
       DEF HandleFlush, SinkFlush, Items, WGo, WorkerTypes, outcome, sink, working,
           WorkerPcs, ItemPcs
  <2>2. FlagTypes'
    BY <1>31
       DEF HandleFlush, FlagTypes, logger, gate, clientOwned, totals, outcome, working
  <2> QED
    BY <2>1, <2>2, <1>31, WorkerOnly DEF HandleFlush
<1>32. ASSUME NotifyFlushers PROVE TypeInv'
  <2>1. ClientTypes'
    BY <1>32
       DEF NotifyFlushers, ClientTypes, FitsAt, totals, locals, history, WakeFlushers
  <2>2. SharedTypes'
    BY <1>32 DEF NotifyFlushers, SharedTypes, logger, gate, options, workerOwned, WGo
  <2>3. WorkerTypes'
    BY <1>32
       DEF NotifyFlushers, WGo, WorkerTypes, outcome, sink, working, WorkerPcs, ItemPcs
  <2>4. FlagTypes'
    BY <1>32
       DEF NotifyFlushers, FlagTypes, logger, gate, clientOwned, totals, workerOwned,
           outcome, working, EndOfIteration
  <2> QED
    BY <2>1, <2>2, <2>3, <2>4
<1>33. ASSUME RecheckFlush PROVE TypeInv'
  <2>1. WorkerTypes' /\ wpc' # "release"
    BY <1>33
       DEF RecheckFlush, SinkFlush, WGo, WorkerTypes, outcome, sink, working, WorkerPcs,
           ItemPcs
  <2>2. FlagTypes'
    BY <1>33
       DEF RecheckFlush, FlagTypes, logger, gate, clientOwned, totals, outcome, working
  <2> QED
    BY <2>1, <2>2, <1>33, WorkerOnly DEF RecheckFlush
<1>34. ASSUME DrainEnds PROVE TypeInv'
  BY <1>34, WJumpTypes DEF DrainEnds, WorkerPcs, WaitPcs, FailPcs, ItemPcs
<1>35. ASSUME LevelFlush PROVE TypeInv'
  <2>1. WorkerTypes' /\ wpc' # "release"
    BY <1>35
       DEF LevelFlush, SinkFlush, WGo, WorkerTypes, outcome, sink, working, WorkerPcs,
           ItemPcs
  <2>2. FlagTypes'
    BY <1>35
       DEF LevelFlush, FlagTypes, logger, gate, clientOwned, totals, outcome, working
  <2> QED
    BY <2>1, <2>2, <1>35, WorkerOnly DEF LevelFlush
<1>36. ASSUME AutoFlushDue PROVE TypeInv'
  <2>1. WorkerTypes' /\ wpc' # "release"
    BY <1>36
       DEF AutoFlushDue, SinkFlush, WGo, WorkerTypes, outcome, sink, working, WorkerPcs,
           ItemPcs
  <2>2. FlagTypes'
    BY <1>36
       DEF AutoFlushDue, FlagTypes, logger, gate, clientOwned, totals, outcome, working
  <2> QED
    BY <2>1, <2>2, <1>36, WorkerOnly DEF AutoFlushDue
<1>37. ASSUME AutoFlushNotDue PROVE TypeInv'
  BY <1>37, WJumpTypes DEF AutoFlushNotDue, WorkerPcs, WaitPcs, FailPcs, ItemPcs
<1>38. ASSUME CheckStop PROVE TypeInv'
  <2>1. WorkerTypes' /\ wpc' # "release"
    BY <1>38
       DEF CheckStop, EndOfIteration, WGo, WorkerTypes, outcome, sink, working,
           WorkerPcs, ItemPcs
  <2>2. FlagTypes'
    BY <1>38
       DEF CheckStop, EndOfIteration, FlagTypes, logger, gate, clientOwned, totals,
           outcome, working
  <2> QED
    BY <2>1, <2>2, <1>38, WorkerOnly DEF CheckStop
<1>39. ASSUME FinalFlush PROVE TypeInv'
  <2>1. WorkerTypes' /\ wpc' # "release"
    BY <1>39
       DEF FinalFlush, SinkFlush, WGo, WorkerTypes, outcome, sink, working, WorkerPcs,
           ItemPcs
  <2>2. FlagTypes'
    BY <1>39
       DEF FinalFlush, FlagTypes, logger, gate, clientOwned, totals, outcome, working
  <2> QED
    BY <2>1, <2>2, <1>39, WorkerOnly DEF FinalFlush
<1>40. ASSUME LoadSignal PROVE TypeInv'
  <2>1. ClientTypes'
    BY <1>40, ClientFrame DEF LoadSignal
  <2>2. SharedTypes'
    BY <1>40 DEF LoadSignal, SharedTypes, logger, gate, options, workerOwned, WGo
  <2>3. WorkerTypes'
    BY <1>40
       DEF LoadSignal, WGo, WorkerTypes, outcome, sink, working, WorkerPcs, ItemPcs
  <2>4. FlagTypes'
    BY <1>40
       DEF LoadSignal, FlagTypes, logger, gate, clientOwned, totals, workerOwned,
           outcome, working
  <2> QED
    BY <2>1, <2>2, <2>3, <2>4
<1>41. ASSUME RecheckEmpty PROVE TypeInv'
  BY <1>41, WJumpTypes DEF RecheckEmpty, WorkerPcs, WaitPcs, FailPcs, ItemPcs
<1>42. ASSUME EvaluateWake PROVE TypeInv'
  BY <1>42, WJumpTypes DEF EvaluateWake, WorkerPcs, WaitPcs, FailPcs, ItemPcs
<1>43. ASSUME Sleep PROVE TypeInv'
  BY <1>43, WJumpTypes DEF Sleep, WorkerPcs, WaitPcs, FailPcs, ItemPcs
<1>44. ASSUME WaitTimesOut PROVE TypeInv'
  BY <1>44, WJumpTypes DEF WaitTimesOut, WorkerPcs, WaitPcs, FailPcs, ItemPcs
<1>45. ASSUME FailRecord PROVE TypeInv'
  <2>1. WorkerTypes' /\ wpc' # "release"
    BY <1>45
       DEF FailRecord, FailPcs, WGo, WorkerTypes, outcome, sink, working, WorkerPcs,
           ItemPcs
  <2>2. FlagTypes'
    BY <1>45
       DEF FailRecord, FlagTypes, logger, gate, clientOwned, totals, outcome, working
  <2> QED
    BY <2>1, <2>2, <1>45, WorkerOnly DEF FailRecord
<1>46. ASSUME FailCloseGate PROVE TypeInv'
  <2>1. ClientTypes'
    BY <1>46, ClientFrame DEF FailCloseGate
  <2>2. SharedTypes'
    BY <1>46
       DEF FailCloseGate, SharedTypes, logger, gate, options, workerOwned, CloseGate,
           WGo
  <2>3. WorkerTypes'
    BY <1>46
       DEF FailCloseGate, WGo, WorkerTypes, outcome, sink, working, WorkerPcs, ItemPcs,
           FailPcs
  <2>4. FlagTypes'
    BY <1>46
       DEF FailCloseGate, FlagTypes, logger, gate, clientOwned, totals, workerOwned,
           outcome, working, CloseGate
  <2> QED
    BY <2>1, <2>2, <2>3, <2>4
<1>47. ASSUME FailSetFlag PROVE TypeInv'
  <2>1. WorkerTypes' /\ wpc' # "release"
    BY <1>47
       DEF FailSetFlag, FailPcs, WGo, WorkerTypes, outcome, sink, working, WorkerPcs,
           ItemPcs
  <2>2. FlagTypes'
    BY <1>47
       DEF FailSetFlag, FlagTypes, logger, gate, clientOwned, totals, outcome, working
  <2> QED
    BY <2>1, <2>2, <1>47, WorkerOnly DEF FailSetFlag
<1>48. ASSUME FailLoadTicket PROVE TypeInv'
  <2>1. WorkerTypes' /\ wpc' # "release"
    BY <1>48
       DEF FailLoadTicket, WGo, ClientTypes, WorkerTypes, outcome, sink, WorkerPcs,
           FailPcs, ItemPcs
  <2>2. FlagTypes'
    BY <1>48 DEF FailLoadTicket, FlagTypes, logger, gate, clientOwned, totals, outcome
  <2> QED
    BY <2>1, <2>2, <1>48, WorkerOnly DEF FailLoadTicket
<1>49. ASSUME FailStoreTicket PROVE TypeInv'
  <2>1. WorkerTypes' /\ wpc' # "release"
    BY <1>49
       DEF FailStoreTicket, FailPcs, WGo, WorkerTypes, outcome, sink, working,
           WorkerPcs, ItemPcs
  <2>2. FlagTypes'
    BY <1>49
       DEF FailStoreTicket, FlagTypes, logger, gate, clientOwned, totals, outcome,
           working
  <2> QED
    BY <2>1, <2>2, <1>49, WorkerOnly DEF FailStoreTicket
<1>50. ASSUME FailNotify PROVE TypeInv'
  <2>1. ClientTypes'
    BY <1>50 DEF FailNotify, ClientTypes, FitsAt, totals, locals, history, WakeFlushers
  <2>2. SharedTypes'
    BY <1>50 DEF FailNotify, SharedTypes, logger, gate, options, workerOwned, WGo
  <2>3. WorkerTypes'
    BY <1>50
       DEF FailNotify, WGo, WorkerTypes, outcome, sink, working, WorkerPcs, ItemPcs
  <2>4. FlagTypes'
    BY <1>50
       DEF FailNotify, FlagTypes, logger, gate, clientOwned, totals, workerOwned,
           outcome, working
  <2> QED
    BY <2>1, <2>2, <2>3, <2>4
<1>51. ASSUME SinkThrows PROVE TypeInv'
  <2>1. WorkerTypes' /\ wpc' # "release"
    BY <1>51
       DEF SinkThrows, FailPcs, WGo, WorkerTypes, outcome, sink, working, WorkerPcs,
           ItemPcs
  <2>2. FlagTypes'
    BY <1>51
       DEF SinkThrows, HasDeadline, FlagTypes, logger, gate, clientOwned, totals,
           outcome, working
  <2> QED
    BY <2>1, <2>2, <1>51, WorkerOnly DEF SinkThrows
<1>52. ASSUME SpuriousWakeup PROVE TypeInv'
  BY <1>52, WJumpTypes DEF SpuriousWakeup, WorkerPcs, WaitPcs, FailPcs, ItemPcs
<1>53. CASE UNCHANGED vars
  <2>1. FlagTypes'
    BY <1>53
       DEF vars, FlagTypes, logger, gate, clientOwned, totals, workerOwned, outcome,
           working
  <2> QED
    BY <2>1, <1>53, ClientFrame, WorkerFrame
       DEF vars, SharedTypes, logger, gate, options, workerOwned
<1> QED
  BY <1>1, <1>2, <1>3, <1>4, <1>5, <1>6, <1>7, <1>8, <1>9, <1>10, <1>11, <1>12, <1>13,
     <1>14, <1>15, <1>16, <1>17, <1>18, <1>19, <1>20, <1>21, <1>22, <1>23, <1>24,
     <1>25, <1>26, <1>27, <1>28, <1>29, <1>30, <1>31, <1>32, <1>33, <1>34, <1>35,
     <1>36, <1>37, <1>38, <1>39, <1>40, <1>41, <1>42, <1>43, <1>44, <1>45, <1>46,
     <1>47, <1>48, <1>49, <1>50, <1>51, <1>52, <1>53
     DEF Next, Call, ClientStep, WorkerStep

\* Every reachable state is well typed, but for the sign of the two counters.
THEOREM TypeInvariant == Spec => []TypeInv
BY TypeInit, TypeNext, PTL DEF Spec

(***************************************************************************)
(* The gate.  Its count is the number of clients inside an operation.      *)
(***************************************************************************)

OperatingClients == { t \in Clients : pc[t] \in Operating }

GateInv == active = Cardinality(OperatingClients)

\* There are finitely many clients inside.
LEMMA OperatingClientsFinite == IsFiniteSet(OperatingClients)
BY LoggerAssumption, FS_Subset DEF OperatingClients

\* How a move of one client changes the set of those inside an operation.
LEMMA MoveWithin ==
    ASSUME ClientTypes, NEW t \in Clients, NEW from, NEW to, Go(t, from, to),
           from \in Operating <=> to \in Operating
    PROVE  OperatingClients' = OperatingClients
BY DEF ClientTypes, Go, OperatingClients

LEMMA MoveIn ==
    ASSUME ClientTypes, NEW t \in Clients, NEW from, NEW to, Go(t, from, to),
           from \notin Operating, to \in Operating
    PROVE  t \notin OperatingClients /\ OperatingClients' = OperatingClients \cup {t}
BY DEF ClientTypes, Go, OperatingClients

LEMMA MoveOut ==
    ASSUME ClientTypes, NEW t \in Clients, NEW from, NEW to, Go(t, from, to),
           from \in Operating, to \notin Operating
    PROVE  t \in OperatingClients /\ OperatingClients' = OperatingClients \ {t}
BY DEF ClientTypes, Go, OperatingClients

\* The three things a step can do to the gate.
Entering(t) == /\ ~ closed /\ ~ closed' /\ active' = active + 1
               /\ t \notin OperatingClients
               /\ OperatingClients' = OperatingClients \cup {t}
Leaving(t)  == /\ closed' = closed /\ active' = active - 1
               /\ t \in OperatingClients
               /\ OperatingClients' = OperatingClients \ {t}
Staying     == /\ closed => closed'
               /\ active' = active
               /\ OperatingClients' = OperatingClients

\* Every step leaves the gate alone, or lets one client in, or one out: the
\* compare-and-swap loops of TryStartOperation, FinishOperation and RequestStop are the
\* only writers of operation_state_.
LEMMA GateStep ==
    ASSUME TypeInv, [Next]_vars
    PROVE  Staying \/ \E t \in Clients : Entering(t) \/ Leaving(t)
<1> USE DEF TypeInv
<1>1. ASSUME NEW t \in Clients, CallRefused(t) PROVE Staying
  BY <1>1 DEF CallRefused, Staying, logger, gate, OperatingClients
<1>2. ASSUME NEW t \in Clients, StartLog(t) PROVE Entering(t)
  BY <1>2, MoveIn DEF StartLog, Enter, Entering, Operating, LogPcs, PublishPcs, FlushPcs
<1>3. ASSUME NEW t \in Clients, StartFlush(t) PROVE Entering(t)
  BY <1>3, MoveIn
     DEF StartFlush, Enter, Entering, Operating, LogPcs, PublishPcs, FlushPcs
<1>4. ASSUME NEW t \in Clients, FinishOperation(t) PROVE Leaving(t)
  BY <1>4, MoveOut
     DEF FinishOperation, Leave, Leaving, Operating, LogPcs, PublishPcs, FlushPcs
<1>5. ASSUME NEW t \in Clients, StartStop(t) PROVE Staying
  BY <1>5, MoveWithin
     DEF StartStop, CloseGate, Staying, Operating, LogPcs, PublishPcs, FlushPcs
<1>6. ASSUME NEW t \in Clients,
             LogCheckFailed(t) \/ LogCheckLevel(t) \/ PublishCheckFailed(t)
             \/ PublishFull(t) \/ FlushCheckJoinable(t) \/ FlushCheckFailed(t)
             \/ FlushCheckWorker(t) \/ FlushWait(t) \/ StopCheckJoinable(t)
      PROVE  Staying
  <2>1. PICK from, to : Jump(t, from, to) /\ (from \in Operating <=> to \in Operating)
    BY <1>6
       DEF LogCheckFailed, LogCheckLevel, PublishCheckFailed, PublishFull,
           FlushCheckJoinable, FlushCheckFailed, FlushCheckWorker, FlushWait,
           StopCheckJoinable, Operating, LogPcs, PublishPcs, FlushPcs
  <2> QED
    BY <2>1, MoveWithin DEF Jump, Staying, logger, gate
<1>7. ASSUME NEW t \in Clients,
             PublishCount(t) \/ PublishReserve(t) \/ PublishSlot(t) \/ PublishUncount(t)
             \/ PublishDrop(t) \/ FlushTicket(t) \/ FlushLoad(t) \/ FlushResult(t)
             \/ NotifySignal(t) \/ NotifyOne(t) \/ StopJoin(t)
      PROVE  Staying
  <2>1. PICK from, to : Go(t, from, to) /\ (from \in Operating <=> to \in Operating)
    BY <1>7
       DEF PublishCount, PublishReserve, PublishSlot, PublishUncount, PublishDrop,
           FlushTicket, FlushLoad, FlushResult, NotifySignal, NotifyOne, StopJoin,
           Operating, LogPcs, PublishPcs, FlushPcs
  <2>2. UNCHANGED gate
    BY <1>7
       DEF PublishCount, PublishReserve, PublishSlot, PublishUncount, PublishDrop,
           FlushTicket, FlushLoad, FlushResult, NotifySignal, NotifyOne, StopJoin,
           logger
  <2> QED
    BY <2>1, <2>2, MoveWithin DEF Staying, gate
<1>8. ASSUME NotifyFlushers \/ FailNotify PROVE Staying
  <2>1. OperatingClients' = OperatingClients
    BY <1>8
       DEF NotifyFlushers, FailNotify, WakeFlushers, OperatingClients, ClientTypes,
           Operating, FlushPcs
  <2> QED
    BY <2>1, <1>8 DEF NotifyFlushers, FailNotify, Staying, logger, gate
<1>9. ASSUME FailCloseGate PROVE Staying
  BY <1>9 DEF FailCloseGate, CloseGate, Staying, OperatingClients, clientOwned
<1>10. ASSUME UNCHANGED <<gate, clientOwned>> PROVE Staying
  BY <1>10 DEF Staying, gate, OperatingClients, clientOwned
<1>11. ASSUME TakeItem \/ ReleaseSlot \/ HandleLog \/ HandleFlush \/ RecheckFlush \/ DrainEnds
              \/ LevelFlush \/ AutoFlushDue \/ AutoFlushNotDue \/ CheckStop
              \/ FinalFlush \/ LoadSignal \/ RecheckEmpty \/ EvaluateWake \/ Sleep
              \/ WaitTimesOut \/ FailRecord \/ FailSetFlag \/ FailLoadTicket
              \/ FailStoreTicket \/ SinkThrows \/ SpuriousWakeup \/ SetLevel
              \/ SetFlushLevel \/ UNCHANGED vars
       PROVE  UNCHANGED <<gate, clientOwned>>
  BY <1>11
     DEF TakeItem, ReleaseSlot, HandleLog, HandleFlush, RecheckFlush, DrainEnds,
         LevelFlush, AutoFlushDue, AutoFlushNotDue, CheckStop, FinalFlush, LoadSignal,
         RecheckEmpty, EvaluateWake, Sleep, WaitTimesOut, FailRecord, FailSetFlag,
         FailLoadTicket, FailStoreTicket, SinkThrows, SpuriousWakeup, SetLevel,
         SetFlushLevel, WJump, logger, vars
<1> QED
  BY <1>1, <1>2, <1>3, <1>4, <1>5, <1>6, <1>7, <1>8, <1>9, <1>10, <1>11
     DEF Next, Call, ClientStep, WorkerStep

\* The gate counts the operations under way after every step.
LEMMA GateNext == TypeInv /\ GateInv /\ [Next]_vars => GateInv'
<1> SUFFICES ASSUME TypeInv, GateInv, [Next]_vars PROVE GateInv'
  OBVIOUS
<1>1. CASE Staying
  BY <1>1 DEF Staying, GateInv
<1>2. ASSUME NEW t \in Clients, Entering(t) PROVE GateInv'
  BY <1>2, OperatingClientsFinite, FS_AddElement DEF Entering, GateInv
<1>3. ASSUME NEW t \in Clients, Leaving(t) PROVE GateInv'
  BY <1>3, OperatingClientsFinite, FS_RemoveElement DEF Leaving, GateInv
<1> QED
  BY <1>1, <1>2, <1>3, GateStep

(***************************************************************************)
(* Frames.                                                                 *)
(***************************************************************************)

\* A step of a client touches the worker only by waking it.
LEMMA ClientSide ==
    ASSUME TypeInv, NEW t \in Clients, Call(t) \/ ClientStep(t)
    PROVE  /\ UNCHANGED <<outcome, sink, working>>
           /\ wpc' = wpc \/ (wpc = "blocked" /\ wpc' = "evaluate")
           /\ closed => closed'
<1>1. (closed => closed')
  BY GateStep DEF Next, Staying, Entering, Leaving
<1>2. CASE NotifyOne(t)
  BY <1>1, <1>2 DEF NotifyOne, WakeBlocked
<1>3. CASE Call(t)
  BY <1>1, <1>3 DEF Call, CallRefused, StartLog, StartFlush, StartStop, workerOwned
<1>4. CASE ClientStep(t) /\ ~ NotifyOne(t)
  BY <1>1, <1>4
     DEF ClientStep, LogCheckFailed, LogCheckLevel, PublishCount, PublishCheckFailed,
     PublishReserve, PublishFull, PublishSlot, PublishUncount, PublishDrop, NotifySignal,
     FinishOperation, FlushCheckJoinable, FlushCheckFailed, FlushTicket, FlushLoad,
     FlushCheckWorker, FlushWait, FlushResult, StopCheckJoinable, StopJoin, Jump, workerOwned
<1> QED
  BY <1>2, <1>3, <1>4

(***************************************************************************)
(* A failing worker: what RecordWorkerFailure has done so far.             *)
(***************************************************************************)

FailingPcs == {"failLoad", "failStore", "failNotify"}

FlagInv ==
    /\ wpc \in {"failGate", "failFlag"} \cup FailingPcs => failureRecorded
    /\ wpc \in {"failFlag"} \cup FailingPcs => closed
    /\ workerFailed => closed /\ failureRecorded /\ wpc \in FailingPcs \cup {"exited"}
    /\ wpc \in FailingPcs => workerFailed

\* RecordWorkerFailure closes the gate and records the message before it sets the flag.
LEMMA FlagNext == TypeInv /\ FlagInv /\ [Next]_vars => FlagInv'
<1> SUFFICES ASSUME TypeInv, FlagInv, [Next]_vars PROVE FlagInv'
  OBVIOUS
<1> USE DEF FlagInv, FailingPcs
<1>1. ASSUME NEW t \in Clients, Call(t) \/ ClientStep(t) PROVE FlagInv'
  BY <1>1, ClientSide DEF outcome
<1>2. CASE WorkerStep
  <2>1. CASE FailRecord
    BY <2>1 DEF FailRecord, WGo, logger, gate
  <2>2. CASE FailCloseGate
    BY <2>2 DEF FailCloseGate, WGo, CloseGate, outcome
  <2>3. CASE FailSetFlag
    BY <2>3 DEF FailSetFlag, WGo, logger, gate
  <2>4. CASE FailLoadTicket
    BY <2>4 DEF FailLoadTicket, WGo, logger, gate, outcome
  <2>5. CASE FailStoreTicket
    BY <2>5 DEF FailStoreTicket, WGo, logger, gate
  <2>6. CASE FailNotify
    BY <2>6 DEF FailNotify, WGo, gate, outcome
  <2>7. CASE TakeItem \/ ReleaseSlot \/ NotifyFlushers \/ RecheckFlush \/ DrainEnds
             \/ LevelFlush \/ AutoFlushDue \/ AutoFlushNotDue \/ CheckStop \/ FinalFlush
             \/ LoadSignal \/ RecheckEmpty \/ EvaluateWake \/ Sleep \/ WaitTimesOut
    <3>1. UNCHANGED <<closed, workerFailed, failureRecorded>>
      BY <2>7
         DEF TakeItem, ReleaseSlot, NotifyFlushers, RecheckFlush, DrainEnds, LevelFlush,
             AutoFlushDue, AutoFlushNotDue, CheckStop, FinalFlush, LoadSignal,
             RecheckEmpty, EvaluateWake, Sleep, WaitTimesOut, WJump, logger, gate,
             outcome
    <3>2. wpc \notin FailPcs \cup {"exited"} /\ wpc' \notin FailPcs
      BY <2>7
         DEF TakeItem, ReleaseSlot, NotifyFlushers, RecheckFlush, DrainEnds, LevelFlush,
             AutoFlushDue, AutoFlushNotDue, CheckStop, FinalFlush, LoadSignal,
             RecheckEmpty, EvaluateWake, Sleep, WaitTimesOut, WJump, WGo, FailPcs
    <3> QED
      BY <3>1, <3>2 DEF FailPcs
  <2>8. CASE HandleLog
    BY <2>8 DEF HandleLog, AfterItem, WGo, logger, gate
  <2>9. CASE HandleFlush
    BY <2>9 DEF HandleFlush, WGo, logger, gate
  <2> QED
    BY <1>2, <2>1, <2>2, <2>3, <2>4, <2>5, <2>6, <2>7, <2>8, <2>9 DEF WorkerStep
<1>3. CASE SinkThrows
  BY <1>3 DEF SinkThrows, WGo, logger, gate, outcome
<1>4. CASE SpuriousWakeup
  BY <1>4 DEF SpuriousWakeup, WJump, WGo, logger, gate, outcome
<1>5. CASE SetLevel \/ SetFlushLevel \/ UNCHANGED vars
  BY <1>5 DEF SetLevel, SetFlushLevel, vars, logger, gate, workerOwned, outcome
<1> QED
  BY <1>1, <1>2, <1>3, <1>4, <1>5 DEF Next

(***************************************************************************)
(* The worker decides to exit only when the gate is closed and nobody is   *)
(* inside, and then nobody can enter.                                      *)
(***************************************************************************)

ExitInv == wpc = "finalFlush" \/ (wpc = "exited" /\ ~ workerFailed) => closed /\ active = 0

\* No operation begins once the worker is on its way out.
LEMMA ExitNext == TypeInv /\ GateInv /\ FlagInv /\ ExitInv /\ [Next]_vars => ExitInv'
<1> SUFFICES ASSUME TypeInv, GateInv, FlagInv, ExitInv, [Next]_vars PROVE ExitInv'
  OBVIOUS
<1> USE DEF ExitInv
<1>1. closed /\ active = 0 => closed' /\ active' = 0
  <2>1. active = 0 => OperatingClients = {}
    BY OperatingClientsFinite, FS_EmptySet DEF GateInv
  <2> QED
    BY <2>1, GateStep DEF Staying, Entering, Leaving
<1>2. ASSUME NEW t \in Clients, Call(t) \/ ClientStep(t) PROVE ExitInv'
  BY <1>1, <1>2, ClientSide DEF outcome
<1>3. CASE WorkerStep
  <2>1. CASE CheckStop
    BY <2>1, <1>1 DEF CheckStop, Drained, WGo, logger, gate
  <2>2. CASE FinalFlush
    BY <2>2, <1>1 DEF FinalFlush, WGo
  <2>3. CASE FailNotify
    BY <2>3 DEF FailNotify, WGo, FlagInv, FailingPcs, outcome
  <2>4. CASE WorkerStep /\ ~ CheckStop /\ ~ FinalFlush /\ ~ FailNotify
    <3>1. wpc' \notin {"finalFlush", "exited"}
      BY <2>4
         DEF WorkerStep, TakeItem, ReleaseSlot, NotifyFlushers, RecheckFlush, DrainEnds,
             LevelFlush, AutoFlushDue, AutoFlushNotDue, CheckStop, LoadSignal,
             RecheckEmpty, EvaluateWake, Sleep, WaitTimesOut, HandleLog, HandleFlush,
             AfterItem, FailRecord, FailCloseGate, FailSetFlag, FailLoadTicket,
             FailStoreTicket, WJump, WGo
    <3> QED
      BY <3>1
  <2> QED
    BY <1>3, <2>1, <2>2, <2>3, <2>4
<1>4. CASE SinkThrows \/ SpuriousWakeup
  BY <1>4 DEF SinkThrows, SpuriousWakeup, WJump, WGo
<1>5. CASE SetLevel \/ SetFlushLevel \/ UNCHANGED vars
  BY <1>5, <1>1 DEF SetLevel, SetFlushLevel, vars, workerOwned, outcome
<1> QED
  BY <1>2, <1>3, <1>4, <1>5 DEF Next

(***************************************************************************)
(* Items belong to the client that made them; a reserved slot belongs to   *)
(* the client about to publish it, a taken one to the worker.              *)
(***************************************************************************)

ItemOwnerInv == \A t \in Clients : item[t] # None => item[t].client = t

SlotInv ==
    \A i \in 1 .. Len(queue) :
        /\ queue[i].state = "reserved" =>
              /\ pc[queue[i].val.client] = "publishSlot"
              /\ item[queue[i].val.client] = queue[i].val
        /\ queue[i].state = "taken" => i = 1 /\ wpc = "release"

\* No step hands an item to another client.
LEMMA ItemOwnerNext == TypeInv /\ ItemOwnerInv /\ [Next]_vars => ItemOwnerInv'
<1> SUFFICES ASSUME TypeInv, ItemOwnerInv, [Next]_vars PROVE ItemOwnerInv'
  OBVIOUS
<1> USE DEF ItemOwnerInv
<1>1. ASSUME NEW t \in Clients, StartLog(t) PROVE ItemOwnerInv'
  BY <1>1 DEF StartLog, LogItem, TypeInv, ClientTypes
<1>2. ASSUME NEW t \in Clients, FlushTicket(t) PROVE ItemOwnerInv'
  BY <1>2 DEF FlushTicket, FlushItem, TypeInv, ClientTypes
<1>3. ASSUME NEW t \in Clients, FinishOperation(t) PROVE ItemOwnerInv'
  BY <1>3 DEF FinishOperation, TypeInv, ClientTypes
<1>4. ASSUME NEW t \in Clients, Call(t) \/ ClientStep(t),
             ~ StartLog(t), ~ FlushTicket(t), ~ FinishOperation(t)
      PROVE  item' = item
  BY <1>4 DEF Call, CallRefused, StartFlush, StartStop, ClientStep, LogCheckFailed,
     LogCheckLevel, PublishCount, PublishCheckFailed, PublishReserve, PublishFull,
     PublishSlot, PublishUncount, PublishDrop, NotifySignal, NotifyOne, FlushCheckJoinable,
     FlushCheckFailed, FlushLoad, FlushCheckWorker, FlushWait, FlushResult,
     StopCheckJoinable, StopJoin, Jump, locals
<1>5. CASE WorkerStep \/ SinkThrows \/ SpuriousWakeup \/ SetLevel \/ SetFlushLevel \/ UNCHANGED vars
  <2>1. item' = item
    BY <1>5
       DEF WorkerStep, TakeItem, ReleaseSlot, HandleLog, HandleFlush, NotifyFlushers,
       RecheckFlush, DrainEnds, LevelFlush, AutoFlushDue, AutoFlushNotDue, CheckStop,
       FinalFlush, LoadSignal, RecheckEmpty, EvaluateWake, Sleep, WaitTimesOut, FailRecord,
       FailCloseGate, FailSetFlag, FailLoadTicket, FailStoreTicket, FailNotify, SinkThrows,
       SpuriousWakeup, SetLevel, SetFlushLevel, WJump, vars, clientOwned, locals
  <2> QED
    BY <2>1
<1> QED
  BY <1>1, <1>2, <1>3, <1>4, <1>5 DEF Next

\* TryEnqueue publishes the slot it reserved, TryDequeue releases the one it took.
LEMMA SlotNext == TypeInv /\ ItemOwnerInv /\ SlotInv /\ [Next]_vars => SlotInv'
<1> SUFFICES ASSUME TypeInv, ItemOwnerInv, SlotInv, [Next]_vars PROVE SlotInv'
  OBVIOUS
<1> USE DEF TypeInv
<1>a. \A i \in 1 .. Len(queue) : queue[i].val \in Items /\ queue[i].val.client \in Clients
  <2>1. \A i \in 1 .. Len(queue) : queue[i] \in SlotType
    BY ElementOfSeq DEF SharedTypes
  <2> QED
    BY <2>1 DEF SlotType, Items
<1>1. ASSUME NEW t \in Clients, PublishReserve(t) PROVE SlotInv'
  <2>1. /\ item[t] \in Items /\ item[t].client = t
        /\ pc[t] = "tryEnqueue" /\ pc' = [pc EXCEPT ![t] = "publishSlot"]
        /\ Reserve(item[t]) /\ UNCHANGED <<item, wpc>>
    BY <1>1, NoneAssumption
       DEF PublishReserve, Go, ClientTypes, FitsAt, PublishPcs, ItemOwnerInv, locals,
           workerOwned
  <2>2. /\ Len(queue') = Len(queue) + 1 /\ Len(queue) \in Nat
        /\ \A i \in 1 .. Len(queue) : queue'[i] = queue[i]
        /\ queue'[Len(queue) + 1] = Slot(item[t], "reserved")
    BY <2>1, ReserveProperties DEF SharedTypes
  <2>3. ASSUME NEW i \in 1 .. Len(queue)
        PROVE  /\ queue'[i].state = "reserved" =>
                     /\ pc'[queue'[i].val.client] = "publishSlot"
                     /\ item'[queue'[i].val.client] = queue'[i].val
               /\ queue'[i].state = "taken" => i = 1 /\ wpc' = "release"
    <3>1. queue'[i] = queue[i]
      BY <2>2
    <3>2. queue[i].state = "reserved" => pc'[queue[i].val.client] = "publishSlot"
      BY <2>1, <1>a DEF SlotInv, ClientTypes
    <3> QED
      BY <2>1, <3>1, <3>2 DEF SlotInv
  <2>4. LET s == queue'[Len(queue) + 1]
        IN  s.state = "reserved" /\ pc'[s.val.client] = "publishSlot" /\ item'[s.val.client] = s.val
    BY <2>1, <2>2 DEF Slot, ClientTypes
  <2> QED
    BY <2>2, <2>3, <2>4 DEF SlotInv
<1>2. ASSUME NEW t \in Clients, PublishSlot(t) PROVE SlotInv'
  <2>1. /\ item[t] \in Items /\ item[t].client = t
        /\ pc[t] = "publishSlot" /\ pc' = [pc EXCEPT ![t] = "publishSignal"]
        /\ Publish(item[t]) /\ UNCHANGED <<item, wpc>>
    BY <1>2, NoneAssumption
       DEF PublishSlot, Go, ClientTypes, FitsAt, PublishPcs, ItemOwnerInv, locals,
           workerOwned
  <2>2. /\ Len(queue') = Len(queue)
        /\ \A i \in 1 .. Len(queue) :
              queue'[i] = IF queue[i].val = item[t] THEN Slot(item[t], "ready") ELSE queue[i]
    BY <2>1, PublishProperties DEF SharedTypes
  <2>3. ASSUME NEW i \in 1 .. Len(queue)
        PROVE  /\ queue'[i].state = "reserved" =>
                     /\ pc'[queue'[i].val.client] = "publishSlot"
                     /\ item'[queue'[i].val.client] = queue'[i].val
               /\ queue'[i].state = "taken" => i = 1 /\ wpc' = "release"
    <3>1. CASE queue[i].val = item[t]
      BY <2>2, <3>1 DEF Slot
    <3>2. CASE queue[i].val # item[t]
      <4>1. queue'[i] = queue[i]
        BY <2>2, <3>2
      <4>2. queue[i].state = "reserved" => queue[i].val.client # t
        BY <3>2 DEF SlotInv
      <4>3. queue[i].state = "reserved" => pc'[queue[i].val.client] = "publishSlot"
        BY <2>1, <4>2, <1>a DEF SlotInv, ClientTypes
      <4> QED
        BY <2>1, <4>1, <4>3 DEF SlotInv
    <3> QED
      BY <3>1, <3>2
  <2> QED
    BY <2>2, <2>3 DEF SlotInv
<1>3. CASE TakeItem
  <2>1. wpc' = "release" /\ UNCHANGED <<pc, item>> /\ HeadReady /\ Take
    BY <1>3 DEF TakeItem, WGo, clientOwned, locals
  <2>2. /\ Len(queue') = Len(queue) /\ Len(queue) > 0
        /\ queue'[1] = Slot(queue[1].val, "taken")
        /\ \A i \in 2 .. Len(queue) : queue'[i] = queue[i]
    BY <2>1, TakeProperties DEF SharedTypes
  <2>3. \A i \in 1 .. Len(queue) : queue'[i].state = "taken" => i = 1
    BY <2>2 DEF SlotInv
  <2>4. \A i \in 1 .. Len(queue) : queue'[i].state = "reserved" => queue'[i] = queue[i]
    BY <2>2 DEF Slot
  <2> QED
    BY <2>1, <2>2, <2>3, <2>4 DEF SlotInv
<1>4. CASE ReleaseSlot
  <2>1. wpc = "release" /\ UNCHANGED <<pc, item>> /\ Release
    BY <1>4 DEF ReleaseSlot, WGo, clientOwned, locals
  <2>2. /\ Len(queue') = Len(queue) - 1 /\ Len(queue) \in Nat
        /\ \A i \in 1 .. Len(queue') : queue'[i] = queue[i + 1]
    BY <2>1, ReleaseProperties DEF SharedTypes
  <2>3. \A i \in 1 .. Len(queue') : i + 1 \in 1 .. Len(queue) /\ i + 1 # 1
    BY <2>2
  <2> QED
    BY <2>1, <2>2, <2>3 DEF SlotInv
<1>5. ASSUME UNCHANGED queue, wpc = "release" => wpc' = "release",
             \A t \in Clients : pc[t] = "publishSlot" => pc'[t] = pc[t] /\ item'[t] = item[t]
      PROVE  SlotInv'
  BY <1>5, <1>a DEF SlotInv
<1>6. ASSUME NEW t \in Clients, Call(t) \/ ClientStep(t), ~ PublishReserve(t), ~ PublishSlot(t)
      PROVE  SlotInv'
  <2>1. UNCHANGED queue
    BY <1>6
       DEF Call, CallRefused, StartLog, StartFlush, StartStop, ClientStep,
           LogCheckFailed,
       LogCheckLevel, PublishCount, PublishCheckFailed, PublishFull,
       PublishUncount, PublishDrop, NotifySignal, NotifyOne, FinishOperation,
       FlushCheckJoinable, FlushCheckFailed, FlushTicket, FlushLoad, FlushCheckWorker,
       FlushWait, FlushResult, StopCheckJoinable, StopJoin, Jump, logger
  <2>2. pc[t] # "publishSlot" /\ \A u \in Clients \ {t} : pc'[u] = pc[u] /\ item'[u] = item[u]
    BY <1>6
       DEF Call, CallRefused, StartLog, StartFlush, StartStop, ClientStep,
           LogCheckFailed,
       LogCheckLevel, PublishCount, PublishCheckFailed, PublishFull,
       PublishUncount, PublishDrop, NotifySignal, NotifyOne, FinishOperation,
       FlushCheckJoinable, FlushCheckFailed, FlushTicket, FlushLoad, FlushCheckWorker,
       FlushWait, FlushResult, StopCheckJoinable, StopJoin, Jump, Go, locals, ClientTypes
  <2>3. wpc = "release" => wpc' = "release"
    BY <1>6, ClientSide
  <2> QED
    BY <1>5, <2>1, <2>2, <2>3
<1>7. CASE NotifyFlushers \/ FailNotify
  BY <1>5, <1>7
     DEF NotifyFlushers, FailNotify, WakeFlushers, WGo, ClientTypes, logger, locals
<1>8. CASE \/ HandleLog \/ HandleFlush \/ RecheckFlush \/ DrainEnds \/ LevelFlush
           \/ AutoFlushDue \/ AutoFlushNotDue \/ CheckStop \/ FinalFlush \/ LoadSignal
           \/ RecheckEmpty \/ EvaluateWake \/ Sleep \/ WaitTimesOut \/ FailRecord
           \/ FailCloseGate \/ FailSetFlag \/ FailLoadTicket \/ FailStoreTicket
           \/ SinkThrows \/ SpuriousWakeup \/ SetLevel \/ SetFlushLevel \/ UNCHANGED vars
  <2>1. UNCHANGED <<queue, pc, item>> /\ (wpc = "release" => wpc' = "release")
    BY <1>8
       DEF HandleLog, HandleFlush, RecheckFlush, DrainEnds, LevelFlush, AutoFlushDue,
       AutoFlushNotDue, CheckStop, FinalFlush, LoadSignal, RecheckEmpty, EvaluateWake, Sleep,
       WaitTimesOut, FailRecord, FailCloseGate, FailSetFlag, FailLoadTicket, FailStoreTicket,
       SinkThrows, SpuriousWakeup, SetLevel, SetFlushLevel, WJump, WGo, vars, clientOwned,
       locals, logger, workerOwned
  <2> QED
    BY <1>5, <2>1
<1> QED
  BY <1>1, <1>2, <1>3, <1>4, <1>6, <1>7, <1>8 DEF Next, WorkerStep

(***************************************************************************)
(* A step of one client leaves the locals of the others alone.             *)
(***************************************************************************)

OthersUnchanged(t) ==
    \A u \in Clients \ {t} : /\ pc'[u] = pc[u] /\ item'[u] = item[u]
                             /\ seen'[u] = seen[u] /\ calls'[u] = calls[u]

\* What a client's step leaves of the others.
LEMMA OthersStep ==
    ASSUME TypeInv, NEW t \in Clients, Call(t) \/ ClientStep(t)
    PROVE  OthersUnchanged(t)
<1> USE DEF OthersUnchanged, TypeInv, ClientTypes, Go, locals
<1>1. CASE Call(t)
  BY <1>1 DEF Call, CallRefused, StartLog, StartFlush, StartStop
<1>2. CASE ClientStep(t)
  BY <1>2
     DEF ClientStep, LogCheckFailed, LogCheckLevel, PublishCount, PublishCheckFailed,
     PublishReserve, PublishFull, PublishSlot, PublishUncount, PublishDrop, NotifySignal,
     NotifyOne, FinishOperation, FlushCheckJoinable, FlushCheckFailed, FlushTicket, FlushLoad,
     FlushCheckWorker, FlushWait, FlushResult, StopCheckJoinable, StopJoin, Jump
<1> QED
  BY <1>1, <1>2

(***************************************************************************)
(* Tickets.  A flusher that got past the check of worker_failed_ before    *)
(* the flag was set took its ticket before the failing worker read         *)
(* flush_request_ticket_, so the ticket that worker stores releases it.    *)
(***************************************************************************)

\* From the last look at worker_failed_ to the wait.

Committed == (PublishPcs \ {"publishFailed"}) \cup (FlushItemPcs \ {"flushResult"})
TicketLoaded == wpc \in {"failStore", "failNotify"} \/ (wpc = "exited" /\ workerFailed)
TicketStored == wpc = "failNotify" \/ (wpc = "exited" /\ workerFailed)

TicketOf(t) ==
    /\ pc[t] \in PublishPcs \cup FlushItemPcs /\ item[t].kind = "Flush" =>
          item[t].number <= requestTicket
    /\ pc[t] \in {"flushCheck", "flushWait", "flushBlocked"} => seen[t] < item[t].number
    /\ TicketLoaded /\ pc[t] \in Committed /\ item[t].kind = "Flush" =>
          item[t].number <= failTicket
    /\ wpc = "exited" /\ workerFailed => pc[t] # "flushBlocked"

TicketInv == /\ \A t \in Clients : TicketOf(t)
             /\ TicketStored => completeTicket = failTicket

\* A client's step can only disturb the tickets of that client.
LEMMA TicketClientFrame ==
    ASSUME TypeInv, TypeInv', TicketInv, NEW t \in Clients, Call(t) \/ ClientStep(t), TicketOf(t)'
    PROVE  TicketInv'
<1>1. requestTicket <= requestTicket'
  <2>1. CASE FlushTicket(t)
    BY <2>1 DEF FlushTicket, TypeInv, ClientTypes
  <2>2. CASE ~ FlushTicket(t)
    <3>1. requestTicket' = requestTicket
      BY <2>2
         DEF Call, CallRefused, StartLog, StartFlush, StartStop, ClientStep,
             LogCheckFailed,
        LogCheckLevel, PublishCount, PublishCheckFailed, PublishReserve, PublishFull,
        PublishSlot, PublishUncount, PublishDrop, NotifySignal, NotifyOne, FinishOperation,
        FlushCheckJoinable, FlushCheckFailed, FlushLoad, FlushCheckWorker, FlushWait,
        FlushResult, StopCheckJoinable, StopJoin, Jump, totals
    <3> QED
      BY <3>1 DEF TypeInv, ClientTypes
  <2> QED
    BY <2>1, <2>2
<1>2. UNCHANGED <<completeTicket, failTicket, workerFailed>>
  BY ClientSide DEF outcome, working
<1>3. /\ TicketLoaded' => TicketLoaded
      /\ TicketStored' => TicketStored
      /\ wpc' = "exited" => wpc = "exited"
  BY <1>2, ClientSide DEF TicketLoaded, TicketStored
<1>4. ASSUME NEW u \in Clients \ {t} PROVE TicketOf(u)'
  <2>1. pc'[u] = pc[u] /\ item'[u] = item[u] /\ seen'[u] = seen[u] /\ TicketOf(u)
    BY OthersStep DEF OthersUnchanged, TicketInv
  <2>2. pc[u] \in PublishPcs \cup FlushItemPcs => item[u].number \in Nat
    BY DEF TypeInv, ClientTypes, FitsAt, Items
  <2>3. requestTicket \in Nat /\ requestTicket' \in Nat
    BY DEF TypeInv, ClientTypes
  <2> QED
    BY <1>1, <1>2, <1>3, <2>1, <2>2, <2>3 DEF TicketOf
<1> QED
  BY <1>2, <1>3, <1>4 DEF TicketInv

\* Tickets stay within what was requested, and within what a failing worker stores.
LEMMA TicketNext ==
    ASSUME TypeInv, TypeInv', FlagInv, TicketInv, [Next]_vars
    PROVE  TicketInv'
<1> USE DEF TypeInv
<1>1. ASSUME NEW t \in Clients, Call(t) \/ ClientStep(t) PROVE TicketInv'
  <2> SUFFICES TicketOf(t)'
    BY <1>1, TicketClientFrame
  <2>a. TicketOf(t) /\ UNCHANGED <<completeTicket, failTicket, workerFailed>>
    BY <1>1, ClientSide DEF TicketInv, outcome, working
  <2>b. /\ TicketLoaded' => TicketLoaded /\ workerFailed
        /\ wpc' = "exited" => wpc = "exited"
    BY <1>1, <2>a, ClientSide DEF TicketLoaded, FlagInv, FailingPcs
  <2>c. pc[t] \in PublishPcs \cup FlushItemPcs => item[t].number \in Nat
    BY DEF ClientTypes, FitsAt, Items
  <2>1. CASE PublishCount(t)
    BY <2>1, <2>b
       DEF PublishCount, Go, ClientTypes, FitsAt, LogPcs, Logs, TicketOf, Committed,
           PublishPcs, FlushItemPcs, locals
  <2>2. CASE PublishCheckFailed(t)
    BY <2>2, <2>a, <2>b
       DEF PublishCheckFailed, Jump, Go, totals, locals, ClientTypes, TicketOf,
           Committed, PublishPcs, FlushItemPcs
  <2>3. CASE PublishReserve(t)
    BY <2>3, <2>a, <2>b
       DEF PublishReserve, Go, totals, locals, ClientTypes, TicketOf, Committed,
           PublishPcs, FlushItemPcs
  <2>4. CASE PublishFull(t)
    BY <2>4, <2>a, <2>b
       DEF PublishFull, Jump, Go, totals, locals, ClientTypes, TicketOf, Committed,
           PublishPcs, FlushItemPcs
  <2>5. CASE PublishSlot(t)
    BY <2>5, <2>a, <2>b
       DEF PublishSlot, Go, totals, ClientTypes, TicketOf, Committed, PublishPcs,
           FlushItemPcs
  <2>6. CASE NotifySignal(t)
    BY <2>6, <2>a, <2>b
       DEF NotifySignal, Go, totals, locals, ClientTypes, TicketOf, Committed,
           PublishPcs, FlushItemPcs
  <2>7. CASE NotifyOne(t)
    BY <2>7, <2>a, <2>b
       DEF NotifyOne, isLog, Go, totals, locals, ClientTypes, TicketOf, Committed,
           PublishPcs, FlushItemPcs
  <2>8. CASE FlushTicket(t)
    BY <2>8, <2>b
       DEF FlushTicket, FlushItem, Go, ClientTypes, TicketOf, Committed, PublishPcs,
           FlushItemPcs
  <2>9. CASE FlushLoad(t)
    BY <2>9, <2>a, <2>b, <2>c
       DEF FlushLoad, Go, totals, ClientTypes, TicketOf, Committed, PublishPcs,
           FlushItemPcs
  <2>10. CASE FlushCheckWorker(t)
    BY <2>10, <2>a, <2>b
       DEF FlushCheckWorker, Jump, Go, totals, locals, ClientTypes, TicketOf, Committed,
           PublishPcs, FlushItemPcs
  <2>11. CASE FlushWait(t)
    <3>1. pc[t] = "flushWait" /\ pc' = [pc EXCEPT ![t] = IF completeTicket = seen[t] THEN "flushBlocked" ELSE "flushLoad"]
      BY <2>11 DEF FlushWait, Jump, Go
    <3>2. UNCHANGED <<requestTicket, item, seen>>
      BY <2>11 DEF FlushWait, Jump, totals, locals
    <3>3. seen[t] \in Nat /\ failTicket \in Nat /\ item[t].number \in Nat
      BY <3>1, <2>c DEF ClientTypes, WorkerTypes, FlushItemPcs
    <3>4. item[t].kind = "Flush"
      BY <3>1 DEF ClientTypes, FitsAt, FlushItemPcs
    <3>5. wpc = "exited" /\ workerFailed => completeTicket # seen[t]
      BY <2>a, <3>1, <3>3, <3>4
         DEF TicketOf, TicketInv, TicketLoaded, TicketStored, Committed, FlushItemPcs
    <3> QED
      BY <2>a, <2>b, <3>1, <3>2, <3>5
         DEF ClientTypes, TicketOf, Committed, PublishPcs, FlushItemPcs
  <2>12. CASE ~ \/ PublishCount(t) \/ PublishCheckFailed(t) \/ PublishReserve(t) \/ PublishFull(t)
                \/ PublishSlot(t) \/ NotifySignal(t) \/ NotifyOne(t) \/ FlushTicket(t)
                \/ FlushLoad(t) \/ FlushCheckWorker(t) \/ FlushWait(t)
    <3>1. pc'[t] \notin PublishPcs \cup FlushItemPcs
      BY <1>1, <2>12 DEF Call, CallRefused, StartLog, StartFlush, StartStop, ClientStep,
         LogCheckFailed, LogCheckLevel, PublishUncount, PublishDrop, FinishOperation,
         FlushCheckJoinable, FlushCheckFailed, FlushResult, StopCheckJoinable, StopJoin,
         Jump, Go, ClientTypes, PublishPcs, FlushItemPcs
    <3> QED
      BY <3>1 DEF TicketOf, Committed, FlushItemPcs
  <2> QED
    BY <2>1, <2>2, <2>3, <2>4, <2>5, <2>6, <2>7, <2>8, <2>9, <2>10, <2>11, <2>12
<1>2. ASSUME UNCHANGED <<requestTicket, item, seen>>, ~ TicketLoaded',
             \A t \in Clients : pc'[t] = pc[t] \/ (pc[t] = "flushBlocked" /\ pc'[t] = "flushWait")
      PROVE  TicketInv'
  BY <1>2 DEF TicketInv, TicketOf, TicketLoaded, TicketStored, PublishPcs, FlushItemPcs
<1>3. CASE WorkerStep \/ SinkThrows \/ SpuriousWakeup
  <2>a. UNCHANGED <<requestTicket, item, seen>>
    BY <1>3
       DEF WorkerStep, TakeItem, ReleaseSlot, HandleLog, HandleFlush, NotifyFlushers,
       RecheckFlush, DrainEnds, LevelFlush, AutoFlushDue, AutoFlushNotDue, CheckStop,
       FinalFlush, LoadSignal, RecheckEmpty, EvaluateWake, Sleep, WaitTimesOut, FailRecord,
       FailCloseGate, FailSetFlag, FailLoadTicket, FailStoreTicket, FailNotify, SinkThrows,
       SpuriousWakeup, WJump, clientOwned, totals, locals
  <2>1. CASE FailLoadTicket
    <3>1. wpc' = "failStore" /\ failTicket' = requestTicket /\ pc' = pc
      BY <2>1 DEF FailLoadTicket, WGo, clientOwned
    <3> QED
      BY <2>a, <3>1 DEF TicketInv, TicketOf, TicketLoaded, TicketStored, Committed
  <2>2. CASE FailStoreTicket
    <3>1. /\ wpc = "failStore" /\ wpc' = "failNotify" /\ pc' = pc
          /\ completeTicket' = failTicket /\ failTicket' = failTicket
      BY <2>2 DEF FailStoreTicket, WGo, clientOwned, working
    <3> QED
      BY <2>a, <3>1 DEF TicketInv, TicketOf, TicketLoaded, TicketStored, Committed
  <2>3. CASE FailNotify
    <3>1. /\ wpc = "failNotify" /\ wpc' = "exited"
          /\ UNCHANGED <<completeTicket, failTicket, workerFailed>>
          /\ pc' = [t \in Clients |-> IF pc[t] = "flushBlocked" THEN "flushWait" ELSE pc[t]]
      BY <2>3 DEF FailNotify, WGo, WakeFlushers, outcome, working
    <3> QED
      BY <2>a, <3>1
         DEF TicketInv, TicketOf, TicketLoaded, TicketStored, Committed, PublishPcs,
             FlushItemPcs
  <2>4. CASE ~ (FailLoadTicket \/ FailStoreTicket \/ FailNotify)
    <3>1. ~ TicketLoaded'
      BY <1>3, <2>4
         DEF WorkerStep, TakeItem, ReleaseSlot, HandleLog, HandleFlush, NotifyFlushers,
         RecheckFlush, DrainEnds, LevelFlush, AutoFlushDue, AutoFlushNotDue, CheckStop,
         FinalFlush, LoadSignal, RecheckEmpty, EvaluateWake, Sleep, WaitTimesOut, FailRecord,
         FailCloseGate, FailSetFlag, SinkThrows, SpuriousWakeup, WJump, WGo, AfterItem,
         TicketLoaded, outcome, FlagInv, FailingPcs
    <3>2. \A t \in Clients : pc'[t] = pc[t] \/ (pc[t] = "flushBlocked" /\ pc'[t] = "flushWait")
      BY <1>3, <2>4
         DEF WorkerStep, TakeItem, ReleaseSlot, HandleLog, HandleFlush, NotifyFlushers,
         RecheckFlush, DrainEnds, LevelFlush, AutoFlushDue, AutoFlushNotDue, CheckStop,
         FinalFlush, LoadSignal, RecheckEmpty, EvaluateWake, Sleep, WaitTimesOut, FailRecord,
         FailCloseGate, FailSetFlag, SinkThrows, SpuriousWakeup, WJump, WakeFlushers, clientOwned
    <3> QED
      BY <1>2, <2>a, <3>1, <3>2
  <2> QED
    BY <2>1, <2>2, <2>3, <2>4
<1>4. CASE SetLevel \/ SetFlushLevel \/ UNCHANGED vars
  <2>1. UNCHANGED <<requestTicket, item, seen, pc, wpc, workerFailed, completeTicket, failTicket>>
    BY <1>4
       DEF SetLevel, SetFlushLevel, vars, clientOwned, workerOwned, totals, locals,
           outcome, working
  <2> QED
    BY <2>1 DEF TicketInv, TicketOf, TicketLoaded, TicketStored
<1> QED
  BY <1>1, <1>3, <1>4 DEF Next

(***************************************************************************)
(* Statistics.  A log enters accepted once, because a client's call number *)
(* tells its logs apart, and leaves the counted calls at the same step.    *)
(***************************************************************************)

CountedClients == { t \in Clients : Counted(t) }

\* Before a log is published.
FreshPcs == {"logFailed", "logLevel", "countEnqueued", "publishFailed", "tryEnqueue",
             "publishSlot"}
FreshLog(t) == pc[t] \in FreshPcs /\ item[t].kind = "Log" =>
                   item[t].number = calls[t] /\ item[t] \notin accepted

StatsInv ==
    /\ IsFiniteSet(accepted)
    /\ \A m \in accepted : m.number <= calls[m.client]
    /\ \A t \in Clients : FreshLog(t)
    /\ written = Len(sinkOut)
    /\ enqueued = Cardinality(accepted) + Cardinality(CountedClients)

\* There are finitely many clients to count.
LEMMA CountedFinite == IsFiniteSet(CountedClients)
BY LoggerAssumption, FS_Subset DEF CountedClients

\* How a step of one client changes the set of counted calls.
LEMMA CountedMove ==
    ASSUME NEW t \in Clients, OthersUnchanged(t)
    PROVE  /\ Counted(t)' => CountedClients' = CountedClients \cup {t}
           /\ ~ Counted(t)' => CountedClients' = CountedClients \ {t}
BY DEF OthersUnchanged, CountedClients, Counted

\* Clients keep the statistics exact.
LEMMA StatsClient ==
    ASSUME TypeInv, TypeInv', ItemOwnerInv, StatsInv, NEW t \in Clients, Call(t) \/ ClientStep(t)
    PROVE  StatsInv'
<1> USE DEF TypeInv
<1>1. OthersUnchanged(t) /\ FreshLog(t)
  BY OthersStep DEF StatsInv
<1>2. written' = Len(sinkOut')
  BY ClientSide DEF StatsInv, outcome, sink
<1>3. ASSUME UNCHANGED <<accepted, enqueued>>, calls'[t] >= calls[t],
             Counted(t)' <=> Counted(t), FreshLog(t)'
      PROVE  StatsInv'
  <2>1. CountedClients' = CountedClients
    BY <1>1, <1>3, CountedMove DEF CountedClients
  <2>2. \A u \in Clients : FreshLog(u)'
    BY <1>1, <1>3 DEF FreshLog, StatsInv, OthersUnchanged
  <2>3. \A m \in accepted : m.client \in Clients /\ m.number \in Nat
    BY DEF ClientTypes, Logs
  <2>4. ASSUME NEW m \in accepted PROVE m.number <= calls'[m.client]
    <3>1. m.number <= calls[m.client] /\ m.number \in Nat /\ calls[m.client] \in Nat
      BY <2>3 DEF StatsInv, ClientTypes
    <3>2. calls'[m.client] \in Nat /\ calls'[m.client] >= calls[m.client]
      BY <1>1, <1>3, <2>3, <3>1 DEF OthersUnchanged, ClientTypes
    <3> QED
      BY <3>1, <3>2
  <2> QED
    BY <1>2, <1>3, <2>1, <2>2, <2>4 DEF StatsInv
<1>4. CASE StartLog(t)
  <2>1. /\ pc[t] = "idle" /\ pc'[t] = "logFailed" /\ calls'[t] = calls[t] + 1
        /\ item'[t].number = calls[t] + 1 /\ item'[t].client = t
        /\ UNCHANGED <<accepted, enqueued>>
    BY <1>4 DEF StartLog, Go, LogItem, ClientTypes, totals, history
  <2>2. ~ Counted(t) /\ ~ Counted(t)'
    BY <2>1 DEF Counted, PublishPcs
  <2>3. item'[t] \notin accepted
    BY <2>1 DEF StatsInv, ClientTypes, Logs
  <2>4. calls[t] \in Nat
    BY DEF ClientTypes
  <2> QED
    BY <2>1, <2>2, <2>3, <2>4, <1>3 DEF FreshLog
<1>5. CASE CallRefused(t) \/ StartFlush(t) \/ StartStop(t)
  <2>1. /\ pc[t] = "idle" /\ pc'[t] \notin FreshPcs /\ calls'[t] = calls[t] + 1
        /\ UNCHANGED <<accepted, enqueued>>
    BY <1>5
       DEF CallRefused, StartFlush, StartStop, Go, ClientTypes, totals, history,
           FreshPcs
  <2>2. ~ Counted(t) /\ ~ Counted(t)'
    BY <1>5, <2>1
       DEF CallRefused, StartFlush, StartStop, Go, ClientTypes, Counted, PublishPcs
  <2>3. calls[t] \in Nat
    BY DEF ClientTypes
  <2> QED
    BY <2>1, <2>2, <2>3, <1>3 DEF FreshLog
<1>6. CASE PublishCount(t)
  <2>1. /\ pc[t] = "countEnqueued" /\ pc'[t] = "publishFailed" /\ enqueued' = enqueued + 1
        /\ UNCHANGED <<accepted, calls, item>>
    BY <1>6 DEF PublishCount, Go, ClientTypes, locals, history
  <2>2. item[t].kind = "Log"
    BY <2>1 DEF ClientTypes, FitsAt, LogPcs, Logs
  <2>3. t \notin CountedClients /\ CountedClients' = CountedClients \cup {t}
    BY <1>1, <2>1, <2>2, CountedMove DEF Counted, CountedClients, PublishPcs
  <2>4. Cardinality(CountedClients') = Cardinality(CountedClients) + 1
    BY <2>3, CountedFinite, FS_AddElement
  <2>5. \A u \in Clients : FreshLog(u)'
    BY <1>1, <2>1 DEF FreshLog, FreshPcs, StatsInv, OthersUnchanged
  <2>6. Cardinality(CountedClients) \in Nat /\ Cardinality(accepted) \in Nat
    BY CountedFinite, FS_CardinalityType DEF StatsInv
  <2> QED
    BY <1>2, <2>1, <2>4, <2>5, <2>6 DEF StatsInv
<1>7. CASE PublishUncount(t)
  <2>1. /\ pc[t] \in {"uncountFailed", "uncountDropped"} /\ pc'[t] \in {"finish", "countDropped"}
        /\ enqueued' = enqueued - 1
        /\ UNCHANGED <<accepted, calls, item>>
    BY <1>7 DEF PublishUncount, Go, ClientTypes, locals, history
  <2>2. item[t].kind = "Log"
    BY <2>1 DEF ClientTypes, FitsAt, LogPcs, Logs
  <2>3. t \in CountedClients /\ CountedClients' = CountedClients \ {t}
    BY <1>1, <2>1, <2>2, CountedMove DEF Counted, CountedClients, PublishPcs
  <2>4. Cardinality(CountedClients') = Cardinality(CountedClients) - 1
    BY <2>3, CountedFinite, FS_RemoveElement
  <2>5. \A u \in Clients : FreshLog(u)'
    BY <1>1, <2>1 DEF FreshLog, FreshPcs, StatsInv, OthersUnchanged
  <2>6. Cardinality(CountedClients) \in Nat /\ Cardinality(accepted) \in Nat
    BY CountedFinite, FS_CardinalityType DEF StatsInv
  <2> QED
    BY <1>2, <2>1, <2>4, <2>5, <2>6 DEF StatsInv
<1>8. CASE PublishSlot(t)
  <2>1. /\ pc[t] = "publishSlot" /\ pc'[t] = "publishSignal"
        /\ accepted' = IF isLog(t) THEN accepted \cup {item[t]} ELSE accepted
        /\ UNCHANGED <<enqueued, calls, item>>
    BY <1>8 DEF PublishSlot, Go, ClientTypes, totals
  <2>2. item[t] \in Items /\ item[t].client = t
    BY <2>1, NoneAssumption DEF ClientTypes, FitsAt, PublishPcs, ItemOwnerInv
  <2>3. CASE isLog(t)
    <3>1. item[t] \notin accepted /\ item[t].number = calls[t]
      BY <1>1, <2>1, <2>3 DEF FreshLog, FreshPcs, isLog
    <3>2. IsFiniteSet(accepted') /\ Cardinality(accepted') = Cardinality(accepted) + 1
      BY <2>1, <2>3, <3>1, FS_AddElement DEF StatsInv
    <3>3. t \in CountedClients /\ CountedClients' = CountedClients \ {t}
      BY <1>1, <2>1, <2>3, CountedMove DEF Counted, CountedClients, PublishPcs, isLog
    <3>4. Cardinality(CountedClients') = Cardinality(CountedClients) - 1
      BY <3>3, CountedFinite, FS_RemoveElement
    <3>5. \A m \in accepted' : m.number <= calls'[m.client]
      BY <2>1, <2>2, <2>3, <3>1 DEF StatsInv, ClientTypes
    <3>6. ASSUME NEW u \in Clients PROVE FreshLog(u)'
      <4>1. CASE u = t
        BY <2>1, <4>1 DEF FreshLog, FreshPcs
      <4>2. CASE u # t
        <5>1. pc[u] \in FreshPcs /\ item[u].kind = "Log" => item[u] \in Logs
          BY DEF FreshPcs, ClientTypes, FitsAt, LogPcs, PublishPcs, Logs, Items
        <5>2. pc[u] \in FreshPcs /\ item[u].kind = "Log" => item[u] # item[t]
          BY <2>2, <4>2, <5>1, NoneAssumption DEF ItemOwnerInv, Logs, Items
        <5> QED
          BY <1>1, <2>1, <4>2, <5>2 DEF FreshLog, StatsInv, OthersUnchanged
      <4> QED
        BY <4>1, <4>2
    <3>7. Cardinality(CountedClients) \in Nat /\ Cardinality(accepted) \in Nat
      BY CountedFinite, FS_CardinalityType DEF StatsInv
    <3> QED
      BY <1>2, <2>1, <3>2, <3>4, <3>5, <3>6, <3>7 DEF StatsInv
  <2>4. CASE ~ isLog(t)
    <3>1. ~ Counted(t) /\ ~ Counted(t)'
      BY <2>1, <2>4 DEF Counted, isLog
    <3>2. FreshLog(t)'
      BY <2>1 DEF FreshLog, FreshPcs
    <3> QED
      BY <1>3, <2>1, <2>4, <3>1, <3>2 DEF ClientTypes
  <2> QED
    BY <2>3, <2>4
<1>9. CASE ClientStep(t) /\ ~ PublishCount(t) /\ ~ PublishUncount(t) /\ ~ PublishSlot(t)
  <2>1. UNCHANGED <<accepted, enqueued, calls>>
    BY <1>9 DEF ClientStep, LogCheckFailed, LogCheckLevel, PublishCheckFailed,
       PublishReserve, PublishFull, PublishDrop, NotifySignal, NotifyOne, FinishOperation,
       FlushCheckJoinable, FlushCheckFailed, FlushTicket, FlushLoad, FlushCheckWorker,
       FlushWait, FlushResult, StopCheckJoinable, StopJoin, Jump, totals, locals, history
  <2>2. Counted(t)' <=> Counted(t)
    <3>1. CASE FlushTicket(t)
      BY <3>1 DEF FlushTicket, FlushItem, Go, ClientTypes, Counted, PublishPcs
    <3>2. CASE FinishOperation(t)
      BY <3>2 DEF FinishOperation, Go, ClientTypes, Counted, PublishPcs
    <3>3. CASE PublishFull(t)
      BY <3>3
         DEF PublishFull, MayBlock, isLog, Jump, Go, ClientTypes, Counted, PublishPcs,
             locals
    <3>4. CASE PublishCheckFailed(t)
      BY <3>4
         DEF PublishCheckFailed, isLog, Jump, Go, ClientTypes, Counted, PublishPcs,
             locals
    <3>5. CASE ~ (FlushTicket(t) \/ FinishOperation(t) \/ PublishFull(t) \/ PublishCheckFailed(t))
      BY <1>9, <3>5 DEF ClientStep, LogCheckFailed, LogCheckLevel,
       PublishReserve, PublishDrop, NotifySignal, NotifyOne,
       FlushCheckJoinable, FlushCheckFailed, FlushLoad, FlushCheckWorker,
       FlushWait, FlushResult, StopCheckJoinable, StopJoin, Jump, Go, locals, ClientTypes,
       Counted, PublishPcs
    <3> QED
      BY <3>1, <3>2, <3>3, <3>4, <3>5
  <2>3. FreshLog(t)'
    <3>1. CASE FlushTicket(t)
      BY <3>1 DEF FlushTicket, FlushItem, Go, ClientTypes, FreshLog
    <3>2. CASE ~ FlushTicket(t)
      <4>1. pc'[t] \in FreshPcs => pc[t] \in FreshPcs /\ item'[t] = item[t]
        BY <1>9, <3>2 DEF ClientStep, LogCheckFailed, LogCheckLevel, PublishCheckFailed,
           PublishReserve, PublishFull, PublishDrop, NotifySignal, NotifyOne, FinishOperation,
           FlushCheckJoinable, FlushCheckFailed, FlushLoad, FlushCheckWorker,
           FlushWait, FlushResult, StopCheckJoinable, StopJoin, Jump, Go, locals, ClientTypes,
           FreshPcs
      <4> QED
        BY <1>1, <2>1, <4>1 DEF FreshLog
    <3> QED
      BY <3>1, <3>2
  <2> QED
    BY <1>3, <2>1, <2>2, <2>3 DEF ClientTypes
<1> QED
  BY <1>4, <1>5, <1>6, <1>7, <1>8, <1>9 DEF Call

\* So does the worker, which counts a log as written when the sink has it.
LEMMA StatsNext ==
    ASSUME TypeInv, TypeInv', ItemOwnerInv, StatsInv, [Next]_vars
    PROVE  StatsInv'
<1>1. ASSUME NEW t \in Clients, Call(t) \/ ClientStep(t) PROVE StatsInv'
  BY <1>1, StatsClient
<1>2. CASE HandleLog
  <2>1. written' = Len(sinkOut')
    <3>1. sinkOut' = Append(sinkOut, wItem) /\ written' = written + 1 /\ sinkOut \in Seq(Logs)
      BY <1>2 DEF HandleLog, TypeInv, WorkerTypes
    <3> QED
      BY <3>1 DEF StatsInv
  <2>2. UNCHANGED <<accepted, enqueued, calls, pc, item>>
    BY <1>2 DEF HandleLog, clientOwned, totals, locals, history
  <2> QED
    BY <2>1, <2>2 DEF StatsInv, FreshLog, CountedClients, Counted
<1>3. CASE NotifyFlushers \/ FailNotify
  <2>1. UNCHANGED <<accepted, enqueued, calls, item, written, sinkOut>>
    BY <1>3 DEF NotifyFlushers, FailNotify, totals, locals, history, outcome, sink
  <2>2. \A t \in Clients : pc'[t] = pc[t] \/ (pc[t] = "flushBlocked" /\ pc'[t] = "flushWait")
    BY <1>3 DEF NotifyFlushers, FailNotify, WakeFlushers
  <2>3. CountedClients' = CountedClients
    BY <2>1, <2>2 DEF CountedClients, Counted, PublishPcs
  <2> QED
    BY <2>1, <2>2, <2>3 DEF StatsInv, FreshLog, FreshPcs
<1>4. CASE \/ TakeItem \/ ReleaseSlot \/ HandleFlush \/ RecheckFlush \/ DrainEnds \/ LevelFlush
           \/ AutoFlushDue \/ AutoFlushNotDue \/ CheckStop \/ FinalFlush \/ LoadSignal
           \/ RecheckEmpty \/ EvaluateWake \/ Sleep \/ WaitTimesOut \/ FailRecord
           \/ FailCloseGate \/ FailSetFlag \/ FailLoadTicket \/ FailStoreTicket
           \/ SinkThrows \/ SpuriousWakeup \/ SetLevel \/ SetFlushLevel \/ UNCHANGED vars
  <2>1. UNCHANGED <<accepted, enqueued, calls, pc, item, written, sinkOut>>
    BY <1>4 DEF TakeItem, ReleaseSlot, HandleFlush, RecheckFlush, DrainEnds, LevelFlush,
       AutoFlushDue, AutoFlushNotDue, CheckStop, FinalFlush, LoadSignal, RecheckEmpty,
       EvaluateWake, Sleep, WaitTimesOut, FailRecord, FailCloseGate, FailSetFlag,
       FailLoadTicket, FailStoreTicket, SinkThrows, SpuriousWakeup, SetLevel, SetFlushLevel,
       WJump, vars, clientOwned, totals, locals, history, workerOwned, outcome, sink
  <2> QED
    BY <2>1 DEF StatsInv, FreshLog, CountedClients, Counted
<1> QED
  BY <1>1, <1>2, <1>3, <1>4 DEF Next, WorkerStep

(***************************************************************************)
(* Waiting.  Only PublishSlot makes the oldest slot ready while the worker *)
(* is about to wait, and its client goes on to change the signal.          *)
(***************************************************************************)

\* No step leaves a ready item to a waiting worker without a signal.
LEMMA WaitNext ==
    ASSUME TypeInv, NoItemWithoutSignal, [Next]_vars
    PROVE  NoItemWithoutSignal'
<1> USE DEF TypeInv
<1>0. queue \in Seq(SlotType)
  BY DEF SharedTypes
<1>1. ASSUME NEW t \in Clients, Call(t) \/ ClientStep(t) PROVE NoItemWithoutSignal'
  <2>1. CASE PublishSlot(t)
    <3>1. pc'[t] = "publishSignal"
      BY <2>1 DEF PublishSlot, Go, ClientTypes
    <3> QED
      BY <3>1 DEF NoItemWithoutSignal
  <2>2. CASE NotifySignal(t)
    <3>1. wakeChanged' = TRUE
      BY <2>2 DEF NotifySignal
    <3> QED
      BY <3>1 DEF NoItemWithoutSignal
  <2>3. ASSUME HeadReady' => HeadReady, wakeChanged' = wakeChanged, pc[t] # "publishSignal"
        PROVE  NoItemWithoutSignal'
    <3>1. wpc' \in WaitPcs => wpc \in WaitPcs
      BY <1>1, ClientSide DEF WaitPcs
    <3>2. \A u \in Clients : pc[u] = "publishSignal" => pc'[u] = "publishSignal"
      BY <1>1, <2>3, OthersStep DEF OthersUnchanged
    <3> QED
      BY <2>3, <3>1, <3>2 DEF NoItemWithoutSignal
  <2>4. CASE PublishReserve(t)
    <3>1. item[t] \in Items /\ Reserve(item[t])
      BY <2>4 DEF PublishReserve, Go, ClientTypes, FitsAt, PublishPcs
    <3>2. HeadReady' => HeadReady
      <4>1. /\ Len(queue) \in Nat /\ Len(queue') = Len(queue) + 1
            /\ \A i \in 1 .. Len(queue) : queue'[i] = queue[i]
            /\ queue'[Len(queue) + 1] = Slot(item[t], "reserved")
        BY <1>0, <3>1, ReserveProperties
      <4>2. CASE queue = <<>>
        <5>1. queue'[1].state = "reserved"
          BY <4>1, <4>2 DEF Slot
        <5> QED
          BY <5>1 DEF HeadReady
      <4>3. CASE queue # <<>>
        <5>1. queue'[1] = queue[1]
          BY <1>0, <4>1, <4>3, EmptySeq
        <5> QED
          BY <4>3, <5>1 DEF HeadReady
      <4> QED
        BY <4>2, <4>3
    <3> QED
      BY <2>3, <2>4, <3>2 DEF PublishReserve, Go
  <2>5. CASE ~ (PublishSlot(t) \/ NotifySignal(t) \/ PublishReserve(t))
    <3>1. UNCHANGED <<queue, wakeChanged>> /\ pc[t] # "publishSignal"
      BY <1>1, <2>5 DEF Call, CallRefused, StartLog, StartFlush, StartStop, ClientStep,
         LogCheckFailed, LogCheckLevel, PublishCount, PublishCheckFailed, PublishFull,
         PublishUncount, PublishDrop, NotifyOne, FinishOperation, FlushCheckJoinable,
         FlushCheckFailed, FlushTicket, FlushLoad, FlushCheckWorker, FlushWait, FlushResult,
         StopCheckJoinable, StopJoin, Jump, Go, logger
    <3> QED
      BY <2>3, <3>1 DEF HeadReady
  <2> QED
    BY <2>1, <2>2, <2>3, <2>4, <2>5
<1>2. CASE WorkerStep \/ SinkThrows \/ SpuriousWakeup
  <2>1. CASE RecheckEmpty
    <3>1. ~ HeadReady /\ queue' = queue
      BY <2>1 DEF RecheckEmpty, WJump, logger
    <3> QED
      BY <3>1 DEF NoItemWithoutSignal, HeadReady
  <2>2. CASE EvaluateWake \/ Sleep \/ SpuriousWakeup
    <3>1. wpc \in WaitPcs /\ UNCHANGED <<queue, wakeChanged, pc>>
      BY <2>2
         DEF EvaluateWake, Sleep, SpuriousWakeup, WJump, WGo, WaitPcs, logger,
             clientOwned
    <3> QED
      BY <3>1 DEF NoItemWithoutSignal, HeadReady
  <2>3. CASE ~ (RecheckEmpty \/ EvaluateWake \/ Sleep \/ SpuriousWakeup)
    <3>1. wpc' \notin WaitPcs
      BY <1>2, <2>3 DEF WorkerStep, TakeItem, ReleaseSlot, HandleLog, HandleFlush,
         NotifyFlushers, RecheckFlush, DrainEnds, LevelFlush, AutoFlushDue, AutoFlushNotDue,
         CheckStop, FinalFlush, LoadSignal, WaitTimesOut, FailRecord, FailCloseGate,
         FailSetFlag, FailLoadTicket, FailStoreTicket, FailNotify, SinkThrows, AfterItem,
         WJump, WGo, WaitPcs
    <3> QED
      BY <3>1 DEF NoItemWithoutSignal
  <2> QED
    BY <2>1, <2>2, <2>3
<1>3. CASE SetLevel \/ SetFlushLevel \/ UNCHANGED vars
  <2>1. UNCHANGED <<queue, wakeChanged, pc, wpc>>
    BY <1>3 DEF SetLevel, SetFlushLevel, vars, logger, clientOwned, workerOwned
  <2> QED
    BY <2>1 DEF NoItemWithoutSignal, HeadReady
<1> QED
  BY <1>1, <1>2, <1>3 DEF Next

(***************************************************************************)
(* The inductive invariant and what follows from it.                       *)
(***************************************************************************)

IInv == /\ TypeInv /\ GateInv /\ FlagInv /\ ExitInv
        /\ ItemOwnerInv /\ SlotInv /\ TicketInv /\ StatsInv /\ NoItemWithoutSignal

\* The invariant holds initially,
LEMMA InvInit == Init => IInv
<1> SUFFICES ASSUME Init PROVE IInv
  OBVIOUS
<1>1. TypeInv
  BY TypeInit
<1>2. GateInv
  <2>1. OperatingClients = {}
    BY DEF Init, OperatingClients, Operating, LogPcs, PublishPcs, FlushPcs
  <2> QED
    BY <2>1, FS_EmptySet DEF Init, GateInv
<1>3. FlagInv /\ ExitInv
  BY DEF Init, FlagInv, ExitInv, FailingPcs
<1>4. ItemOwnerInv
  BY DEF Init, ItemOwnerInv
<1>5. SlotInv /\ NoItemWithoutSignal
  BY EmptySeq DEF Init, SlotInv, NoItemWithoutSignal, HeadReady
<1>6. TicketInv
  BY DEF Init, TicketInv, TicketOf, TicketLoaded, TicketStored, PublishPcs,
         FlushItemPcs, Committed
<1>7. StatsInv
  <2>1. CountedClients = {}
    BY DEF Init, CountedClients, Counted, PublishPcs
  <2>2. /\ IsFiniteSet(accepted)
        /\ Cardinality(accepted) = 0 /\ Cardinality(CountedClients) = 0
    BY <2>1, FS_EmptySet DEF Init
  <2>3. written = Len(sinkOut)
    BY EmptySeq DEF Init
  <2> QED
    BY <2>2, <2>3 DEF Init, StatsInv, FreshLog, FreshPcs
<1> QED
  BY <1>1, <1>2, <1>3, <1>4, <1>5, <1>6, <1>7 DEF IInv

\* and every step preserves it.
LEMMA InvNext == IInv /\ [Next]_vars => IInv'
BY TypeNext, GateNext, FlagNext, ExitNext, ItemOwnerNext, SlotNext, TicketNext,
   StatsNext,
   WaitNext DEF IInv

\* The inductive invariant holds in every reachable state of the logger.
THEOREM InductiveInvariant == Spec => []IInv
BY InvInit, InvNext, PTL DEF Spec

\* The two decremented counters count sets, so they are never negative.
LEMMA CountersAreNatural == IInv => active \in Nat /\ enqueued \in Nat
<1>1. GateInv => active \in Nat
  BY OperatingClientsFinite, FS_CardinalityType DEF GateInv
<1>2. StatsInv => enqueued \in Nat
  <2>1. StatsInv => Cardinality(accepted) \in Nat /\ Cardinality(CountedClients) \in Nat
    BY CountedFinite, FS_CardinalityType DEF StatsInv
  <2> QED
    BY <2>1 DEF StatsInv
<1> QED
  BY <1>1, <1>2 DEF IInv

\* Every variable stays in its domain, the queue within its capacity and the operation
\* count and the counter of enqueued logs, which the code decrements, above zero.
THEOREM TypeCorrect == Spec => []TypeOK
<1>1. IInv => TypeOK
  <2> SUFFICES ASSUME IInv PROVE TypeOK
    OBVIOUS
  <2>1. active \in Nat /\ enqueued \in Nat
    BY CountersAreNatural
  <2>2. ClientTypes /\ SharedTypes /\ WorkerTypes /\ FlagTypes
    BY DEF IInv, TypeInv
  <2>3. \A t \in Clients : result[t] \in BOOLEAN
    BY <2>2 DEF ClientTypes
  <2>4. /\ closed \in BOOLEAN /\ wakeChanged \in BOOLEAN
        /\ workerFailed \in BOOLEAN /\ failureRecorded \in BOOLEAN
        /\ joinable \in BOOLEAN
        /\ rechecking \in BOOLEAN /\ madeProgress \in BOOLEAN /\ flushRequired \in BOOLEAN
    BY <2>2 DEF FlagTypes
  <2> QED
    BY <2>1, <2>2, <2>4 DEF TypeOK, ClientTypes, SharedTypes, WorkerTypes
<1> QED
  BY <1>1, InductiveInvariant, PTL

\* The counters of LoggerStats are exact for any number of producers (Publish,
\* HandleItem).
THEOREM StatisticsTheorem == Spec => []StatsAreExact
<1>1. IInv => StatsAreExact
  BY DEF IInv, StatsInv, StatsAreExact, CountedClients
<1> QED
  BY <1>1, InductiveInvariant, PTL

\* Whoever sees failed() finds the message and a closed gate, and no flusher stays
\* blocked on a failed worker (RecordWorkerFailure, Flush).
THEOREM FailureTheorem == Spec => []FailureIsPublished
<1>1. IInv => FailureIsPublished
  BY DEF IInv, FlagInv, TicketInv, TicketOf, FailureIsPublished
<1> QED
  BY <1>1, InductiveInvariant, PTL

\* Nobody is inside an operation once the worker has exited without failing.
LEMMA ExitedWorkerIsAlone ==
    ASSUME IInv, wpc = "exited", ~ workerFailed
    PROVE  closed /\ \A t \in Clients : pc[t] \notin Operating
<1>1. closed /\ active = 0
  BY DEF IInv, ExitInv
<1>2. OperatingClients = {}
  BY <1>1, OperatingClientsFinite, FS_EmptySet DEF IInv, GateInv
<1> QED
  BY <1>1, <1>2 DEF OperatingClients

\* A worker that did not fail outlives every operation that passed the gate, and leaves
\* no slot half published (WorkerLoop, OperationGuard).
THEOREM WorkerExitTheorem == Spec => []NoOperationOutlivesWorker
<1>1. IInv => NoOperationOutlivesWorker
  <2> SUFFICES ASSUME IInv, wpc = "exited", ~ workerFailed
               PROVE  /\ closed /\ \A t \in Clients : pc[t] \notin Operating
                      /\ \A i \in 1 .. Len(queue) : queue[i].state = "ready"
    BY DEF NoOperationOutlivesWorker
  <2>1. closed /\ \A t \in Clients : pc[t] \notin Operating
    BY ExitedWorkerIsAlone
  <2>2. ASSUME NEW i \in 1 .. Len(queue) PROVE queue[i].state = "ready"
    <3>1. queue[i] \in SlotType
      BY ElementOfSeq DEF IInv, TypeInv, SharedTypes
    <3>2. queue[i].val.client \in Clients /\ queue[i].state \in {"reserved", "ready", "taken"}
      BY <3>1 DEF SlotType, Items
    <3>3. pc[queue[i].val.client] # "publishSlot"
      BY <2>1, <3>2 DEF Operating, PublishPcs
    <3> QED
      BY <3>2, <3>3 DEF IInv, SlotInv
  <2> QED
    BY <2>1, <2>2
<1> QED
  BY <1>1, InductiveInvariant, PTL

(***************************************************************************)
(* A Flush that has its ticket fails only with the worker.                 *)
(***************************************************************************)

\* Where a client has no item: outside an operation, and as long as a Flush has no ticket.
EmptyPcs == (ClientPcs \ Operating) \cup {"flushJoinable"}

TurnedDown(t) ==
    /\ pc[t] \in EmptyPcs => item[t] = None
    /\ pc[t] = "finish" /\ item[t] # None /\ item[t].kind = "Flush" /\ ~ result[t]
       => workerFailed

TurnedDownInv == \A t \in Clients : TurnedDown(t)

\* Nothing takes worker_failed_ back.
LEMMA FailureStays == TypeInv /\ [Next]_vars /\ workerFailed => workerFailed'
<1> SUFFICES ASSUME TypeInv, [Next]_vars, workerFailed PROVE workerFailed'
  OBVIOUS
<1>1. ASSUME NEW t \in Clients, Call(t) \/ ClientStep(t) PROVE workerFailed'
  BY <1>1, ClientSide DEF outcome
<1>2. CASE WorkerStep \/ SinkThrows \/ SpuriousWakeup \/ SetLevel \/ SetFlushLevel
           \/ UNCHANGED vars
  BY <1>2
     DEF WorkerStep, TakeItem, ReleaseSlot, HandleLog, HandleFlush, NotifyFlushers,
         RecheckFlush, DrainEnds, LevelFlush, AutoFlushDue, AutoFlushNotDue, CheckStop,
         FinalFlush, LoadSignal, RecheckEmpty, EvaluateWake, Sleep, WaitTimesOut, FailRecord,
         FailCloseGate, FailSetFlag, FailLoadTicket, FailStoreTicket, FailNotify, SinkThrows,
         SpuriousWakeup, SetLevel, SetFlushLevel, WJump, vars, workerOwned, outcome
<1> QED
  BY <1>1, <1>2 DEF Next

\* A client's step leaves the results of the others alone.
LEMMA OthersResults ==
    ASSUME TypeInv, NEW t \in Clients, Call(t) \/ ClientStep(t)
    PROVE  \A u \in Clients \ {t} : result'[u] = result[u]
<1>1. CASE PublishSlot(t) \/ FinishOperation(t) \/ FlushResult(t)
  BY <1>1 DEF PublishSlot, FinishOperation, FlushResult, TypeInv, ClientTypes
<1>2. CASE Call(t) \/ (ClientStep(t) /\ ~ PublishSlot(t) /\ ~ FinishOperation(t)
                                     /\ ~ FlushResult(t))
  <2>1. result' = result
    BY <1>2
       DEF Call, CallRefused, StartLog, StartFlush, StartStop, ClientStep, LogCheckFailed,
       LogCheckLevel, PublishCount, PublishCheckFailed, PublishReserve, PublishFull,
       PublishUncount, PublishDrop, NotifySignal, NotifyOne, FlushCheckJoinable,
       FlushCheckFailed, FlushTicket, FlushLoad, FlushCheckWorker, FlushWait,
       StopCheckJoinable, StopJoin, Jump, locals
  <2> QED
    BY <2>1
<1> QED
  BY <1>1, <1>2

\* Each of the returns that give a Flush up has seen worker_failed_ set.
LEMMA TurnedDownClient ==
    ASSUME TypeInv, NEW t \in Clients, TurnedDown(t), Call(t) \/ ClientStep(t)
    PROVE  TurnedDown(t)'
<1> USE DEF TurnedDown, EmptyPcs, ClientPcs, Operating, LogPcs, PublishPcs, FlushPcs, StopPcs,
            Go, TypeInv, ClientTypes
<1>1. workerFailed' = workerFailed
  BY ClientSide DEF outcome
<1>2. CASE Call(t)
  BY <1>1, <1>2 DEF Call, CallRefused, StartLog, StartFlush, StartStop
<1>3. CASE LogCheckFailed(t) \/ LogCheckLevel(t) \/ PublishUncount(t) \/ PublishDrop(t)
  <2>1. item[t] \in Logs /\ item' = item
    BY <1>3 DEF LogCheckFailed, LogCheckLevel, PublishUncount, PublishDrop, FitsAt, Jump, locals
  <2>2. item[t].kind = "Log"
    BY <2>1 DEF Logs
  <2>3. pc'[t] \in {"finish", "logLevel", "countEnqueued", "countDropped"}
    BY <1>3 DEF LogCheckFailed, LogCheckLevel, PublishUncount, PublishDrop, Jump
  <2> QED
    BY <2>1, <2>2, <2>3
<1>4. CASE PublishCount(t) \/ PublishReserve(t) \/ PublishFull(t) \/ PublishSlot(t)
           \/ FlushTicket(t) \/ FlushLoad(t) \/ FlushWait(t) \/ FlushCheckFailed(t)
  <2>1. \/ pc'[t] \in {"publishFailed", "publishSlot", "uncountDropped", "publishSignal",
                       "flushCheck", "flushResult", "flushBlocked", "flushLoad", "flushTicket"}
        \/ pc'[t] = "finish" /\ workerFailed
    BY <1>4 DEF PublishCount, PublishReserve, PublishFull, PublishSlot, FlushTicket, FlushLoad,
                FlushWait, FlushCheckFailed, Jump
  <2> QED
    BY <1>1, <2>1
<1>5. CASE PublishCheckFailed(t) \/ FlushCheckWorker(t)
  <2>1. item' = item /\ (pc'[t] = "finish" => workerFailed)
    BY <1>5 DEF PublishCheckFailed, FlushCheckWorker, isLog, Jump, locals
  <2>2. pc'[t] \in {"tryEnqueue", "uncountFailed", "finish", "flushWait"}
    BY <1>5 DEF PublishCheckFailed, FlushCheckWorker, Jump
  <2> QED
    BY <1>1, <2>1, <2>2
<1>6. CASE NotifySignal(t)
  BY <1>6, <1>1 DEF NotifySignal, locals
<1>7. CASE NotifyOne(t)
  BY <1>7, <1>1 DEF NotifyOne, isLog, locals
<1>8. CASE FinishOperation(t)
  <2>1. item'[t] = None /\ pc'[t] \in {"finishSignal", "idle"}
    BY <1>8 DEF FinishOperation
  <2> QED
    BY <2>1
<1>9. CASE FlushCheckJoinable(t)
  <2>1. item[t] = None /\ item' = item /\ pc'[t] \in {"flushFailed", "finish"}
    BY <1>9 DEF FlushCheckJoinable, Jump, locals
  <2> QED
    BY <2>1
<1>10. CASE FlushResult(t)
  <2>1. pc'[t] = "finish" /\ result'[t] = ~ workerFailed
    BY <1>10 DEF FlushResult
  <2> QED
    BY <1>1, <2>1
<1>11. CASE StopCheckJoinable(t) \/ StopJoin(t)
  <2>1. item[t] = None /\ item' = item /\ pc'[t] \in {"stopJoin", "idle"}
    BY <1>11 DEF StopCheckJoinable, StopJoin, Jump, locals
  <2> QED
    BY <2>1
<1> QED
  BY <1>2, <1>3, <1>4, <1>5, <1>6, <1>7, <1>8, <1>9, <1>10, <1>11 DEF ClientStep

\* The worker moves clients only among the steps of a Flush that waits.
LEMMA TurnedDownNext == TypeInv /\ TurnedDownInv /\ [Next]_vars => TurnedDownInv'
<1> SUFFICES ASSUME TypeInv, TurnedDownInv, [Next]_vars, NEW u \in Clients PROVE TurnedDown(u)'
  BY DEF TurnedDownInv
<1>1. TurnedDown(u) /\ (workerFailed => workerFailed')
  BY FailureStays DEF TurnedDownInv
<1>2. ASSUME NEW t \in Clients, Call(t) \/ ClientStep(t) PROVE TurnedDown(u)'
  <2>1. CASE u = t
    BY <1>1, <1>2, <2>1, TurnedDownClient
  <2>2. CASE u # t
    <3>1. pc'[u] = pc[u] /\ item'[u] = item[u] /\ result'[u] = result[u]
      BY <1>2, <2>2, OthersStep, OthersResults DEF OthersUnchanged
    <3> QED
      BY <1>1, <3>1 DEF TurnedDown
  <2> QED
    BY <2>1, <2>2
<1>3. CASE WorkerStep \/ SinkThrows \/ SpuriousWakeup \/ SetLevel \/ SetFlushLevel
           \/ UNCHANGED vars
  <2>1. item' = item /\ result' = result
    BY <1>3
       DEF WorkerStep, TakeItem, ReleaseSlot, HandleLog, HandleFlush, NotifyFlushers,
       RecheckFlush, DrainEnds, LevelFlush, AutoFlushDue, AutoFlushNotDue, CheckStop,
       FinalFlush, LoadSignal, RecheckEmpty, EvaluateWake, Sleep, WaitTimesOut, FailRecord,
       FailCloseGate, FailSetFlag, FailLoadTicket, FailStoreTicket, FailNotify, SinkThrows,
       SpuriousWakeup, SetLevel, SetFlushLevel, WJump, vars, clientOwned, locals
  <2>2. pc' = pc \/ WakeFlushers
    BY <1>3
       DEF WorkerStep, TakeItem, ReleaseSlot, HandleLog, HandleFlush, NotifyFlushers,
       RecheckFlush, DrainEnds, LevelFlush, AutoFlushDue, AutoFlushNotDue, CheckStop,
       FinalFlush, LoadSignal, RecheckEmpty, EvaluateWake, Sleep, WaitTimesOut, FailRecord,
       FailCloseGate, FailSetFlag, FailLoadTicket, FailStoreTicket, FailNotify, SinkThrows,
       SpuriousWakeup, SetLevel, SetFlushLevel, WJump, vars, clientOwned
  <2>3. pc'[u] = pc[u] \/ pc'[u] = "flushWait"
    BY <2>2 DEF WakeFlushers
  <2>4. "flushWait" \notin EmptyPcs
    BY DEF EmptyPcs, Operating, FlushPcs
  <2> QED
    BY <1>1, <2>1, <2>3, <2>4 DEF TurnedDown
<1> QED
  BY <1>2, <1>3 DEF Next

\* Once a Flush has its ticket, its item waits for room whatever the overflow policy, and a
\* closed gate is not held against it: it returns false only if the worker failed.
THEOREM FlushFailureTheorem == Spec => []FlushFailsOnlyWithWorker
<1>1. Init => TurnedDownInv
  BY DEF Init, TurnedDownInv, TurnedDown
<1>2. TurnedDownInv => FlushFailsOnlyWithWorker
  BY DEF TurnedDownInv, TurnedDown, FlushFailsOnlyWithWorker
<1> QED
  BY <1>1, <1>2, TypeInvariant, TurnedDownNext, PTL DEF Spec

\* A worker that waits with an item ready has been, or is about to be, notified of it
\* (WorkerLoop, NotifyWorker).
THEOREM SignalTheorem == Spec => []NoItemWithoutSignal
BY InductiveInvariant, PTL DEF IInv
===============================================================================
