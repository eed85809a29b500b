------------------------ MODULE AsyncLoggerOrderProofs ------------------------
(***************************************************************************)
(* What becomes of an accepted log, for every number of clients, calls and *)
(* slots and for every sink: it is never lost or repeated, the logs of one *)
(* client stay in order, and a flush that succeeds makes durable what was  *)
(* in place before it.  The argument follows the line of logs that runs    *)
(* from the sink over the worker's hand through the queue.                 *)
(***************************************************************************)
EXTENDS AsyncLoggerProofs

(***************************************************************************)
(* The worker's hand.                                                      *)
(***************************************************************************)

\* Where the worker may hold an item: one that failed keeps it.
Holding == ItemPcs \cup FailPcs \cup {"exited"}

HandInv ==
    /\ wItem # None => wpc \in Holding
    /\ wpc = "release" => queue[1].val = wItem /\ queue[1].state # "reserved"
    /\ wpc = "release" /\ wItem.kind = "Log" => queue[1].state = "taken"
    /\ wpc = "flushNotify" => wItem.kind = "Flush"

\* A client about to publish has its slot.
ReservedInv ==
    \A t \in Clients : pc[t] = "publishSlot" =>
        \E i \in 1 .. Len(queue) : queue[i] = Slot(item[t], "reserved")

\* A log that is not published yet is the latest of its client.
LatestInv ==
    \A t \in Clients : pc[t] \in FreshPcs /\ item[t].kind = "Log" =>
        \A m \in accepted : m.client = t => m.number < calls[t]

(***************************************************************************)
(* The line of logs: every client's numbers grow along it.                 *)
(***************************************************************************)

Before(m, n) == m.client = n.client => m.number < n.number
IsLogAt(i)   == queue[i].val.kind = "Log"
\* The slot of the item in the worker's hand.
InHandAt(i)  == i = 1 /\ wpc = "release"

OrderInv ==
    /\ \A i, j \in 1 .. Len(queue) :
          i < j /\ IsLogAt(i) /\ IsLogAt(j) => Before(queue[i].val, queue[j].val)
    /\ \A m \in LogInHand : \A j \in 1 .. Len(queue) :
          IsLogAt(j) /\ ~ InHandAt(j) => Before(m, queue[j].val)
    /\ \A m \in WrittenLogs : \A j \in 1 .. Len(queue) :
          IsLogAt(j) => Before(m, queue[j].val)
    /\ \A m \in WrittenLogs : \A n \in LogInHand : Before(m, n)
    /\ ProducerOrder

ConservedInv ==
    /\ accepted = ReadyLogs \cup LogInHand \cup WrittenLogs
    /\ IsFiniteSet(WrittenLogs) /\ Cardinality(WrittenLogs) = Len(sinkOut)

(***************************************************************************)
(* Flushes: a flush item comes after every log that was in place when a    *)
(* flush with its ticket or an earlier one began.                          *)
(***************************************************************************)

HasTicket(t) == pc[t] \in PublishPcs \cup FlushItemPcs /\ item[t].kind = "Flush"
DurableLogs  == { sinkOut[i] : i \in 1 .. durable }

BoundInv ==
    /\ \A i \in 1 .. Len(queue) :
          queue[i].val.kind = "Flush" => queue[i].val.number <= requestTicket
    /\ wItem # None /\ wItem.kind = "Flush" => wItem.number <= requestTicket
    /\ ~ workerFailed => completeTicket <= requestTicket

ResultInv ==
    \A t \in Clients : result[t] =>
        \/ pc[t] = "finish"
        \/ pc[t] \in {"publishSignal", "publishNotify"} /\ item[t].kind = "Log"

\* The logs ahead of slot i.
Ahead(i) == WrittenLogs \cup LogInHand \cup { queue[j].val : j \in 1 .. (i - 1) }

GoalOf(t) ==
    /\ HasTicket(t) =>
          /\ goal[t] \subseteq Ahead(Len(queue) + 1)
          /\ \A i \in 1 .. Len(queue) :
                queue[i].val.kind = "Flush" /\ item[t].number <= queue[i].val.number =>
                    goal[t] \subseteq Ahead(i)
          /\ wItem # None /\ wItem.kind = "Flush" /\ item[t].number <= wItem.number =>
                goal[t] \subseteq WrittenLogs
          /\ ~ workerFailed /\ item[t].number <= completeTicket =>
                goal[t] \subseteq DurableLogs
    /\ \/ pc[t] = "flushResult" /\ ~ workerFailed
       \/ result[t] /\ item[t].kind = "Flush"
       => goal[t] \subseteq DurableLogs

GoalInv == \A t \in Clients : GoalOf(t)

DeliveryInv == HandInv /\ ReservedInv /\ LatestInv /\ OrderInv /\ ConservedInv
               /\ BoundInv /\ ResultInv /\ GoalInv

(***************************************************************************)
(* The steps that move a log or an item, and all the others.               *)
(***************************************************************************)

Still ==
    /\ UNCHANGED <<queue, accepted, sinkOut, wItem>>
    /\ wpc' = "release" <=> wpc = "release"
    /\ wpc \in Holding => wpc' \in Holding
    /\ wpc' = "flushNotify" => wpc = "flushNotify" \/ wItem.kind = "Flush"
    /\ \A t \in Clients : pc'[t] = "publishSlot" =>
          pc[t] = "publishSlot" /\ item'[t] = item[t]

Moves == \/ \E t \in Clients : PublishReserve(t) \/ PublishSlot(t)
         \/ TakeItem \/ ReleaseSlot \/ HandleLog \/ NotifyFlushers

\* Publish, TryDequeue and HandleItem are all that moves a log.
LEMMA LineStep ==
    ASSUME TypeInv, [Next]_vars
    PROVE  Moves \/ Still
<1> USE DEF TypeInv
<1>1. ASSUME NEW t \in Clients, Call(t) \/ ClientStep(t), ~ PublishReserve(t), ~ PublishSlot(t)
      PROVE  Still
  <2>1. UNCHANGED <<queue, accepted>>
    BY <1>1
       DEF Call, CallRefused, StartLog, StartFlush, StartStop, ClientStep,
           LogCheckFailed,
       LogCheckLevel, PublishCount, PublishCheckFailed, PublishFull,
       PublishUncount, PublishDrop, NotifySignal, NotifyOne, FinishOperation,
       FlushCheckJoinable, FlushCheckFailed, FlushTicket, FlushLoad, FlushCheckWorker,
       FlushWait, FlushResult, StopCheckJoinable, StopJoin, Jump, logger, history
  <2>2. UNCHANGED <<sinkOut, wItem>> /\ (wpc' = wpc \/ (wpc = "blocked" /\ wpc' = "evaluate"))
    BY <1>1, ClientSide DEF sink, working
  <2>3. pc'[t] # "publishSlot"
    BY <1>1
       DEF Call, CallRefused, StartLog, StartFlush, StartStop, ClientStep,
           LogCheckFailed,
       LogCheckLevel, PublishCount, PublishCheckFailed, PublishFull,
       PublishUncount, PublishDrop, NotifySignal, NotifyOne, FinishOperation,
       FlushCheckJoinable, FlushCheckFailed, FlushTicket, FlushLoad, FlushCheckWorker,
       FlushWait, FlushResult, StopCheckJoinable, StopJoin, Jump, Go, ClientTypes
  <2>4. \A u \in Clients \ {t} : pc'[u] = pc[u] /\ item'[u] = item[u]
    BY <1>1, OthersStep DEF OthersUnchanged
  <2> QED
    BY <2>1, <2>2, <2>3, <2>4 DEF Still, Holding, ItemPcs, FailPcs
<1>2. CASE HandleFlush \/ SinkThrows
  <2>1. UNCHANGED <<queue, accepted, sinkOut, wItem, pc, item>>
    BY <1>2 DEF HandleFlush, SinkThrows, logger, clientOwned, locals, history, sink, working
  <2>2. /\ wpc # "release" /\ wpc' \in {"flushNotify", "failRecord"}
        /\ wpc' = "flushNotify" => wItem.kind = "Flush"
    BY <1>2 DEF HandleFlush, SinkThrows, WGo
  <2> QED
    BY <2>1, <2>2 DEF Still, Holding, ItemPcs, FailPcs
<1>3. CASE FailRecord \/ FailCloseGate \/ FailSetFlag \/ FailLoadTicket \/ FailStoreTicket
  <2>1. UNCHANGED <<queue, accepted, sinkOut, wItem, pc, item>>
    BY <1>3
       DEF FailRecord, FailCloseGate, FailSetFlag, FailLoadTicket, FailStoreTicket, logger,
           clientOwned, locals, history, sink, working
  <2>2. wpc # "release" /\ wpc' \in FailPcs
    BY <1>3
       DEF FailRecord, FailCloseGate, FailSetFlag, FailLoadTicket, FailStoreTicket, WGo,
           FailPcs
  <2> QED
    BY <2>1, <2>2 DEF Still, Holding, FailPcs
<1>4. CASE FailNotify
  <2>1. UNCHANGED <<queue, accepted, sinkOut, wItem, item>> /\ wpc = "failNotify" /\ wpc' = "exited"
    BY <1>4 DEF FailNotify, WGo, locals, history, sink, working
  <2>2. \A t \in Clients : pc'[t] = "publishSlot" => pc[t] = "publishSlot"
    BY <1>4 DEF FailNotify, WakeFlushers
  <2> QED
    BY <2>1, <2>2 DEF Still, Holding
<1>5. CASE \/ RecheckFlush \/ DrainEnds \/ LevelFlush \/ AutoFlushDue \/ AutoFlushNotDue
           \/ CheckStop \/ FinalFlush \/ LoadSignal \/ RecheckEmpty \/ EvaluateWake \/ Sleep
           \/ WaitTimesOut \/ SpuriousWakeup
  <2>1. UNCHANGED <<queue, accepted, sinkOut, wItem, pc, item>>
    BY <1>5
       DEF RecheckFlush, DrainEnds, LevelFlush, AutoFlushDue, AutoFlushNotDue, CheckStop,
           FinalFlush, LoadSignal, RecheckEmpty, EvaluateWake, Sleep, WaitTimesOut,
           SpuriousWakeup, WJump, logger, clientOwned, locals, history, sink, working
  <2>2. wpc \notin Holding /\ wpc' \notin {"release", "flushNotify"}
    BY <1>5
       DEF RecheckFlush, DrainEnds, LevelFlush, AutoFlushDue, AutoFlushNotDue, CheckStop,
           FinalFlush, LoadSignal, RecheckEmpty, EvaluateWake, Sleep, WaitTimesOut,
           SpuriousWakeup, WJump, WGo, Holding, ItemPcs, FailPcs
  <2> QED
    BY <2>1, <2>2 DEF Still, Holding, ItemPcs
<1>6. CASE SetLevel \/ SetFlushLevel \/ UNCHANGED vars
  <2>1. UNCHANGED <<queue, accepted, sinkOut, wItem, wpc, pc, item>>
    BY <1>6
       DEF SetLevel, SetFlushLevel, vars, logger, clientOwned, workerOwned, locals, history,
           sink, working
  <2> QED
    BY <2>1 DEF Still
<1> QED
  BY <1>1, <1>2, <1>3, <1>4, <1>5, <1>6 DEF Next, WorkerStep, Moves

\* The slots of the queue hold items of clients.
LEMMA SlotsAreTyped ==
    ASSUME TypeInv
    PROVE  /\ queue \in Seq(SlotType) /\ Len(queue) \in Nat
           /\ \A i \in 1 .. Len(queue) : /\ queue[i] \in SlotType
                                         /\ queue[i].val \in Items
                                         /\ queue[i].val.client \in Clients
                                         /\ queue[i].val.number \in Nat
<1>1. queue \in Seq(SlotType)
  BY DEF TypeInv, SharedTypes
<1>2. \A i \in 1 .. Len(queue) : queue[i] \in SlotType
  BY <1>1, ElementOfSeq
<1> QED
  BY <1>1, <1>2 DEF SlotType, Items

\* A client about to publish holds an item of its own; a log is not published yet.
LEMMA PublishedItem ==
    ASSUME TypeInv, ItemOwnerInv, NEW t \in Clients, pc[t] \in PublishPcs
    PROVE  item[t] \in Items /\ item[t].client = t /\ item[t].number \in Nat
<1>1. item[t] \in Items
  BY DEF TypeInv, ClientTypes, FitsAt
<1> QED
  BY <1>1, NoneAssumption DEF ItemOwnerInv, Items

\* What a client is about to publish, nobody has yet.
LEMMA UnpublishedLog ==
    ASSUME TypeInv, StatsInv, ConservedInv, NEW t \in Clients,
           pc[t] = "publishSlot", item[t].kind = "Log"
    PROVE  item[t] \notin accepted /\ item[t] \notin LogInHand
BY DEF StatsInv, FreshLog, FreshPcs, ConservedInv

\* The worker takes an item only with an empty hand, and it is the oldest.
LEMMA HandNext ==
    ASSUME TypeInv, ItemOwnerInv, StatsInv, ConservedInv, HandInv, [Next]_vars
    PROVE  HandInv'
<1>1. CASE Still
  BY <1>1 DEF Still, HandInv
<1>2. ASSUME NEW t \in Clients, PublishReserve(t) PROVE HandInv'
  <2>1. Reserve(item[t]) /\ item[t] \in Items /\ UNCHANGED <<wpc, wItem>>
    BY <1>2
       DEF PublishReserve, Go, TypeInv, ClientTypes, FitsAt, PublishPcs, workerOwned, working
  <2>2. wpc = "release" => queue'[1] = queue[1]
    BY <2>1, ReserveProperties, SlotsAreTyped, EmptySeq DEF TypeInv, SharedTypes
  <2> QED
    BY <2>1, <2>2 DEF HandInv
<1>3. ASSUME NEW t \in Clients, PublishSlot(t) PROVE HandInv'
  <2>1. /\ Publish(item[t]) /\ item[t] \in Items /\ pc[t] = "publishSlot"
        /\ UNCHANGED <<wpc, wItem>>
    BY <1>3, PublishedItem DEF PublishSlot, Go, PublishPcs, workerOwned, working
  <2>2. wpc = "release" => queue # <<>>
    BY DEF TypeInv, SharedTypes
  <2>3. wpc = "release" =>
           queue'[1] = IF queue[1].val = item[t] THEN Slot(item[t], "ready") ELSE queue[1]
    BY <2>1, <2>2, PublishProperties, SlotsAreTyped, EmptySeq
  <2>4. wpc = "release" /\ wItem.kind = "Log" => queue[1].val # item[t]
    <3>1. wpc = "release" => wItem # None
      BY NoneAssumption DEF TypeInv, WorkerTypes, ItemPcs
    <3> QED
      BY <2>1, <3>1, UnpublishedLog DEF HandInv, LogInHand
  <2> QED
    BY <2>1, <2>3, <2>4 DEF HandInv, Slot
<1>4. CASE TakeItem
  <2>1. wItem' = queue[1].val /\ wpc' = "release" /\ HeadReady /\ Take
    BY <1>4 DEF TakeItem, WGo
  <2>2. queue'[1] = Slot(queue[1].val, "taken")
    BY <2>1, TakeProperties, SlotsAreTyped
  <2> QED
    BY <2>1, <2>2 DEF HandInv, Slot, Holding, ItemPcs
<1>5. CASE ReleaseSlot
  BY <1>5 DEF ReleaseSlot, WGo, HandInv, Holding, ItemPcs, working
<1>6. CASE HandleLog
  BY <1>6 DEF HandleLog, WGo, AfterItem, HandInv
<1>7. CASE NotifyFlushers
  BY <1>7 DEF NotifyFlushers, WGo, HandInv
<1> QED
  BY <1>1, <1>2, <1>3, <1>4, <1>5, <1>6, <1>7, LineStep DEF Moves


\* A slot stays its client's until it is published.
LEMMA ReservedNext ==
    ASSUME TypeInv, ItemOwnerInv, HandInv, ReservedInv, [Next]_vars
    PROVE  ReservedInv'
<1>1. CASE Still
  BY <1>1 DEF Still, ReservedInv
<1>2. ASSUME NEW t \in Clients, PublishReserve(t) PROVE ReservedInv'
  <2>1. Reserve(item[t]) /\ item[t] \in Items /\ item' = item
    BY <1>2, PublishedItem DEF PublishReserve, Go, PublishPcs, locals
  <2>2. /\ Len(queue') = Len(queue) + 1 /\ Len(queue) \in Nat
        /\ \A i \in 1 .. Len(queue) : queue'[i] = queue[i]
        /\ queue'[Len(queue) + 1] = Slot(item[t], "reserved")
    BY <2>1, ReserveProperties, SlotsAreTyped
  <2>3. \A u \in Clients \ {t} : pc'[u] = pc[u]
    BY <1>2, OthersStep DEF ClientStep, OthersUnchanged
  <2>4. ASSUME NEW u \in Clients, pc'[u] = "publishSlot"
        PROVE  \E i \in 1 .. Len(queue') : queue'[i] = Slot(item'[u], "reserved")
    <3>1. CASE u = t
      <4>1. Len(queue) + 1 \in 1 .. Len(queue')
        BY <2>2
      <4> QED
        BY <2>1, <2>2, <3>1, <4>1
    <3>2. CASE u # t
      <4>1. PICK i \in 1 .. Len(queue) : queue[i] = Slot(item[u], "reserved")
        BY <2>3, <2>4, <3>2 DEF ReservedInv
      <4>2. i \in 1 .. Len(queue')
        BY <2>2
      <4> QED
        BY <2>1, <2>2, <4>1, <4>2
    <3> QED
      BY <3>1, <3>2
  <2> QED
    BY <2>4 DEF ReservedInv
<1>3. ASSUME NEW t \in Clients, PublishSlot(t) PROVE ReservedInv'
  <2>1. /\ Publish(item[t]) /\ item[t] \in Items /\ item[t].client = t /\ item' = item
        /\ pc[t] = "publishSlot" /\ pc'[t] = "publishSignal"
    BY <1>3, PublishedItem DEF PublishSlot, Go, PublishPcs, TypeInv, ClientTypes
  <2>2. /\ Len(queue') = Len(queue)
        /\ \A i \in 1 .. Len(queue) :
              queue'[i] = IF queue[i].val = item[t] THEN Slot(item[t], "ready") ELSE queue[i]
    BY <2>1, PublishProperties, SlotsAreTyped
  <2>3. \A u \in Clients \ {t} : pc'[u] = pc[u]
    BY <1>3, OthersStep DEF ClientStep, OthersUnchanged
  <2>4. ASSUME NEW u \in Clients, pc'[u] = "publishSlot"
        PROVE  \E i \in 1 .. Len(queue') : queue'[i] = Slot(item'[u], "reserved")
    <3>1. u # t /\ pc[u] = "publishSlot"
      BY <2>1, <2>3, <2>4
    <3>2. PICK i \in 1 .. Len(queue) : queue[i] = Slot(item[u], "reserved")
      BY <3>1 DEF ReservedInv
    <3>3. queue[i].val # item[t]
      BY <2>1, <3>1, <3>2, PublishedItem DEF Slot, PublishPcs
    <3> QED
      BY <2>1, <2>2, <3>2, <3>3
  <2> QED
    BY <2>4 DEF ReservedInv
<1>4. CASE TakeItem
  <2>1. HeadReady /\ Take /\ UNCHANGED <<pc, item>>
    BY <1>4 DEF TakeItem, clientOwned, locals
  <2>2. /\ Len(queue') = Len(queue)
        /\ \A i \in 2 .. Len(queue) : queue'[i] = queue[i]
    BY <2>1, TakeProperties, SlotsAreTyped
  <2>3. ASSUME NEW i \in 1 .. Len(queue), queue[i].state = "reserved" PROVE queue'[i] = queue[i]
    BY <2>1, <2>2, <2>3 DEF HeadReady
  <2> QED
    BY <2>1, <2>2, <2>3 DEF ReservedInv, Slot
<1>5. CASE ReleaseSlot
  <2>1. wpc = "release" /\ Release /\ UNCHANGED <<pc, item>> /\ queue # <<>>
    BY <1>5 DEF ReleaseSlot, WGo, clientOwned, locals, TypeInv, SharedTypes
  <2>2. /\ Len(queue') = Len(queue) - 1
        /\ \A i \in 1 .. Len(queue') : queue'[i] = queue[i + 1]
    BY <2>1, ReleaseProperties, SlotsAreTyped
  <2>3. ASSUME NEW t \in Clients, pc[t] = "publishSlot"
        PROVE  \E i \in 1 .. Len(queue') : queue'[i] = Slot(item[t], "reserved")
    <3>1. PICK i \in 1 .. Len(queue) : queue[i] = Slot(item[t], "reserved")
      BY <2>3 DEF ReservedInv
    <3>2. i # 1
      BY <2>1, <3>1 DEF HandInv, Slot
    <3>3. i - 1 \in 1 .. Len(queue') /\ queue'[i - 1] = queue[i]
      BY <2>2, <3>1, <3>2, SlotsAreTyped
    <3> QED
      BY <3>1, <3>3
  <2> QED
    BY <2>1, <2>3 DEF ReservedInv
<1>6. CASE HandleLog \/ NotifyFlushers
  <2>1. UNCHANGED <<queue, item>>
    BY <1>6 DEF HandleLog, NotifyFlushers, logger, clientOwned, locals
  <2>2. \A t \in Clients : pc'[t] = "publishSlot" => pc[t] = "publishSlot"
    BY <1>6 DEF HandleLog, NotifyFlushers, WakeFlushers, clientOwned
  <2> QED
    BY <2>1, <2>2 DEF ReservedInv
<1> QED
  BY <1>1, <1>2, <1>3, <1>4, <1>5, <1>6, LineStep DEF Moves

\* Before a log is published its client's earlier ones have smaller numbers.
LEMMA LatestNext ==
    ASSUME TypeInv, ItemOwnerInv, StatsInv, LatestInv, [Next]_vars
    PROVE  LatestInv'
<1>1. ASSUME NEW t \in Clients, StartLog(t) PROVE LatestInv'
  <2>1. calls'[t] = calls[t] + 1 /\ calls[t] \in Nat /\ UNCHANGED accepted
    BY <1>1 DEF StartLog, TypeInv, ClientTypes, history
  <2>2. \A m \in accepted : m.client = t => m.number < calls'[t]
    BY <2>1 DEF StatsInv, TypeInv, ClientTypes, Logs
  <2>3. OthersUnchanged(t)
    BY <1>1, OthersStep DEF Call
  <2> QED
    BY <2>1, <2>2, <2>3 DEF LatestInv, OthersUnchanged
<1>2. ASSUME NEW t \in Clients, PublishSlot(t) PROVE LatestInv'
  <2>1. /\ pc[t] = "publishSlot" /\ pc'[t] = "publishSignal"
        /\ accepted' \subseteq accepted \cup {item[t]}
        /\ UNCHANGED <<calls, item>>
    BY <1>2 DEF PublishSlot, Go, TypeInv, ClientTypes
  <2>2. item[t].client = t
    BY <2>1, PublishedItem DEF PublishPcs
  <2>3. OthersUnchanged(t)
    BY <1>2, OthersStep DEF ClientStep
  <2> QED
    BY <2>1, <2>2, <2>3 DEF LatestInv, OthersUnchanged, FreshPcs
<1>3. ASSUME NEW t \in Clients, Call(t) \/ ClientStep(t), ~ StartLog(t), ~ PublishSlot(t)
      PROVE  LatestInv'
  <2>1. UNCHANGED accepted
    BY <1>3
       DEF Call, CallRefused, StartFlush, StartStop, ClientStep, LogCheckFailed,
       LogCheckLevel, PublishCount, PublishCheckFailed, PublishReserve, PublishFull,
       PublishUncount, PublishDrop, NotifySignal, NotifyOne, FinishOperation,
       FlushCheckJoinable, FlushCheckFailed, FlushTicket, FlushLoad, FlushCheckWorker,
       FlushWait, FlushResult, StopCheckJoinable, StopJoin, Jump, history
  <2>2. pc'[t] \in FreshPcs /\ item'[t].kind = "Log" =>
           pc[t] \in FreshPcs /\ item'[t] = item[t] /\ calls'[t] = calls[t]
    <3>1. CASE FlushTicket(t)
      BY <3>1 DEF FlushTicket, FlushItem, TypeInv, ClientTypes
    <3>2. CASE ~ FlushTicket(t)
      BY <1>3, <3>2
         DEF Call, CallRefused, StartFlush, StartStop, ClientStep, LogCheckFailed,
         LogCheckLevel, PublishCount, PublishCheckFailed, PublishReserve, PublishFull,
         PublishUncount, PublishDrop, NotifySignal, NotifyOne, FinishOperation,
         FlushCheckJoinable, FlushCheckFailed, FlushLoad, FlushCheckWorker,
         FlushWait, FlushResult, StopCheckJoinable, StopJoin, Jump, Go, locals, FreshPcs,
         TypeInv, ClientTypes
    <3> QED
      BY <3>1, <3>2
  <2>3. OthersUnchanged(t)
    BY <1>3, OthersStep
  <2> QED
    BY <2>1, <2>2, <2>3 DEF LatestInv, OthersUnchanged
<1>4. CASE WorkerStep \/ SinkThrows \/ SpuriousWakeup \/ SetLevel \/ SetFlushLevel \/ UNCHANGED vars
  <2>1. UNCHANGED <<accepted, calls, item>>
    BY <1>4
       DEF WorkerStep, TakeItem, ReleaseSlot, HandleLog, HandleFlush, NotifyFlushers,
       RecheckFlush, DrainEnds, LevelFlush, AutoFlushDue, AutoFlushNotDue, CheckStop,
       FinalFlush, LoadSignal, RecheckEmpty, EvaluateWake, Sleep, WaitTimesOut, FailRecord,
       FailCloseGate, FailSetFlag, FailLoadTicket, FailStoreTicket, FailNotify, SinkThrows,
       SpuriousWakeup, SetLevel, SetFlushLevel, WJump, vars, clientOwned, locals, history
  <2>2. \A t \in Clients : pc'[t] \in FreshPcs => pc[t] \in FreshPcs
    BY <1>4
       DEF WorkerStep, TakeItem, ReleaseSlot, HandleLog, HandleFlush, NotifyFlushers,
       RecheckFlush, DrainEnds, LevelFlush, AutoFlushDue, AutoFlushNotDue, CheckStop,
       FinalFlush, LoadSignal, RecheckEmpty, EvaluateWake, Sleep, WaitTimesOut, FailRecord,
       FailCloseGate, FailSetFlag, FailLoadTicket, FailStoreTicket, FailNotify, SinkThrows,
       SpuriousWakeup, SetLevel, SetFlushLevel, WJump, vars, clientOwned, WakeFlushers,
       FreshPcs
  <2> QED
    BY <2>1, <2>2 DEF LatestInv
<1> QED
  BY <1>1, <1>2, <1>3, <1>4 DEF Next

(***************************************************************************)
(* Conservation.                                                           *)
(***************************************************************************)

\* What the queue shows as ready.
LEMMA ReadyLogsAre ==
    ASSUME queue \in Seq(SlotType), queue' \in Seq(SlotType)
    PROVE  /\ \A m : m \in ReadyLogs <=>
                 \E i \in 1 .. Len(queue) :
                    queue[i].val = m /\ queue[i].state = "ready" /\ m.kind = "Log"
           /\ \A m : m \in ReadyLogs' <=>
                 \E i \in 1 .. Len(queue') :
                    queue'[i].val = m /\ queue'[i].state = "ready" /\ m.kind = "Log"
BY DEF ReadyLogs, Elements

\* The logs of a client that is about to reserve a slot all came earlier.
LEMMA NewLogIsLast ==
    ASSUME TypeInv, ItemOwnerInv, SlotInv, HandInv, LatestInv, StatsInv, ConservedInv,
           NEW t \in Clients, pc[t] = "tryEnqueue", item[t].kind = "Log"
    PROVE  /\ \A m \in accepted : Before(m, item[t])
           /\ \A i \in 1 .. Len(queue) : IsLogAt(i) => Before(queue[i].val, item[t])
<1>1. /\ item[t].client = t /\ item[t].number = calls[t]
      /\ \A m \in accepted : m.client = t => m.number < calls[t]
  BY PublishedItem DEF StatsInv, FreshLog, FreshPcs, PublishPcs, LatestInv
<1>2. \A m \in accepted : Before(m, item[t])
  BY <1>1 DEF Before
<1>3. ASSUME NEW i \in 1 .. Len(queue), IsLogAt(i) PROVE Before(queue[i].val, item[t])
  <2>1. queue[i].state \in {"reserved", "ready", "taken"}
    BY SlotsAreTyped DEF SlotType
  <2>2. CASE queue[i].state = "reserved"
    BY <2>2, <1>1 DEF SlotInv, Before
  <2>3. CASE queue[i].state = "ready"
    <3>1. queue[i].val \in ReadyLogs
      BY <2>3, <1>3 DEF IsLogAt, ReadyLogs, Elements
    <3> QED
      BY <3>1, <1>2 DEF ConservedInv
  <2>4. CASE queue[i].state = "taken"
    <3>1. i = 1 /\ wpc = "release" /\ queue[i].val = wItem
      BY <2>4 DEF SlotInv, HandInv
    <3>2. queue[i].val \in LogInHand
      BY <1>3, <3>1, NoneAssumption, SlotsAreTyped DEF LogInHand, IsLogAt
    <3> QED
      BY <3>2, <1>2 DEF ConservedInv
  <2> QED
    BY <2>1, <2>2, <2>3, <2>4
<1> QED
  BY <1>2, <1>3

(***************************************************************************)
(* Order.                                                                  *)
(***************************************************************************)

\* No step breaks the order of the line.
LEMMA OrderNext ==
    ASSUME TypeInv, ItemOwnerInv, SlotInv, StatsInv, HandInv, LatestInv, ConservedInv,
           OrderInv, [Next]_vars
    PROVE  OrderInv'
<1>1. CASE Still
  <2>1. LogInHand' = LogInHand /\ WrittenLogs' = WrittenLogs
    BY <1>1 DEF Still, LogInHand, WrittenLogs, Elements
  <2>2. (ProducerOrder)' = ProducerOrder
    BY <1>1 DEF Still, ProducerOrder
  <2> QED
    BY <1>1, <2>1, <2>2 DEF Still, OrderInv, IsLogAt, InHandAt
<1>2. ASSUME NEW t \in Clients, PublishReserve(t) PROVE OrderInv'
  <2>1. /\ Reserve(item[t]) /\ item[t] \in Items /\ pc[t] = "tryEnqueue"
        /\ UNCHANGED <<sinkOut, wItem, wpc>>
    BY <1>2, PublishedItem
       DEF PublishReserve, Go, PublishPcs, workerOwned, working, sink
  <2>2. /\ Len(queue') = Len(queue) + 1 /\ Len(queue) \in Nat
        /\ \A i \in 1 .. Len(queue) : queue'[i] = queue[i]
        /\ queue'[Len(queue) + 1].val = item[t]
    <3>1. queue'[Len(queue) + 1] = Slot(item[t], "reserved")
      BY <2>1, ReserveProperties, SlotsAreTyped
    <3> QED
      BY <2>1, <3>1, ReserveProperties, SlotsAreTyped DEF Slot
  <2>3. LogInHand' = LogInHand /\ WrittenLogs' = WrittenLogs
    BY <2>1 DEF LogInHand, WrittenLogs, Elements
  <2>4. item[t].kind = "Log" =>
           /\ \A m \in LogInHand \cup WrittenLogs : Before(m, item[t])
           /\ \A i \in 1 .. Len(queue) : IsLogAt(i) => Before(queue[i].val, item[t])
    BY <2>1, NewLogIsLast DEF ConservedInv
  <2>5. ProducerOrder'
    BY <2>1 DEF OrderInv, ProducerOrder
  <2>6. ASSUME NEW j \in 1 .. Len(queue'), IsLogAt(j)'
        PROVE  /\ \A i \in 1 .. Len(queue') :
                     i < j /\ IsLogAt(i)' => Before(queue'[i].val, queue'[j].val)
               /\ \A m \in LogInHand : ~ InHandAt(j)' => Before(m, queue'[j].val)
               /\ \A m \in WrittenLogs : Before(m, queue'[j].val)
    <3>1. CASE j = Len(queue) + 1
      BY <2>2, <2>4, <2>6, <3>1 DEF IsLogAt
    <3>2. CASE j \in 1 .. Len(queue)
      BY <2>1, <2>2, <2>6, <3>2 DEF IsLogAt, InHandAt, OrderInv
    <3> QED
      BY <2>2, <3>1, <3>2
  <2> QED
    BY <2>3, <2>5, <2>6 DEF OrderInv
<1>3. ASSUME NEW t \in Clients, PublishSlot(t) PROVE OrderInv'
  <2>1. Publish(item[t]) /\ item[t] \in Items /\ UNCHANGED <<sinkOut, wItem, wpc>>
    BY <1>3, PublishedItem
       DEF PublishSlot, Go, PublishPcs, workerOwned, working, sink
  <2>2. /\ Len(queue') = Len(queue)
        /\ \A i \in 1 .. Len(queue) : queue'[i].val = queue[i].val
    <3>1. /\ Len(queue') = Len(queue)
          /\ \A i \in 1 .. Len(queue) :
                queue'[i] = IF queue[i].val = item[t] THEN Slot(item[t], "ready") ELSE queue[i]
      BY <2>1, PublishProperties, SlotsAreTyped
    <3> QED
      BY <3>1 DEF Slot
  <2>3. LogInHand' = LogInHand /\ WrittenLogs' = WrittenLogs
    BY <2>1 DEF LogInHand, WrittenLogs, Elements
  <2>4. ProducerOrder'
    BY <2>1 DEF OrderInv, ProducerOrder
  <2> QED
    BY <2>1, <2>2, <2>3, <2>4 DEF OrderInv, IsLogAt, InHandAt
<1>4. CASE TakeItem
  <2>1. /\ HeadReady /\ Take /\ wItem' = queue[1].val /\ wpc' = "release"
        /\ sinkOut' = sinkOut
    BY <1>4 DEF TakeItem, WGo, sink
  <2>2. /\ Len(queue') = Len(queue) /\ Len(queue) > 0 /\ Len(queue) \in Nat
        /\ \A i \in 1 .. Len(queue) : queue'[i].val = queue[i].val
    BY <2>1, TakeProperties, SlotsAreTyped DEF Slot
  <2>3. /\ WrittenLogs' = WrittenLogs
        /\ \A m \in LogInHand' : IsLogAt(1) /\ m = queue[1].val
    BY <2>1 DEF LogInHand, WrittenLogs, Elements, IsLogAt
  <2>4. ProducerOrder'
    BY <2>1 DEF OrderInv, ProducerOrder
  <2> QED
    BY <2>1, <2>2, <2>3, <2>4 DEF OrderInv, IsLogAt, InHandAt
<1>5. CASE ReleaseSlot
  <2>1. /\ Release /\ queue # <<>> /\ wpc = "release" /\ wpc' = "handle"
        /\ UNCHANGED <<sinkOut, wItem>>
    BY <1>5 DEF ReleaseSlot, WGo, TypeInv, SharedTypes, sink, working
  <2>2. /\ Len(queue') = Len(queue) - 1 /\ Len(queue) \in Nat
        /\ \A i \in 1 .. Len(queue') : queue'[i] = queue[i + 1]
    BY <2>1, ReleaseProperties, SlotsAreTyped
  <2>3. LogInHand' = LogInHand /\ WrittenLogs' = WrittenLogs
    BY <2>1 DEF LogInHand, WrittenLogs, Elements
  <2>4. ProducerOrder'
    BY <2>1 DEF OrderInv, ProducerOrder
  <2>5. \A i \in 1 .. Len(queue') : i + 1 \in 1 .. Len(queue) /\ ~ InHandAt(i + 1)
                                    /\ (IsLogAt(i)' <=> IsLogAt(i + 1))
    BY <2>2 DEF InHandAt, IsLogAt
  <2>6. \A i, j \in 1 .. Len(queue') : i < j => i + 1 < j + 1
    OBVIOUS
  <2> QED
    BY <2>2, <2>3, <2>4, <2>5, <2>6 DEF OrderInv
<1>6. CASE HandleLog
  <2>1. /\ sinkOut' = Append(sinkOut, wItem) /\ queue' = queue
        /\ wpc = "handle" /\ wItem' = None
        /\ sinkOut \in Seq(Logs) /\ wItem \in Logs
    BY <1>6 DEF HandleLog, WGo, logger, TypeInv, WorkerTypes, ItemPcs, Logs, Items
  <2>2. /\ LogInHand = {wItem} /\ LogInHand' = {}
        /\ Len(sinkOut') = Len(sinkOut) + 1 /\ Len(sinkOut) \in Nat
        /\ \A i \in 1 .. Len(sinkOut) : sinkOut'[i] = sinkOut[i]
        /\ sinkOut'[Len(sinkOut) + 1] = wItem
        /\ WrittenLogs' = WrittenLogs \cup {wItem}
    BY <1>6, <2>1 DEF HandleLog, LogInHand, WrittenLogs, Elements
  <2>3. ASSUME NEW i \in 1 .. Len(sinkOut'), NEW j \in 1 .. Len(sinkOut'),
               i < j, sinkOut'[i].client = sinkOut'[j].client
        PROVE  sinkOut'[i].number < sinkOut'[j].number
    <3>1. i \in 1 .. Len(sinkOut) /\ sinkOut[i] \in WrittenLogs
      BY <2>2, <2>3 DEF WrittenLogs, Elements
    <3>2. CASE j \in 1 .. Len(sinkOut)
      BY <2>2, <2>3, <3>1, <3>2 DEF OrderInv, ProducerOrder
    <3>3. CASE j = Len(sinkOut) + 1
      BY <2>2, <2>3, <3>1, <3>3 DEF OrderInv, Before
    <3> QED
      BY <2>2, <3>2, <3>3
  <2>4. ProducerOrder'
    BY <2>3 DEF ProducerOrder
  <2> QED
    BY <2>1, <2>2, <2>4 DEF OrderInv, IsLogAt, InHandAt
<1>7. CASE NotifyFlushers
  <2>1. /\ UNCHANGED <<queue, sinkOut>> /\ wItem' = None
    BY <1>7 DEF NotifyFlushers, logger, sink
  <2>2. LogInHand' = {} /\ WrittenLogs' = WrittenLogs
    BY <2>1 DEF LogInHand, WrittenLogs, Elements
  <2>3. ProducerOrder'
    BY <2>1 DEF OrderInv, ProducerOrder
  <2> QED
    BY <2>1, <2>2, <2>3 DEF OrderInv, IsLogAt
<1> QED
  BY <1>1, <1>2, <1>3, <1>4, <1>5, <1>6, <1>7, LineStep DEF Moves

\* No step loses, repeats or invents a log.
LEMMA ConservedNext ==
    ASSUME TypeInv, ItemOwnerInv, SlotInv, StatsInv, HandInv, ReservedInv, OrderInv,
           ConservedInv, [Next]_vars
    PROVE  ConservedInv'
<1>0. queue \in Seq(SlotType) /\ queue' \in Seq(SlotType)
  BY TypeNext DEF TypeInv, SharedTypes
<1>1. ASSUME UNCHANGED sinkOut, accepted' = ReadyLogs' \cup LogInHand' \cup WrittenLogs
      PROVE  ConservedInv'
  <2>1. WrittenLogs' = WrittenLogs
    BY <1>1 DEF WrittenLogs, Elements
  <2> QED
    BY <1>1, <2>1 DEF ConservedInv
<1>2. CASE Still
  <2>1. ReadyLogs' = ReadyLogs /\ LogInHand' = LogInHand
    BY <1>2 DEF Still, ReadyLogs, LogInHand, Elements
  <2> QED
    BY <1>1, <1>2, <2>1 DEF Still, ConservedInv
<1>3. ASSUME NEW t \in Clients, PublishReserve(t) PROVE ConservedInv'
  <2>1. /\ Reserve(item[t]) /\ item[t] \in Items
        /\ UNCHANGED <<sinkOut, wItem, accepted>>
    BY <1>3, PublishedItem
       DEF PublishReserve, Go, PublishPcs, workerOwned, working, sink, history
  <2>2. /\ Len(queue') = Len(queue) + 1 /\ Len(queue) \in Nat
        /\ \A i \in 1 .. Len(queue) : queue'[i] = queue[i]
        /\ queue'[Len(queue) + 1].state = "reserved"
    <3>1. queue'[Len(queue) + 1] = Slot(item[t], "reserved")
      BY <2>1, ReserveProperties, SlotsAreTyped
    <3> QED
      BY <2>1, <3>1, ReserveProperties, SlotsAreTyped DEF Slot
  <2>3. ReadyLogs' = ReadyLogs
    <3>1. ASSUME NEW m PROVE m \in ReadyLogs' <=> m \in ReadyLogs
      BY <1>0, <2>2, ReadyLogsAre
    <3> QED
      BY <3>1
  <2>4. LogInHand' = LogInHand
    BY <2>1 DEF LogInHand
  <2> QED
    BY <1>1, <2>1, <2>3, <2>4 DEF ConservedInv
<1>4. ASSUME NEW t \in Clients, PublishSlot(t) PROVE ConservedInv'
  <2>1. /\ Publish(item[t]) /\ item[t] \in Items /\ pc[t] = "publishSlot"
        /\ accepted' = IF isLog(t) THEN accepted \cup {item[t]} ELSE accepted
        /\ UNCHANGED <<sinkOut, wItem>>
    BY <1>4, PublishedItem
       DEF PublishSlot, Go, PublishPcs, workerOwned, working, sink
  <2>2. /\ Len(queue') = Len(queue)
        /\ \A i \in 1 .. Len(queue) :
              queue'[i] = IF queue[i].val = item[t] THEN Slot(item[t], "ready") ELSE queue[i]
    BY <2>1, PublishProperties, SlotsAreTyped
  <2>3. LogInHand' = LogInHand
    BY <2>1 DEF LogInHand
  <2>4. ReadyLogs' = IF isLog(t) THEN ReadyLogs \cup {item[t]} ELSE ReadyLogs
    <3>1. PICK k \in 1 .. Len(queue) : queue[k].val = item[t]
      <4>1. \E k \in 1 .. Len(queue) : queue[k] = Slot(item[t], "reserved")
        BY <2>1 DEF ReservedInv
      <4> QED
        BY <4>1 DEF Slot
    <3>2. ASSUME NEW m, m # item[t] PROVE m \in ReadyLogs' <=> m \in ReadyLogs
      <4>1. \A i \in 1 .. Len(queue) : queue'[i].val = m \/ queue[i].val = m => queue'[i] = queue[i]
        BY <2>2, <3>2 DEF Slot
      <4>2. m \in ReadyLogs <=> \E i \in 1 .. Len(queue) :
               queue[i].val = m /\ queue[i].state = "ready" /\ m.kind = "Log"
        BY <1>0, ReadyLogsAre, Zenon
      <4>3. m \in ReadyLogs' <=> \E i \in 1 .. Len(queue) :
               queue'[i].val = m /\ queue'[i].state = "ready" /\ m.kind = "Log"
        BY <1>0, <2>2, ReadyLogsAre, Zenon
      <4> QED
        BY <4>1, <4>2, <4>3, Zenon
    <3>3. isLog(t) => item[t] \in ReadyLogs'
      <4>1. queue'[k].val = item[t] /\ queue'[k].state = "ready" /\ k \in 1 .. Len(queue')
        BY <2>2, <3>1 DEF Slot
      <4> QED
        BY <1>0, <4>1, ReadyLogsAre DEF isLog
    <3>4. ~ isLog(t) => item[t] \notin ReadyLogs /\ item[t] \notin ReadyLogs'
      BY <1>0, ReadyLogsAre DEF isLog
    <3> QED
      BY <3>2, <3>3, <3>4
  <2>5. accepted = ReadyLogs \cup LogInHand \cup WrittenLogs
    BY DEF ConservedInv
  <2>6. accepted' = ReadyLogs' \cup LogInHand' \cup WrittenLogs
    BY <2>1, <2>3, <2>4, <2>5
  <2> QED
    BY <1>1, <2>1, <2>6
<1>5. CASE TakeItem
  <2>1. /\ HeadReady /\ Take /\ wItem' = queue[1].val /\ wpc \notin Holding
        /\ UNCHANGED <<sinkOut, accepted>>
    BY <1>5
       DEF TakeItem, WGo, sink, clientOwned, history, Holding, ItemPcs, FailPcs
  <2>2. /\ Len(queue') = Len(queue) /\ Len(queue) > 0 /\ Len(queue) \in Nat
        /\ queue'[1].val = queue[1].val /\ queue'[1].state = "taken"
        /\ \A i \in 2 .. Len(queue) : queue'[i] = queue[i]
    BY <2>1, TakeProperties, SlotsAreTyped DEF Slot
  <2>3. LogInHand = {} /\ LogInHand' = { m \in {queue[1].val} : m.kind = "Log" }
    <3>1. queue[1].val # None
      BY <2>2, NoneAssumption, SlotsAreTyped
    <3> QED
      BY <2>1, <3>1 DEF HandInv, LogInHand
  <2>4. ReadyLogs' \cup LogInHand' = ReadyLogs
    <3>1. ASSUME NEW m PROVE m \in ReadyLogs <=> m \in ReadyLogs' \/ m \in LogInHand'
      <4>1. m \in LogInHand' => m \in ReadyLogs
        BY <1>0, <2>1, <2>2, <2>3, ReadyLogsAre DEF HeadReady
      <4>2. m \in ReadyLogs' => m \in ReadyLogs
        <5>1. ASSUME NEW i \in 1 .. Len(queue'), queue'[i].state = "ready"
              PROVE  i \in 1 .. Len(queue) /\ queue[i] = queue'[i]
          BY <2>2, <5>1
        <5> QED
          BY <1>0, <5>1, ReadyLogsAre
      <4>3. m \in ReadyLogs => m \in ReadyLogs' \/ m \in LogInHand'
        <5>1. ASSUME NEW i \in 1 .. Len(queue), queue[i].val = m, queue[i].state = "ready",
                     m.kind = "Log"
              PROVE  m \in ReadyLogs' \/ m \in LogInHand'
          <6>1. CASE i = 1
            BY <2>3, <5>1, <6>1
          <6>2. CASE i # 1
            <7>1. i \in 1 .. Len(queue') /\ queue'[i] = queue[i]
              BY <2>2, <6>2
            <7> QED
              BY <1>0, <5>1, <7>1, ReadyLogsAre
          <6> QED
            BY <6>1, <6>2
        <5> QED
          BY <1>0, <5>1, ReadyLogsAre
      <4> QED
        BY <4>1, <4>2, <4>3
    <3> QED
      BY <3>1
  <2>5. accepted' = ReadyLogs' \cup LogInHand' \cup WrittenLogs
    BY <2>1, <2>3, <2>4 DEF ConservedInv
  <2> QED
    BY <1>1, <2>1, <2>5
<1>6. CASE ReleaseSlot
  <2>1. /\ Release /\ queue # <<>> /\ wpc = "release"
        /\ UNCHANGED <<sinkOut, wItem, accepted>>
    BY <1>6
       DEF ReleaseSlot, WGo, TypeInv, SharedTypes, sink, working, clientOwned, history
  <2>2. /\ Len(queue') = Len(queue) - 1 /\ Len(queue) \in Nat
        /\ \A i \in 1 .. Len(queue') : queue'[i] = queue[i + 1]
    BY <2>1, ReleaseProperties, SlotsAreTyped
  <2>3. LogInHand' = LogInHand
    BY <2>1 DEF LogInHand
  <2>4. ReadyLogs' = ReadyLogs
    <3>1. ASSUME NEW m PROVE m \in ReadyLogs' => m \in ReadyLogs
      <4>1. \A i \in 1 .. Len(queue') : i + 1 \in 1 .. Len(queue)
        BY <2>2
      <4> QED
        BY <1>0, <2>2, <4>1, ReadyLogsAre
    <3>2. ASSUME NEW m, m \in ReadyLogs PROVE m \in ReadyLogs'
      <4>1. PICK i \in 1 .. Len(queue) : /\ queue[i].val = m /\ queue[i].state = "ready"
                                         /\ m.kind = "Log"
        BY <1>0, <3>2, ReadyLogsAre
      <4>2. i # 1
        BY <2>1, <4>1 DEF HandInv
      <4>3. i - 1 \in 1 .. Len(queue') /\ queue'[i - 1] = queue[i]
        BY <2>2, <4>1, <4>2
      <4> QED
        BY <1>0, <4>1, <4>3, ReadyLogsAre
    <3> QED
      BY <3>1, <3>2
  <2> QED
    BY <1>1, <2>1, <2>3, <2>4 DEF ConservedInv
<1>7. CASE HandleLog
  <2>1. /\ sinkOut' = Append(sinkOut, wItem) /\ UNCHANGED <<queue, accepted>>
        /\ wItem' = None /\ sinkOut \in Seq(Logs) /\ wItem \in Logs
    BY <1>7
       DEF HandleLog, WGo, logger, clientOwned, history, TypeInv, WorkerTypes, ItemPcs,
           Logs, Items
  <2>2. /\ LogInHand = {wItem} /\ LogInHand' = {}
        /\ Len(sinkOut') = Len(sinkOut) + 1 /\ Len(sinkOut) \in Nat
        /\ WrittenLogs' = WrittenLogs \cup {wItem}
    BY <1>7, <2>1 DEF HandleLog, LogInHand, WrittenLogs, Elements
  <2>3. ReadyLogs' = ReadyLogs
    BY <2>1 DEF ReadyLogs, Elements
  <2>4. wItem \notin WrittenLogs
    BY <2>1, <2>2 DEF OrderInv, Before, Logs
  <2>5. IsFiniteSet(WrittenLogs') /\ Cardinality(WrittenLogs') = Cardinality(WrittenLogs) + 1
    BY <2>2, <2>4, FS_AddElement DEF ConservedInv
  <2> QED
    BY <2>1, <2>2, <2>3, <2>5 DEF ConservedInv
<1>8. CASE NotifyFlushers
  <2>1. UNCHANGED <<queue, accepted, sinkOut>> /\ LogInHand = {} /\ LogInHand' = {}
    BY <1>8 DEF NotifyFlushers, WGo, HandInv, LogInHand, logger, history, sink
  <2>2. ReadyLogs' = ReadyLogs
    BY <2>1 DEF ReadyLogs, Elements
  <2> QED
    BY <1>1, <2>1, <2>2 DEF ConservedInv
<1> QED
  BY <1>2, <1>3, <1>4, <1>5, <1>6, <1>7, <1>8, LineStep DEF Moves

(***************************************************************************)
(* Flushes.                                                                *)
(***************************************************************************)

\* A step of one client leaves what the others recorded alone.
LEMMA OthersRecords ==
    ASSUME TypeInv, NEW t \in Clients, Call(t) \/ ClientStep(t)
    PROVE  \A u \in Clients \ {t} : result'[u] = result[u] /\ goal'[u] = goal[u]
<1> USE DEF TypeInv, ClientTypes, locals, history
<1>1. CASE Call(t)
  BY <1>1 DEF Call, CallRefused, StartLog, StartFlush, StartStop
<1>2. CASE ClientStep(t)
  BY <1>2
     DEF ClientStep, LogCheckFailed, LogCheckLevel, PublishCount, PublishCheckFailed,
     PublishReserve, PublishFull, PublishSlot, PublishUncount, PublishDrop, NotifySignal,
     NotifyOne, FinishOperation, FlushCheckJoinable, FlushCheckFailed, FlushTicket, FlushLoad,
     FlushCheckWorker, FlushWait, FlushResult, StopCheckJoinable, StopJoin, Jump
<1> QED
  BY <1>1, <1>2

\* The worker wakes flushers, and leaves everything else of the clients alone.
LEMMA WorkerSide ==
    ASSUME TypeInv,
           WorkerStep \/ SinkThrows \/ SpuriousWakeup \/ SetLevel \/ SetFlushLevel \/ UNCHANGED vars
    PROVE  /\ UNCHANGED <<requestTicket, item, result, goal, accepted>>
           /\ \A t \in Clients : pc'[t] = pc[t] \/ (pc[t] = "flushBlocked" /\ pc'[t] = "flushWait")
<1>1. CASE NotifyFlushers \/ FailNotify
  BY <1>1 DEF NotifyFlushers, FailNotify, WakeFlushers, totals, locals, history
<1>2. ASSUME WorkerStep \/ SinkThrows \/ SpuriousWakeup \/ SetLevel \/ SetFlushLevel
             \/ UNCHANGED vars, ~ NotifyFlushers, ~ FailNotify
      PROVE  UNCHANGED clientOwned
  BY <1>2
     DEF WorkerStep, TakeItem, ReleaseSlot, HandleLog, HandleFlush,
     RecheckFlush, DrainEnds, LevelFlush, AutoFlushDue, AutoFlushNotDue, CheckStop,
     FinalFlush, LoadSignal, RecheckEmpty, EvaluateWake, Sleep, WaitTimesOut, FailRecord,
     FailCloseGate, FailSetFlag, FailLoadTicket, FailStoreTicket, SinkThrows,
     SpuriousWakeup, SetLevel, SetFlushLevel, WJump, vars
<1> QED
  BY <1>1, <1>2 DEF clientOwned, totals, locals, history

\* Tickets are only added, and the completed one moves when a flush has been handled or
\* the worker has failed.
LEMMA TicketSide ==
    ASSUME TypeInv, FlagInv, [Next]_vars
    PROVE  /\ requestTicket' \in Nat /\ requestTicket <= requestTicket'
           /\ workerFailed => workerFailed'
           /\ \/ completeTicket' = completeTicket
              \/ HandleFlush
              \/ workerFailed
<1>1. ASSUME NEW t \in Clients, Call(t) \/ ClientStep(t)
      PROVE  requestTicket' \in Nat /\ requestTicket <= requestTicket'
  <2>1. CASE FlushTicket(t)
    BY <2>1 DEF FlushTicket, TypeInv, ClientTypes
  <2>2. CASE ~ FlushTicket(t)
    <3>1. requestTicket' = requestTicket
      BY <1>1, <2>2
         DEF Call, CallRefused, StartLog, StartFlush, StartStop, ClientStep,
             LogCheckFailed,
        LogCheckLevel, PublishCount, PublishCheckFailed, PublishReserve, PublishFull,
        PublishSlot, PublishUncount, PublishDrop, NotifySignal, NotifyOne, FinishOperation,
        FlushCheckJoinable, FlushCheckFailed, FlushLoad, FlushCheckWorker, FlushWait,
        FlushResult, StopCheckJoinable, StopJoin, Jump, totals
    <3> QED
      BY <3>1 DEF TypeInv, ClientTypes
  <2> QED
    BY <2>1, <2>2
<1>2. ASSUME NEW t \in Clients, Call(t) \/ ClientStep(t)
      PROVE  UNCHANGED <<completeTicket, workerFailed>>
  BY <1>2, ClientSide DEF outcome
<1>3. CASE WorkerStep \/ SinkThrows \/ SpuriousWakeup \/ SetLevel \/ SetFlushLevel \/ UNCHANGED vars
  <2>1. requestTicket' \in Nat /\ requestTicket <= requestTicket'
    BY <1>3, WorkerSide DEF TypeInv, ClientTypes
  <2>2. CASE FailStoreTicket
    BY <2>1, <2>2 DEF FailStoreTicket, WGo, FlagInv, FailingPcs
  <2>3. CASE ~ FailStoreTicket
    <3>1. (workerFailed => workerFailed') /\ (completeTicket' = completeTicket \/ HandleFlush)
      BY <1>3, <2>3
         DEF WorkerStep, TakeItem, ReleaseSlot, HandleLog, HandleFlush, NotifyFlushers,
         RecheckFlush, DrainEnds, LevelFlush, AutoFlushDue, AutoFlushNotDue, CheckStop,
         FinalFlush, LoadSignal, RecheckEmpty, EvaluateWake, Sleep, WaitTimesOut, FailRecord,
         FailCloseGate, FailSetFlag, FailLoadTicket, FailNotify, SinkThrows,
         SpuriousWakeup, SetLevel, SetFlushLevel, WJump, vars, workerOwned, outcome
    <3> QED
      BY <2>1, <3>1
  <2> QED
    BY <2>2, <2>3
<1> QED
  BY <1>1, <1>2, <1>3 DEF Next

\* Every ticket in the queue, in hand or completed has been requested.
LEMMA BoundNext ==
    ASSUME TypeInv, TypeInv', FlagInv, ItemOwnerInv, TicketInv, BoundInv, [Next]_vars
    PROVE  BoundInv'
<1>1. requestTicket \in Nat /\ requestTicket' \in Nat /\ requestTicket <= requestTicket'
  BY TicketSide DEF TypeInv, ClientTypes
<1>2. ~ workerFailed' => completeTicket' <= requestTicket'
  <2>1. CASE HandleFlush
    <3>1. completeTicket' = wItem.number /\ wItem # None /\ wItem.kind = "Flush"
      BY <2>1 DEF HandleFlush
    <3>2. wItem.number \in Nat
      BY <3>1 DEF TypeInv, WorkerTypes, Items
    <3> QED
      BY <1>1, <3>1, <3>2 DEF BoundInv
  <2>2. CASE ~ HandleFlush /\ ~ workerFailed'
    <3>1. completeTicket' = completeTicket /\ ~ workerFailed /\ completeTicket \in Nat
      BY <2>2, TicketSide DEF TypeInv, WorkerTypes
    <3> QED
      BY <1>1, <3>1 DEF BoundInv
  <2> QED
    BY <2>1, <2>2
<1>3. ASSUME NEW v \in Items, v.number <= requestTicket PROVE v.number <= requestTicket'
  <2>1. v.number \in Nat
    BY DEF Items
  <2> QED
    BY <1>1, <1>3, <2>1
<1>4. ASSUME \A i \in 1 .. Len(queue') : queue'[i].val.kind = "Flush" =>
                queue'[i].val \in Items /\ queue'[i].val.number <= requestTicket,
             wItem' \in {None, wItem} \/ (queue # <<>> /\ wItem' = queue[1].val)
      PROVE  BoundInv'
  <2>1. queue # <<>> => 1 \in 1 .. Len(queue) /\ queue[1].val \in Items
    BY SlotsAreTyped, EmptySeq
  <2>2. wItem' # None /\ wItem'.kind = "Flush" =>
            wItem' \in Items /\ wItem'.number <= requestTicket
    BY <1>4, <2>1 DEF BoundInv, TypeInv, WorkerTypes
  <2> QED
    BY <1>2, <1>3, <1>4, <2>2 DEF BoundInv
<1>5. \A i \in 1 .. Len(queue) : queue[i].val.kind = "Flush" =>
          queue[i].val \in Items /\ queue[i].val.number <= requestTicket
  BY SlotsAreTyped DEF BoundInv
<1>6. CASE Still
  BY <1>4, <1>5, <1>6 DEF Still
<1>7. ASSUME NEW t \in Clients, PublishReserve(t) PROVE BoundInv'
  <2>1. /\ Reserve(item[t]) /\ item[t] \in Items /\ wItem' = wItem
        /\ item[t].kind = "Flush" => item[t].number <= requestTicket
    BY <1>7, PublishedItem
       DEF PublishReserve, Go, PublishPcs, workerOwned, working, TicketInv, TicketOf
  <2>2. /\ Len(queue') = Len(queue) + 1 /\ Len(queue) \in Nat
        /\ \A i \in 1 .. Len(queue) : queue'[i] = queue[i]
        /\ queue'[Len(queue) + 1] = Slot(item[t], "reserved")
    BY <2>1, ReserveProperties, SlotsAreTyped
  <2>3. queue'[Len(queue) + 1].val = item[t]
    BY <2>2 DEF Slot
  <2>4. \A i \in 1 .. Len(queue') : i \in 1 .. Len(queue) \/ i = Len(queue) + 1
    BY <2>2
  <2> QED
    BY <1>4, <1>5, <2>1, <2>2, <2>3, <2>4
<1>8. ASSUME NEW t \in Clients, PublishSlot(t) PROVE BoundInv'
  <2>1. Publish(item[t]) /\ item[t] \in Items /\ wItem' = wItem
    BY <1>8, PublishedItem DEF PublishSlot, Go, PublishPcs, workerOwned, working
  <2>2. /\ Len(queue') = Len(queue)
        /\ \A i \in 1 .. Len(queue) :
              queue'[i] = IF queue[i].val = item[t] THEN Slot(item[t], "ready") ELSE queue[i]
    BY <2>1, PublishProperties, SlotsAreTyped
  <2>3. \A i \in 1 .. Len(queue) : queue'[i].val = queue[i].val
    BY <2>2 DEF Slot
  <2> QED
    BY <1>4, <1>5, <2>1, <2>2, <2>3
<1>9. CASE TakeItem
  <2>1. HeadReady /\ Take /\ wItem' = queue[1].val
    BY <1>9 DEF TakeItem
  <2>2. /\ Len(queue') = Len(queue)
        /\ queue'[1] = Slot(queue[1].val, "taken")
        /\ \A i \in 2 .. Len(queue) : queue'[i] = queue[i]
    BY <2>1, TakeProperties, SlotsAreTyped
  <2>3. \A i \in 1 .. Len(queue) : queue'[i].val = queue[i].val
    BY <2>2 DEF Slot
  <2> QED
    BY <1>4, <1>5, <2>1, <2>2, <2>3 DEF HeadReady
<1>10. CASE ReleaseSlot
  <2>1. Release /\ queue # <<>> /\ wItem' = wItem
    BY <1>10 DEF ReleaseSlot, WGo, TypeInv, SharedTypes, working
  <2>2. /\ Len(queue') = Len(queue) - 1 /\ Len(queue) \in Nat
        /\ \A i \in 1 .. Len(queue') : queue'[i] = queue[i + 1]
    BY <2>1, ReleaseProperties, SlotsAreTyped
  <2>3. \A i \in 1 .. Len(queue') : i + 1 \in 1 .. Len(queue)
    BY <2>2
  <2> QED
    BY <1>4, <1>5, <2>1, <2>2, <2>3
<1>11. CASE HandleLog \/ NotifyFlushers
  BY <1>4, <1>5, <1>11 DEF HandleLog, NotifyFlushers, logger
<1> QED
  BY <1>6, <1>7, <1>8, <1>9, <1>10, <1>11, LineStep DEF Moves

\* A call reports success only at its end, but for a log's publication.
LEMMA ResultNext ==
    ASSUME TypeInv, ResultInv, [Next]_vars
    PROVE  ResultInv'
<1>1. ASSUME NEW t \in Clients, Call(t) \/ ClientStep(t) PROVE ResultInv'
  <2>1. ASSUME NEW u \in Clients \ {t}, result'[u]
        PROVE  \/ pc'[u] = "finish"
               \/ pc'[u] \in {"publishSignal", "publishNotify"} /\ item'[u].kind = "Log"
    BY <1>1, <2>1, OthersStep, OthersRecords DEF OthersUnchanged, ResultInv
  <2>2. ASSUME result'[t]
        PROVE  \/ pc'[t] = "finish"
               \/ pc'[t] \in {"publishSignal", "publishNotify"} /\ item'[t].kind = "Log"
    <3>1. CASE PublishSlot(t)
      BY <2>2, <3>1 DEF PublishSlot, Go, isLog, TypeInv, ClientTypes
    <3>2. CASE FlushResult(t)
      BY <3>2 DEF FlushResult, Go, TypeInv, ClientTypes
    <3>3. CASE FinishOperation(t)
      BY <2>2, <3>3 DEF FinishOperation, TypeInv, ClientTypes
    <3>4. CASE NotifySignal(t)
      BY <2>2, <3>4 DEF NotifySignal, Go, locals, ResultInv, TypeInv, ClientTypes
    <3>5. CASE NotifyOne(t)
      BY <2>2, <3>5 DEF NotifyOne, Go, isLog, locals, ResultInv, TypeInv, ClientTypes
    <3>6. CASE ~ \/ PublishSlot(t) \/ FlushResult(t) \/ FinishOperation(t) \/ NotifySignal(t)
                 \/ NotifyOne(t)
      <4>1. result' = result /\ pc[t] \notin {"publishSignal", "publishNotify", "finish"}
        BY <1>1, <3>6
           DEF Call, CallRefused, StartLog, StartFlush, StartStop, ClientStep,
           LogCheckFailed, LogCheckLevel, PublishCount, PublishCheckFailed, PublishReserve,
           PublishFull, PublishUncount, PublishDrop, FlushCheckJoinable, FlushCheckFailed,
           FlushTicket, FlushLoad, FlushCheckWorker, FlushWait, StopCheckJoinable, StopJoin,
           Jump, Go, locals
      <4> QED
        BY <2>2, <4>1 DEF ResultInv
    <3> QED
      BY <3>1, <3>2, <3>3, <3>4, <3>5, <3>6
  <2> QED
    BY <2>1, <2>2 DEF ResultInv
<1>2. CASE WorkerStep \/ SinkThrows \/ SpuriousWakeup \/ SetLevel \/ SetFlushLevel \/ UNCHANGED vars
  BY <1>2, WorkerSide DEF ResultInv
<1> QED
  BY <1>1, <1>2 DEF Next

(***************************************************************************)
(* Goals.                                                                  *)
(***************************************************************************)

\* Logs ahead of an item, and written ones, stay so.
LEMMA LineGrows ==
    ASSUME TypeInv, ItemOwnerInv, HandInv, [Next]_vars
    PROVE  /\ \A m \in Logs : m \in Ahead(Len(queue) + 1) => m \in Ahead(Len(queue) + 1)'
           /\ \A i \in 1 .. Len(queue') : queue'[i].val.kind = "Flush" =>
                 \/ \E k \in 1 .. Len(queue) :
                       /\ queue'[i].val = queue[k].val
                       /\ \A m \in Logs : m \in Ahead(k) => m \in Ahead(i)'
                 \/ \A m \in Logs : m \in Ahead(Len(queue) + 1) => m \in Ahead(i)'
           /\ WrittenLogs \subseteq WrittenLogs'
           /\ wItem' # None => \/ wItem' = wItem
                               \/ /\ queue # <<>> /\ wItem' = queue[1].val
                                  /\ Ahead(1) \subseteq WrittenLogs
<1> DEFINE Grows ==
              /\ \A m \in Logs : m \in Ahead(Len(queue) + 1) => m \in Ahead(Len(queue) + 1)'
              /\ \A i \in 1 .. Len(queue') : queue'[i].val.kind = "Flush" =>
                    \/ \E k \in 1 .. Len(queue) :
                          /\ queue'[i].val = queue[k].val
                          /\ \A m \in Logs : m \in Ahead(k) => m \in Ahead(i)'
                    \/ \A m \in Logs : m \in Ahead(Len(queue) + 1) => m \in Ahead(i)'
              /\ WrittenLogs \subseteq WrittenLogs'
              /\ wItem' # None => \/ wItem' = wItem
                                  \/ /\ queue # <<>> /\ wItem' = queue[1].val
                                     /\ Ahead(1) \subseteq WrittenLogs
<1> SUFFICES Grows
  OBVIOUS
<1>0. Len(queue) \in Nat /\ \A i \in 1 .. Len(queue) : i - 1 \in Nat /\ i - 1 < Len(queue)
  BY SlotsAreTyped
<1>1. ASSUME Len(queue') = Len(queue),
             \A i \in 1 .. Len(queue) : queue'[i].val = queue[i].val,
             WrittenLogs \cup LogInHand \subseteq WrittenLogs' \cup LogInHand',
             WrittenLogs \subseteq WrittenLogs',
             wItem' # None => \/ wItem' = wItem
                              \/ /\ queue # <<>> /\ wItem' = queue[1].val
                                 /\ Ahead(1) \subseteq WrittenLogs
      PROVE  Grows
  <2>1. \A k \in 1 .. Len(queue) + 1 : \A j \in 1 .. (k - 1) : j \in 1 .. Len(queue)
    BY <1>0
  <2>2. ASSUME NEW k \in 1 .. Len(queue) + 1, NEW m, m \in Ahead(k) PROVE m \in Ahead(k)'
    BY <1>1, <2>1, <2>2 DEF Ahead
  <2>3. Len(queue) + 1 \in 1 .. Len(queue) + 1
    BY <1>0
  <2>4. \A i \in 1 .. Len(queue) : i \in 1 .. Len(queue) + 1
    BY <1>0
  <2>5. ASSUME NEW m, m \in Ahead(Len(queue) + 1) PROVE m \in Ahead(Len(queue) + 1)'
    BY <1>1, <2>1, <2>3, <2>5 DEF Ahead
  <2> QED
    BY <1>1, <2>2, <2>4, <2>5
<1>2. CASE Still
  <2>1. LogInHand' = LogInHand /\ WrittenLogs' = WrittenLogs
    BY <1>2 DEF Still, LogInHand, WrittenLogs, Elements
  <2> QED
    BY <1>1, <1>2, <2>1 DEF Still
<1>3. ASSUME NEW t \in Clients, PublishReserve(t) PROVE Grows
  <2>1. Reserve(item[t]) /\ item[t] \in Items /\ UNCHANGED <<sinkOut, wItem>>
    BY <1>3, PublishedItem
       DEF PublishReserve, Go, PublishPcs, workerOwned, working, sink
  <2>2. /\ Len(queue') = Len(queue) + 1
        /\ \A i \in 1 .. Len(queue) : queue'[i] = queue[i]
    BY <2>1, ReserveProperties, SlotsAreTyped
  <2>3. LogInHand' = LogInHand /\ WrittenLogs' = WrittenLogs
    BY <2>1 DEF LogInHand, WrittenLogs, Elements
  <2>4. \A k \in 1 .. Len(queue) + 1 : \A j \in 1 .. (k - 1) : j \in 1 .. Len(queue)
    BY <1>0
  <2>5. ASSUME NEW k \in 1 .. Len(queue) + 1, NEW m, m \in Ahead(k) PROVE m \in Ahead(k)'
    BY <2>2, <2>3, <2>4, <2>5 DEF Ahead
  <2>6. ASSUME NEW m, m \in Ahead(Len(queue) + 1) PROVE m \in Ahead(Len(queue) + 1)'
    <3>1. \A j \in 1 .. (Len(queue) + 1 - 1) : j \in 1 .. Len(queue)
                                               /\ j \in 1 .. (Len(queue') + 1 - 1)
      BY <1>0, <2>2
    <3> QED
      BY <2>2, <2>3, <2>6, <3>1 DEF Ahead
  <2>7. ASSUME NEW i \in 1 .. Len(queue')
        PROVE  \/ \E k \in 1 .. Len(queue) :
                     /\ queue'[i].val = queue[k].val
                     /\ \A m \in Logs : m \in Ahead(k) => m \in Ahead(i)'
               \/ \A m \in Logs : m \in Ahead(Len(queue) + 1) => m \in Ahead(i)'
    <3>1. CASE i \in 1 .. Len(queue)
      <4>1. i \in 1 .. Len(queue) + 1 /\ queue'[i].val = queue[i].val
        BY <1>0, <2>2, <3>1
      <4> QED
        BY <2>5, <3>1, <4>1
    <3>2. CASE i = Len(queue) + 1
      <4>1. ASSUME NEW m, m \in Ahead(Len(queue) + 1) PROVE m \in Ahead(i)'
        <5>1. \A j \in 1 .. (Len(queue) + 1 - 1) : j \in 1 .. Len(queue) /\ j \in 1 .. (i - 1)
          BY <1>0, <3>2
        <5> QED
          BY <2>2, <2>3, <4>1, <5>1 DEF Ahead
      <4> QED
        BY <4>1
    <3> QED
      BY <1>0, <2>2, <3>1, <3>2
  <2> QED
    BY <2>1, <2>3, <2>6, <2>7
<1>4. ASSUME NEW t \in Clients, PublishSlot(t) PROVE Grows
  <2>1. Publish(item[t]) /\ item[t] \in Items /\ UNCHANGED <<sinkOut, wItem>>
    BY <1>4, PublishedItem
       DEF PublishSlot, Go, PublishPcs, workerOwned, working, sink
  <2>2. /\ Len(queue') = Len(queue)
        /\ \A i \in 1 .. Len(queue) :
              queue'[i] = IF queue[i].val = item[t] THEN Slot(item[t], "ready") ELSE queue[i]
    BY <2>1, PublishProperties, SlotsAreTyped
  <2>3. \A i \in 1 .. Len(queue) : queue'[i].val = queue[i].val
    BY <2>2 DEF Slot
  <2>4. LogInHand' = LogInHand /\ WrittenLogs' = WrittenLogs
    BY <2>1 DEF LogInHand, WrittenLogs, Elements
  <2> QED
    BY <1>1, <2>1, <2>2, <2>3, <2>4
<1>5. CASE TakeItem
  <2>1. /\ HeadReady /\ Take /\ wItem' = queue[1].val /\ wpc \notin Holding
        /\ sinkOut' = sinkOut
    BY <1>5 DEF TakeItem, WGo, sink, Holding, ItemPcs, FailPcs
  <2>2. /\ Len(queue') = Len(queue)
        /\ queue'[1] = Slot(queue[1].val, "taken")
        /\ \A i \in 2 .. Len(queue) : queue'[i] = queue[i]
    BY <2>1, TakeProperties, SlotsAreTyped
  <2>3. \A i \in 1 .. Len(queue) : queue'[i].val = queue[i].val
    BY <2>2 DEF Slot
  <2>4. LogInHand = {} /\ WrittenLogs' = WrittenLogs
    BY <2>1 DEF HandInv, LogInHand, WrittenLogs, Elements
  <2>5. Ahead(1) \subseteq WrittenLogs
    BY <2>4 DEF Ahead
  <2> QED
    BY <1>1, <2>1, <2>2, <2>3, <2>4, <2>5 DEF HeadReady
<1>6. CASE ReleaseSlot
  <2>1. /\ Release /\ queue # <<>> /\ wpc = "release" /\ UNCHANGED <<sinkOut, wItem>>
        /\ queue[1].val = wItem /\ wItem # None
    BY <1>6, NoneAssumption
       DEF ReleaseSlot, WGo, TypeInv, SharedTypes, WorkerTypes, ItemPcs, sink, working,
           HandInv
  <2>2. /\ Len(queue') = Len(queue) - 1
        /\ \A i \in 1 .. Len(queue') : queue'[i] = queue[i + 1]
    BY <2>1, ReleaseProperties, SlotsAreTyped
  <2>3. LogInHand' = LogInHand /\ WrittenLogs' = WrittenLogs
    BY <2>1 DEF LogInHand, WrittenLogs, Elements
  <2>4. ASSUME NEW k \in 1 .. Len(queue'), NEW m \in Logs, m \in Ahead(k + 1)
        PROVE  m \in Ahead(k)'
    <3>1. ASSUME NEW j \in 1 .. (k + 1 - 1), m = queue[j].val PROVE m \in Ahead(k)'
      <4>1. CASE j = 1
        BY <2>1, <2>3, <3>1, <4>1 DEF LogInHand, Logs, Ahead
      <4>2. CASE j # 1
        <5>1. j - 1 \in 1 .. (k - 1) /\ j - 1 \in 1 .. Len(queue') /\ queue'[j - 1] = queue[j]
          BY <1>0, <2>2, <4>2
        <5> QED
          BY <3>1, <5>1 DEF Ahead
      <4> QED
        BY <4>1, <4>2
    <3> QED
      BY <2>3, <2>4, <3>1 DEF Ahead
  <2>5. ASSUME NEW m \in Logs, m \in Ahead(Len(queue) + 1)
        PROVE  m \in Ahead(Len(queue) + 1)'
    <3>1. ASSUME NEW j \in 1 .. (Len(queue) + 1 - 1), m = queue[j].val
          PROVE  m \in Ahead(Len(queue) + 1)'
      <4>1. CASE j = 1
        BY <2>1, <2>3, <3>1, <4>1 DEF LogInHand, Logs, Ahead
      <4>2. CASE j # 1
        <5>1. j - 1 \in 1 .. (Len(queue') + 1 - 1) /\ j - 1 \in 1 .. Len(queue')
              /\ queue'[j - 1] = queue[j]
          BY <1>0, <2>2, <4>2
        <5> QED
          BY <3>1, <5>1 DEF Ahead
      <4> QED
        BY <4>1, <4>2
    <3> QED
      BY <2>3, <2>5, <3>1 DEF Ahead
  <2>6. \A i \in 1 .. Len(queue') : i + 1 \in 1 .. Len(queue)
    BY <1>0, <2>2
  <2> QED
    BY <2>1, <2>2, <2>3, <2>4, <2>5, <2>6
<1>7. CASE HandleLog
  <2>1. /\ sinkOut' = Append(sinkOut, wItem) /\ queue' = queue
        /\ wItem' = None /\ sinkOut \in Seq(Logs) /\ wItem \in Logs
    BY <1>7 DEF HandleLog, WGo, logger, TypeInv, WorkerTypes, ItemPcs, Logs, Items
  <2>2. /\ LogInHand = {wItem} /\ WrittenLogs' = WrittenLogs \cup {wItem}
    BY <1>7, <2>1 DEF HandleLog, LogInHand, WrittenLogs, Elements
  <2> QED
    BY <1>1, <2>1, <2>2
<1>8. CASE NotifyFlushers
  <2>1. UNCHANGED <<queue, sinkOut>> /\ wItem' = None /\ LogInHand = {}
    BY <1>8 DEF NotifyFlushers, WGo, HandInv, LogInHand, logger, sink
  <2>2. WrittenLogs' = WrittenLogs
    BY <2>1 DEF WrittenLogs, Elements
  <2> QED
    BY <1>1, <2>1, <2>2
<1> QED
  BY <1>2, <1>3, <1>4, <1>5, <1>6, <1>7, <1>8, LineStep DEF Moves

\* What is durable stays so.
LEMMA DurableGrows ==
    ASSUME TypeInv, TypeInv', [Next]_vars
    PROVE  DurableLogs \subseteq DurableLogs'
<1>0. /\ durable \in Nat /\ Len(sinkOut) \in Nat /\ durable <= Len(sinkOut)
      /\ durable' \in Nat /\ sinkOut \in Seq(Logs)
  BY DEF TypeInv, WorkerTypes
<1>1. ASSUME durable <= durable', \A i \in 1 .. durable : sinkOut'[i] = sinkOut[i]
      PROVE  DurableLogs \subseteq DurableLogs'
  <2>1. \A i \in 1 .. durable : i \in 1 .. durable'
    BY <1>0, <1>1
  <2> QED
    BY <1>1, <2>1 DEF DurableLogs
<1>2. CASE HandleLog
  <2>1. /\ sinkOut' = Append(sinkOut, wItem) /\ durable' = durable /\ wItem \in Logs
    BY <1>2 DEF HandleLog, WGo, TypeInv, WorkerTypes, ItemPcs, Logs, Items
  <2>2. \A i \in 1 .. durable : i \in 1 .. Len(sinkOut)
    BY <1>0
  <2> QED
    BY <1>0, <1>1, <2>1, <2>2
<1>3. CASE HandleFlush \/ RecheckFlush \/ LevelFlush \/ AutoFlushDue \/ FinalFlush
  <2>1. sinkOut' = sinkOut /\ durable' = Len(sinkOut)
    BY <1>3
       DEF HandleFlush, RecheckFlush, LevelFlush, AutoFlushDue, FinalFlush, SinkFlush
  <2> QED
    BY <1>0, <1>1, <2>1
<1>4. ASSUME NEW t \in Clients, Call(t) \/ ClientStep(t) PROVE UNCHANGED sink
  BY <1>4, ClientSide DEF sink
<1>5. CASE \/ TakeItem \/ ReleaseSlot \/ NotifyFlushers \/ DrainEnds \/ AutoFlushNotDue
           \/ CheckStop \/ LoadSignal \/ RecheckEmpty \/ EvaluateWake \/ Sleep
           \/ WaitTimesOut \/ FailRecord \/ FailCloseGate \/ FailSetFlag \/ FailLoadTicket
           \/ FailStoreTicket \/ FailNotify \/ SinkThrows \/ SpuriousWakeup \/ SetLevel
           \/ SetFlushLevel \/ UNCHANGED vars
  <2>1. UNCHANGED sink
    BY <1>5
       DEF TakeItem, ReleaseSlot, NotifyFlushers, DrainEnds, AutoFlushNotDue, CheckStop,
           LoadSignal, RecheckEmpty, EvaluateWake, Sleep, WaitTimesOut, FailRecord,
           FailCloseGate, FailSetFlag, FailLoadTicket, FailStoreTicket, FailNotify,
           SinkThrows, SpuriousWakeup, SetLevel, SetFlushLevel, WJump, vars, workerOwned
  <2> QED
    BY <2>1 DEF sink, DurableLogs
<1>6. UNCHANGED sink => DurableLogs' = DurableLogs
  BY DEF sink, DurableLogs
<1> QED
  BY <1>2, <1>3, <1>4, <1>5, <1>6 DEF Next, WorkerStep

\* A flush keeps its ticket and its goal until it is over.
LEMMA GoalSide ==
    ASSUME TypeInv, ResultInv, [Next]_vars, NEW t \in Clients, ~ FlushTicket(t)
    PROVE  /\ HasTicket(t)' => HasTicket(t) /\ item'[t] = item[t] /\ goal'[t] = goal[t]
           /\ pc'[t] = "flushResult" =>
                 /\ goal'[t] = goal[t]
                 /\ \/ pc[t] = "flushResult"
                    \/ HasTicket(t) /\ item[t].number <= completeTicket
           /\ result'[t] /\ item'[t].kind = "Flush" =>
                 /\ goal'[t] = goal[t]
                 /\ \/ pc[t] = "flushResult" /\ ~ workerFailed
                    \/ result[t] /\ item[t].kind = "Flush"
<1> DEFINE Kept == /\ HasTicket(t)' => HasTicket(t) /\ item'[t] = item[t] /\ goal'[t] = goal[t]
                   /\ pc'[t] = "flushResult" =>
                         /\ goal'[t] = goal[t]
                         /\ \/ pc[t] = "flushResult"
                            \/ HasTicket(t) /\ item[t].number <= completeTicket
                   /\ result'[t] /\ item'[t].kind = "Flush" =>
                         /\ goal'[t] = goal[t]
                         /\ \/ pc[t] = "flushResult" /\ ~ workerFailed
                            \/ result[t] /\ item[t].kind = "Flush"
<1> SUFFICES Kept
  OBVIOUS
<1>1. ASSUME NEW u \in Clients, u # t, Call(u) \/ ClientStep(u) PROVE Kept
  BY <1>1, OthersStep, OthersRecords DEF OthersUnchanged, HasTicket
<1>2. CASE WorkerStep \/ SinkThrows \/ SpuriousWakeup \/ SetLevel \/ SetFlushLevel \/ UNCHANGED vars
  BY <1>2, WorkerSide DEF HasTicket, FlushItemPcs, PublishPcs
<1>3. CASE Call(t) \/ ClientStep(t)
  <2> USE DEF TypeInv, ClientTypes, HasTicket, FlushItemPcs, PublishPcs
  <2>1. CASE StartLog(t) \/ FinishOperation(t)
    BY <2>1 DEF StartLog, FinishOperation, Go, history, ResultInv
  <2>2. CASE PublishCount(t)
    BY <2>2 DEF PublishCount, Go, FitsAt, LogPcs, Logs, locals, history
  <2>3. CASE FlushLoad(t)
    <3>1. /\ pc[t] = "flushLoad"
          /\ pc'[t] = IF completeTicket < item[t].number THEN "flushCheck" ELSE "flushResult"
          /\ UNCHANGED <<item, goal, result>>
      BY <2>3 DEF FlushLoad, Go, history
    <3>2. item[t].kind = "Flush" /\ item[t].number \in Nat
      BY <3>1 DEF FitsAt, Items
    <3>3. completeTicket \in Nat
      BY DEF WorkerTypes
    <3>4. completeTicket < item[t].number \/ item[t].number <= completeTicket
      BY <3>2, <3>3
    <3>5. HasTicket(t) /\ (pc'[t] = "flushResult" => item[t].number <= completeTicket)
      BY <3>1, <3>2, <3>4
    <3> QED
      BY <3>1, <3>5
  <2>4. CASE FlushResult(t)
    BY <2>4 DEF FlushResult, Go, history
  <2>5. CASE PublishSlot(t)
    BY <2>5 DEF PublishSlot, Go, isLog
  <2>6. CASE NotifyOne(t)
    BY <2>6 DEF NotifyOne, Go, isLog, locals, history
  <2>7. CASE ~ \/ StartLog(t) \/ FinishOperation(t) \/ PublishCount(t) \/ FlushLoad(t)
               \/ FlushResult(t) \/ PublishSlot(t) \/ NotifyOne(t)
    <3>1. /\ item' = item /\ goal' = goal /\ result' = result /\ pc'[t] # "flushResult"
          /\ pc'[t] \in PublishPcs \cup FlushItemPcs => pc[t] \in PublishPcs \cup FlushItemPcs
      BY <1>3, <2>7
         DEF Call, CallRefused, StartFlush, StartStop, ClientStep,
         LogCheckFailed, LogCheckLevel, PublishCheckFailed, PublishReserve,
         PublishFull, PublishUncount, PublishDrop, NotifySignal, FlushCheckJoinable,
         FlushCheckFailed, FlushCheckWorker, FlushWait, StopCheckJoinable, StopJoin,
         Jump, Go, locals, history
    <3> QED
      BY <3>1
  <2> QED
    BY <1>3, <2>1, <2>2, <2>3, <2>4, <2>5, <2>6, <2>7
<1> QED
  BY <1>1, <1>2, <1>3 DEF Next

\* A flush that takes its ticket finds every log in place ahead of the end of the queue,
\* and no other flush with a ticket as late.
LEMMA GoalBegins ==
    ASSUME TypeInv, TypeInv', SlotInv, ConservedInv, BoundInv, ResultInv,
           NEW t \in Clients, FlushTicket(t)
    PROVE  GoalOf(t)'
<1>1. /\ pc[t] = "flushTicket" /\ pc'[t] = "publishFailed"
      /\ item'[t] = FlushItem(t, requestTicket + 1)
      /\ goal'[t] = accepted \cup ReservedLogs
      /\ UNCHANGED <<queue, sinkOut, durable, wItem, workerFailed, completeTicket, result>>
  BY DEF FlushTicket, Go, TypeInv, ClientTypes, logger, workerOwned, sink, outcome,
         working
<1>2. item'[t].number = requestTicket + 1 /\ requestTicket \in Nat
  BY <1>1 DEF FlushItem, TypeInv, ClientTypes
<1>3. LogInHand' = LogInHand /\ WrittenLogs' = WrittenLogs
  BY <1>1 DEF LogInHand, WrittenLogs, Elements
<1>4. goal'[t] \subseteq Ahead(Len(queue) + 1)'
  <2>1. ASSUME NEW m \in ReadyLogs \cup ReservedLogs
        PROVE  \E j \in 1 .. (Len(queue) + 1 - 1) : m = queue[j].val
    <3>1. PICK j \in 1 .. Len(queue) : m = queue[j].val
      BY <2>1 DEF ReadyLogs, ReservedLogs, Elements
    <3>2. j \in 1 .. (Len(queue) + 1 - 1)
      BY SlotsAreTyped
    <3> QED
      BY <3>1, <3>2
  <2>2. Ahead(Len(queue) + 1)' =
            WrittenLogs \cup LogInHand \cup { queue[j].val : j \in 1 .. (Len(queue) + 1 - 1) }
    BY <1>1, <1>3 DEF Ahead
  <2> QED
    BY <1>1, <2>1, <2>2 DEF ConservedInv
<1>5. ASSUME NEW i \in 1 .. Len(queue), queue[i].val.kind = "Flush"
      PROVE  ~ item'[t].number <= queue[i].val.number
  BY <1>2, <1>5, SlotsAreTyped DEF BoundInv
<1>6. wItem # None /\ wItem.kind = "Flush" => ~ item'[t].number <= wItem.number
  <2>1. wItem # None => wItem.number \in Nat
    BY DEF TypeInv, WorkerTypes, Items
  <2> QED
    BY <1>2, <2>1 DEF BoundInv
<1>7. ~ workerFailed => ~ item'[t].number <= completeTicket
  BY <1>2 DEF BoundInv, TypeInv, WorkerTypes
<1>8. ~ result'[t]
  BY <1>1 DEF ResultInv
<1> QED
  BY <1>1, <1>4, <1>5, <1>6, <1>7, <1>8 DEF GoalOf

\* A flush that goes on keeps what it waits for ahead of every later ticket.
LEMMA GoalGoesOn ==
    ASSUME TypeInv, TypeInv', FlagInv, ItemOwnerInv, HandInv, ResultInv, [Next]_vars,
           NEW t \in Clients, GoalOf(t), ~ FlushTicket(t)
    PROVE  GoalOf(t)'
<1>1. goal[t] \subseteq Logs
  BY DEF TypeInv, ClientTypes
<1>2. CASE HasTicket(t)'
  <2>1. HasTicket(t) /\ item'[t] = item[t] /\ goal'[t] = goal[t]
    BY <1>2, GoalSide
  <2>2. goal[t] \subseteq Ahead(Len(queue) + 1)'
    BY <1>1, <2>1, LineGrows DEF GoalOf
  <2>3. ASSUME NEW i \in 1 .. Len(queue'), queue'[i].val.kind = "Flush",
               item[t].number <= queue'[i].val.number
        PROVE  goal[t] \subseteq Ahead(i)'
    <3>1. CASE \E k \in 1 .. Len(queue) :
                  /\ queue'[i].val = queue[k].val
                  /\ \A m \in Logs : m \in Ahead(k) => m \in Ahead(i)'
      <4>1. PICK k \in 1 .. Len(queue) :
                  /\ queue'[i].val = queue[k].val
                  /\ \A m \in Logs : m \in Ahead(k) => m \in Ahead(i)'
        BY <3>1
      <4>2. goal[t] \subseteq Ahead(k)
        BY <2>1, <2>3, <4>1 DEF GoalOf
      <4> QED
        BY <1>1, <4>1, <4>2
    <3>2. CASE \A m \in Logs : m \in Ahead(Len(queue) + 1) => m \in Ahead(i)'
      BY <1>1, <2>1, <3>2 DEF GoalOf
    <3> QED
      BY <2>3, <3>1, <3>2, LineGrows
  <2>4. ASSUME wItem' # None, wItem'.kind = "Flush", item[t].number <= wItem'.number
        PROVE  goal[t] \subseteq WrittenLogs'
    <3>1. goal[t] \subseteq WrittenLogs
      <4>1. CASE wItem' = wItem
        BY <2>1, <2>4, <4>1 DEF GoalOf
      <4>2. CASE queue # <<>> /\ wItem' = queue[1].val /\ Ahead(1) \subseteq WrittenLogs
        <5>1. 1 \in 1 .. Len(queue)
          BY <4>2, SlotsAreTyped, EmptySeq
        <5> QED
          BY <2>1, <2>4, <4>2, <5>1 DEF GoalOf
      <4> QED
        BY <2>4, <4>1, <4>2, LineGrows
    <3> QED
      BY <3>1, LineGrows
  <2>5. ASSUME ~ workerFailed', item[t].number <= completeTicket'
        PROVE  goal[t] \subseteq DurableLogs'
    <3>1. CASE completeTicket' = completeTicket
      BY <2>1, <2>5, <3>1, TicketSide, DurableGrows DEF GoalOf
    <3>2. CASE HandleFlush
      <4>1. /\ wItem # None /\ wItem.kind = "Flush" /\ completeTicket' = wItem.number
            /\ durable' = Len(sinkOut) /\ sinkOut' = sinkOut
        BY <3>2 DEF HandleFlush, SinkFlush
      <4>2. goal[t] \subseteq WrittenLogs
        BY <2>1, <2>5, <4>1 DEF GoalOf
      <4> QED
        BY <4>1, <4>2 DEF WrittenLogs, Elements, DurableLogs
    <3> QED
      BY <2>5, <3>1, <3>2, TicketSide
  <2>6. ~ result'[t] \/ item'[t].kind # "Flush" \/ goal'[t] \subseteq DurableLogs'
    BY GoalSide, DurableGrows DEF GoalOf
  <2>7. pc'[t] = "flushResult" /\ ~ workerFailed' => goal'[t] \subseteq DurableLogs'
    BY GoalSide, DurableGrows, TicketSide DEF GoalOf
  <2> QED
    BY <2>1, <2>2, <2>3, <2>4, <2>5, <2>6, <2>7 DEF GoalOf
<1>3. CASE ~ HasTicket(t)'
  <2>1. ~ result'[t] \/ item'[t].kind # "Flush" \/ goal'[t] \subseteq DurableLogs'
    BY GoalSide, DurableGrows DEF GoalOf
  <2>2. pc'[t] = "flushResult" /\ ~ workerFailed' => goal'[t] \subseteq DurableLogs'
    BY GoalSide, DurableGrows, TicketSide DEF GoalOf
  <2> QED
    BY <1>3, <2>1, <2>2 DEF GoalOf
<1> QED
  BY <1>2, <1>3

(***************************************************************************)
(* The theorems.                                                           *)
(***************************************************************************)

\* The line is empty initially,
LEMMA DeliveryInit == Init => DeliveryInv
<1> SUFFICES ASSUME Init PROVE DeliveryInv
  OBVIOUS
<1>1. /\ queue = <<>> /\ sinkOut = <<>> /\ wItem = None /\ accepted = {}
      /\ Len(queue) = 0 /\ Len(sinkOut) = 0
  BY EmptySeq DEF Init
<1>2. WrittenLogs = {} /\ LogInHand = {} /\ ReadyLogs = {}
  BY <1>1 DEF WrittenLogs, LogInHand, ReadyLogs, Elements
<1>3. HandInv /\ ReservedInv /\ LatestInv
  BY <1>1 DEF Init, HandInv, ReservedInv, LatestInv, FreshPcs
<1>4. OrderInv
  BY <1>1, <1>2 DEF OrderInv, ProducerOrder
<1>5. ConservedInv
  BY <1>1, <1>2, FS_EmptySet DEF ConservedInv
<1>6. BoundInv /\ ResultInv
  BY <1>1 DEF Init, BoundInv, ResultInv
<1>7. GoalInv
  BY DEF Init, GoalInv, GoalOf, HasTicket, PublishPcs, FlushItemPcs
<1> QED
  BY <1>3, <1>4, <1>5, <1>6, <1>7 DEF DeliveryInv

\* and every step preserves what is said of it.
LEMMA DeliveryNext == IInv /\ DeliveryInv /\ [Next]_vars => DeliveryInv'
<1> SUFFICES ASSUME IInv, DeliveryInv, [Next]_vars PROVE DeliveryInv'
  OBVIOUS
<1>1. TypeInv /\ TypeInv' /\ FlagInv /\ ItemOwnerInv /\ SlotInv /\ TicketInv /\ StatsInv
  BY TypeNext DEF IInv
<1>2. GoalInv'
  BY <1>1, GoalBegins, GoalGoesOn DEF DeliveryInv, GoalInv
<1> QED
  BY <1>1, <1>2, HandNext, ReservedNext, LatestNext, OrderNext, ConservedNext, BoundNext,
     ResultNext DEF DeliveryInv

\* The line of logs is in order in every reachable state.
THEOREM DeliveryInvariant == Spec => [](IInv /\ DeliveryInv)
BY InvInit, InvNext, DeliveryInit, DeliveryNext, PTL DEF Spec

\* A log whose TryEnqueue succeeded is in the queue, in the worker's hand or, once, in the
\* sink, and in no two of them, for any number of producers (Publish, WorkerLoop).
THEOREM ConservationTheorem == Spec => []AcceptedLogsAreConserved
<1>1. IInv /\ DeliveryInv => AcceptedLogsAreConserved
  <2> SUFFICES ASSUME IInv, DeliveryInv PROVE AcceptedLogsAreConserved
    OBVIOUS
  <2>1. TypeInv
    BY DEF IInv
  <2>2. ASSUME NEW m \in ReadyLogs PROVE m \notin LogInHand /\ m \notin WrittenLogs
    <3>1. PICK i \in 1 .. Len(queue) :
             queue[i].val = m /\ queue[i].state = "ready" /\ m.kind = "Log"
      BY DEF ReadyLogs, Elements
    <3>2. m.number \in Nat
      BY <2>1, <3>1, SlotsAreTyped
    <3>3. ~ Before(m, m)
      BY <3>2 DEF Before
    <3>4. m \in LogInHand => ~ InHandAt(i)
      BY <3>1, NoneAssumption DEF LogInHand, InHandAt, DeliveryInv, HandInv
    <3> QED
      BY <3>1, <3>3, <3>4 DEF DeliveryInv, OrderInv, IsLogAt
  <2>3. ASSUME NEW m \in LogInHand PROVE m \notin WrittenLogs
    <3>1. m \in Items
      BY <2>1 DEF LogInHand, TypeInv, WorkerTypes
    <3>2. ~ Before(m, m)
      BY <3>1 DEF Before, Items
    <3> QED
      BY <3>2 DEF DeliveryInv, OrderInv
  <2> QED
    BY <2>2, <2>3 DEF AcceptedLogsAreConserved, DeliveryInv, ConservedInv
<1> QED
  BY <1>1, DeliveryInvariant, PTL

\* The sink gets the logs of each client in the order of the calls (TryEnqueue,
\* TryDequeue, HandleItem).
THEOREM OrderTheorem == Spec => []ProducerOrder
<1>1. DeliveryInv => ProducerOrder
  BY DEF DeliveryInv, OrderInv
<1> QED
  BY <1>1, DeliveryInvariant, PTL

\* A Flush that returns true has made durable what was in place before it took its
\* ticket, whichever flush's completion released it (Flush, HandleItem).
THEOREM FlushTheorem == Spec => []FlushMakesDurable
<1>1. DeliveryInv => FlushMakesDurable
  BY DEF DeliveryInv, GoalInv, GoalOf, FlushMakesDurable, DurableLogs
<1> QED
  BY <1>1, DeliveryInvariant, PTL
===============================================================================
