---------------------- MODULE AsyncLoggerRefinementProofs ----------------------
(***************************************************************************)
(* The logger implements what it promises: its queue is the one            *)
(* ReservationQueue describes, used by one consumer, and to its callers it *)
(* is the logger LoggerPromise describes.  Every step maps to a step of    *)
(* those modules, or to none, for every number of clients, calls and slots *)
(* and for every sink.                                                     *)
(***************************************************************************)
EXTENDS AsyncLoggerOrderProofs, WellFoundedInduction

(***************************************************************************)
(* Calls: there are finitely many, and every ticket belongs to one.        *)
(***************************************************************************)

\* An element of CallIds is a client and the number of one of its calls.
LEMMA CallIdsAre ==
    \A c : c \in CallIds <=> \E t \in Clients : \E n \in 1 .. MaxCalls[t] : c = <<t, n>>
<1>1. ASSUME NEW c, c \in CallIds
      PROVE  \E t \in Clients : \E n \in 1 .. MaxCalls[t] : c = <<t, n>>
  BY <1>1 DEF CallIds
<1>2. ASSUME NEW t \in Clients, NEW n \in 1 .. MaxCalls[t] PROVE <<t, n>> \in CallIds
  BY DEF CallIds
<1> QED
  BY <1>1, <1>2

\* The calls of some of the clients.
CallsOf(S) == { c \in CallIds : c[1] \in S }

\* One client more adds finitely many calls.
LEMMA CallsOfOneMore ==
    ASSUME NEW S \in SUBSET Clients, NEW t \in Clients, IsFiniteSet(CallsOf(S))
    PROVE  IsFiniteSet(CallsOf(S \cup {t}))
<1> DEFINE numbers == 1 .. MaxCalls[t]
           mine == { c \in CallIds : c[1] = t }
           f == [n \in numbers |-> <<t, n>>]
<1>1. MaxCalls[t] \in Nat
  BY LoggerAssumption
<1>2. IsFiniteSet(numbers)
  BY <1>1, FS_Interval
<1>3. ASSUME NEW n \in numbers PROVE f[n] \in mine
  BY CallIdsAre
<1>4. ASSUME NEW c \in mine PROVE \E n \in numbers : f[n] = c
  <2>1. PICK u \in Clients : \E n \in 1 .. MaxCalls[u] : c = <<u, n>>
    BY CallIdsAre
  <2>2. u = t
    BY <2>1
  <2> QED
    BY <2>1, <2>2
<1>5. f \in Surjection(numbers, mine)
  <2>1. f \in [numbers -> mine]
    BY <1>3
  <2> HIDE DEF f, numbers, mine
  <2> QED
    BY <2>1, <1>4 DEF Surjection
<1>6. IsFiniteSet(mine)
  <2> HIDE DEF f, numbers, mine
  <2> QED
    BY <1>2, <1>5, FS_Surjection
<1>7. CallsOf(S \cup {t}) = CallsOf(S) \cup mine
  BY DEF CallsOf
<1> QED
  <2> HIDE DEF mine
  <2>1. IsFiniteSet(CallsOf(S) \cup mine)
    BY <1>6, FS_Union
  <2> QED
    BY <1>7, <2>1

\* Together the clients make finitely many calls: a smallest set of clients that does not
\* would become one that does without one of its members.
LEMMA CallIdsFinite == IsFiniteSet(CallIds)
<1> DEFINE bad == { n \in Nat : \E S \in SUBSET Clients :
                                   Cardinality(S) = n /\ ~ IsFiniteSet(CallsOf(S)) }
<1>1. ASSUME bad # {} PROVE FALSE
  <2>1. PICK n \in bad : \A m \in bad : <<m, n>> \notin OpToRel(<, Nat)
    BY <1>1, NatLessThanWellFounded, WFMin
  <2>2. PICK S \in SUBSET Clients : Cardinality(S) = n /\ ~ IsFiniteSet(CallsOf(S))
    OBVIOUS
  <2>3. IsFiniteSet(S) /\ n \in Nat
    BY LoggerAssumption, FS_Subset
  <2>4. S # {}
    <3>1. CallsOf({}) = {}
      BY DEF CallsOf
    <3> QED
      BY <2>2, <3>1, FS_EmptySet
  <2>5. PICK t \in S : TRUE
    BY <2>4
  <2> DEFINE R == S \ {t}
  <2>6. IsFiniteSet(R) /\ Cardinality(R) = n - 1 /\ Cardinality(R) \in Nat
    BY <2>2, <2>3, FS_RemoveElement, FS_CardinalityType
  <2>7. R \in SUBSET Clients /\ t \in Clients /\ R \cup {t} = S
    OBVIOUS
  <2>8. ~ IsFiniteSet(CallsOf(R))
    <3> HIDE DEF R
    <3>1. ~ IsFiniteSet(CallsOf(R \cup {t}))
      BY <2>2, <2>7
    <3> QED
      BY <2>7, <3>1, CallsOfOneMore
  <2>9. n - 1 \in bad
    <3> HIDE DEF R
    <3> QED
      BY <2>6, <2>7, <2>8
  <2>10. <<n - 1, n>> \in OpToRel(<, Nat)
    BY <2>3, <2>6 DEF OpToRel
  <2> QED
    BY <2>1, <2>9, <2>10
<1>2. ASSUME ~ IsFiniteSet(CallsOf(Clients)) PROVE Cardinality(Clients) \in bad
  <2>1. Cardinality(Clients) \in Nat
    BY LoggerAssumption, FS_CardinalityType
  <2> QED
    BY <1>2, <2>1
<1>3. IsFiniteSet(CallsOf(Clients))
  BY <1>1, <1>2
<1>4. CallsOf(Clients) = CallIds
  <2>1. \A c \in CallIds : c[1] \in Clients
    BY CallIdsAre
  <2> QED
    BY <2>1 DEF CallsOf
<1> QED
  BY <1>3, <1>4

\* Where a Flush has not taken its ticket yet.
UnticketedPcs == {"flushJoinable", "flushFailed", "flushTicket"}

CallInv ==
    /\ \A t \in Clients : calls[t] <= MaxCalls[t]
    /\ \A t \in Clients : pc[t] \in UnticketedPcs => t \in Flushers /\ calls[t] > 0

\* The calls that have taken their ticket, if they are flushes.
Ticketed == { c \in CallIds : \/ c[2] < calls[c[1]]
                              \/ c[2] = calls[c[1]] /\ pc[c[1]] \notin UnticketedPcs }

CountInv == requestTicket <= Cardinality(Ticketed)

PossibleInv == \A t \in Clients : item[t] # None => item[t] \in PossibleItems

\* A step begins at most one call of a client, and only a Flush that begins is to take a
\* ticket.
LEMMA CallSide ==
    ASSUME TypeInv, [Next]_vars, NEW t \in Clients
    PROVE  /\ \/ calls'[t] = calls[t]
              \/ calls'[t] = calls[t] + 1 /\ calls[t] < MaxCalls[t]
           /\ pc'[t] \in UnticketedPcs =>
                 \/ pc[t] \in UnticketedPcs /\ calls'[t] = calls[t]
                 \/ t \in Flushers /\ calls'[t] = calls[t] + 1
<1> USE DEF UnticketedPcs
<1>1. ASSUME Call(t)
      PROVE  /\ calls'[t] = calls[t] + 1 /\ calls[t] < MaxCalls[t]
             /\ pc'[t] \in UnticketedPcs => t \in Flushers
  <2> USE DEF Go, TypeInv, ClientTypes
  <2>1. CASE CallRefused(t)
    BY <2>1 DEF CallRefused
  <2>2. CASE StartLog(t)
    BY <2>2 DEF StartLog
  <2>3. CASE StartFlush(t)
    BY <2>3 DEF StartFlush
  <2>4. CASE StartStop(t)
    BY <2>4 DEF StartStop
  <2> QED
    BY <1>1, <2>1, <2>2, <2>3, <2>4 DEF Call
<1>2. ASSUME ClientStep(t)
      PROVE  calls'[t] = calls[t] /\ (pc'[t] \in UnticketedPcs => pc[t] \in UnticketedPcs)
  BY <1>2
     DEF ClientStep, LogCheckFailed, LogCheckLevel, PublishCount, PublishCheckFailed,
     PublishReserve, PublishFull, PublishSlot, PublishUncount, PublishDrop, NotifySignal,
     NotifyOne, FinishOperation, FlushCheckJoinable, FlushCheckFailed, FlushTicket, FlushLoad,
     FlushCheckWorker, FlushWait, FlushResult, StopCheckJoinable, StopJoin, Jump, Go, locals,
     TypeInv, ClientTypes
<1>3. ASSUME NEW u \in Clients \ {t}, Call(u) \/ ClientStep(u)
      PROVE  calls'[t] = calls[t] /\ pc'[t] = pc[t]
  BY <1>3, OthersStep DEF OthersUnchanged
<1>4. CASE WorkerStep \/ SinkThrows \/ SpuriousWakeup \/ SetLevel \/ SetFlushLevel \/ UNCHANGED vars
  <2>1. calls' = calls
    BY <1>4
       DEF WorkerStep, TakeItem, ReleaseSlot, HandleLog, HandleFlush, NotifyFlushers,
       RecheckFlush, DrainEnds, LevelFlush, AutoFlushDue, AutoFlushNotDue, CheckStop,
       FinalFlush, LoadSignal, RecheckEmpty, EvaluateWake, Sleep, WaitTimesOut, FailRecord,
       FailCloseGate, FailSetFlag, FailLoadTicket, FailStoreTicket, FailNotify, SinkThrows,
       SpuriousWakeup, SetLevel, SetFlushLevel, WJump, vars, clientOwned, locals
  <2> QED
    BY <1>4, <2>1, WorkerSide
<1> QED
  BY <1>1, <1>2, <1>3, <1>4 DEF Next

\* Only FlushTicket takes a ticket, and for the client's current call.
LEMMA TicketTaken ==
    ASSUME TypeInv, [Next]_vars
    PROVE  \/ requestTicket' = requestTicket
           \/ \E t \in Clients : FlushTicket(t)
<1>1. ASSUME NEW t \in Clients, Call(t) \/ ClientStep(t), ~ FlushTicket(t)
      PROVE  requestTicket' = requestTicket
  BY <1>1
     DEF Call, CallRefused, StartLog, StartFlush, StartStop, ClientStep, LogCheckFailed,
     LogCheckLevel, PublishCount, PublishCheckFailed, PublishReserve, PublishFull,
     PublishSlot, PublishUncount, PublishDrop, NotifySignal, NotifyOne, FinishOperation,
     FlushCheckJoinable, FlushCheckFailed, FlushLoad, FlushCheckWorker, FlushWait,
     FlushResult, StopCheckJoinable, StopJoin, Jump, totals
<1> QED
  BY <1>1, WorkerSide DEF Next

\* Clients keep to their calls.
LEMMA CallNext == TypeInv /\ CallInv /\ [Next]_vars => CallInv'
<1> SUFFICES ASSUME TypeInv, CallInv, [Next]_vars, NEW t \in Clients
             PROVE  /\ calls'[t] <= MaxCalls[t]
                    /\ pc'[t] \in UnticketedPcs => t \in Flushers /\ calls'[t] > 0
  BY DEF CallInv
<1>1. calls[t] \in Nat /\ MaxCalls[t] \in Nat
  BY LoggerAssumption DEF TypeInv, ClientTypes
<1> QED
  BY <1>1, CallSide DEF CallInv

\* No call goes back to before its ticket.
LEMMA TicketedGrows ==
    ASSUME TypeInv, [Next]_vars
    PROVE  Ticketed \subseteq Ticketed'
<1> SUFFICES ASSUME NEW c \in Ticketed PROVE c \in Ticketed'
  OBVIOUS
<1>1. PICK t \in Clients : \E n \in 1 .. MaxCalls[t] : c = <<t, n>>
  BY CallIdsAre DEF Ticketed
<1>2. PICK n \in 1 .. MaxCalls[t] : c = <<t, n>>
  BY <1>1
<1>3. /\ c \in CallIds /\ c[1] = t /\ c[2] = n
      /\ n < calls[t] \/ (n = calls[t] /\ pc[t] \notin UnticketedPcs)
  BY <1>2 DEF Ticketed
<1>4. n < calls'[t] \/ (n = calls'[t] /\ pc'[t] \notin UnticketedPcs)
  <2>1. calls[t] \in Nat /\ n \in Int
    BY DEF TypeInv, ClientTypes
  <2> QED
    BY <1>3, <2>1, CallSide
<1> QED
  BY <1>3, <1>4 DEF Ticketed

\* A ticket is taken by a call that had none.
LEMMA CountNext ==
    ASSUME TypeInv, CallInv, CountInv, [Next]_vars
    PROVE  CountInv'
<1>1. IsFiniteSet(Ticketed) /\ IsFiniteSet(Ticketed') /\ Ticketed \subseteq Ticketed'
  <2>1. Ticketed \in SUBSET CallIds /\ Ticketed' \in SUBSET CallIds
    BY DEF Ticketed
  <2> QED
    BY <2>1, CallIdsFinite, FS_Subset, TicketedGrows
<1>2. /\ Cardinality(Ticketed) \in Nat /\ Cardinality(Ticketed') \in Nat
      /\ requestTicket \in Nat
  BY <1>1, FS_CardinalityType DEF TypeInv, ClientTypes
<1>3. CASE requestTicket' = requestTicket
  <2>1. Cardinality(Ticketed) <= Cardinality(Ticketed')
    BY <1>1, FS_Subset
  <2> QED
    BY <1>2, <1>3, <2>1 DEF CountInv
<1>4. ASSUME NEW t \in Clients, FlushTicket(t) PROVE CountInv'
  <2>1. /\ pc[t] = "flushTicket" /\ pc'[t] = "publishFailed" /\ calls' = calls
        /\ requestTicket' = requestTicket + 1
    BY <1>4 DEF FlushTicket, Go, TypeInv, ClientTypes
  <2>2. calls[t] \in 1 .. MaxCalls[t]
    BY <2>1, LoggerAssumption DEF CallInv, UnticketedPcs, TypeInv, ClientTypes
  <2> DEFINE c == <<t, calls[t]>>
  <2>3. c \in CallIds /\ c[1] = t /\ c[2] = calls[t]
    BY <2>2, CallIdsAre
  <2>4. c \notin Ticketed /\ c \in Ticketed'
    BY <2>1, <2>2, <2>3 DEF Ticketed, UnticketedPcs
  <2> HIDE DEF c
  <2>5. Cardinality(Ticketed \cup {c}) = Cardinality(Ticketed) + 1
    BY <1>1, <2>4, FS_AddElement
  <2>6. Cardinality(Ticketed \cup {c}) <= Cardinality(Ticketed')
    <3>1. Ticketed \cup {c} \in SUBSET Ticketed'
      BY <1>1, <2>4
    <3> QED
      BY <1>1, <3>1, FS_Subset
  <2> QED
    BY <1>2, <2>1, <2>5, <2>6 DEF CountInv
<1> QED
  BY <1>3, <1>4, TicketTaken

\* What a client is about to publish is the item of one of its calls.
LEMMA PossibleNext ==
    ASSUME TypeInv, CallInv, CountInv, CountInv', PossibleInv, [Next]_vars
    PROVE  PossibleInv'
<1> SUFFICES ASSUME NEW t \in Clients, item'[t] # None PROVE item'[t] \in PossibleItems
  BY DEF PossibleInv
<1>1. CASE StartLog(t)
  <2>1. PICK l \in MessageLevels : item' = [item EXCEPT ![t] = LogItem(t, calls[t] + 1, l)]
    BY <1>1 DEF StartLog
  <2>2. item'[t] = LogItem(t, calls[t] + 1, l) /\ t \in Loggers /\ calls[t] + 1 \in 1 .. MaxCalls[t]
    <3>1. calls[t] \in Nat /\ MaxCalls[t] \in Nat /\ calls[t] < MaxCalls[t] /\ t \in Loggers
      BY <1>1, LoggerAssumption DEF StartLog, TypeInv, ClientTypes
    <3>2. item'[t] = LogItem(t, calls[t] + 1, l)
      BY <2>1 DEF TypeInv, ClientTypes
    <3> QED
      BY <3>1, <3>2
  <2> DEFINE c == <<t, calls[t] + 1>>
  <2>3. c \in CallIds /\ c[1] = t /\ c[2] = calls[t] + 1
    BY <2>2, CallIdsAre
  <2> HIDE DEF c
  <2>4. item'[t] = LogItem(c[1], c[2], l) /\ c \in { d \in CallIds : d[1] \in Loggers }
    BY <2>2, <2>3
  <2> QED
    BY <2>4 DEF PossibleItems, PossibleLogs
<1>2. CASE FlushTicket(t)
  <2>1. /\ item'[t] = FlushItem(t, requestTicket + 1) /\ requestTicket' = requestTicket + 1
        /\ pc[t] = "flushTicket" /\ requestTicket \in Nat
    BY <1>2 DEF FlushTicket, Go, TypeInv, ClientTypes
  <2>2. t \in Flushers
    BY <2>1 DEF CallInv, UnticketedPcs
  <2>3. requestTicket' <= Cardinality(CallIds) /\ Cardinality(CallIds) \in Nat
    <3>1. Ticketed' \in SUBSET CallIds
      BY DEF Ticketed
    <3>2. /\ Cardinality(Ticketed') <= Cardinality(CallIds)
          /\ Cardinality(CallIds) \in Nat /\ Cardinality(Ticketed') \in Nat
      BY <3>1, CallIdsFinite, FS_Subset, FS_CardinalityType
    <3> QED
      BY <2>1, <3>2 DEF CountInv
  <2>4. requestTicket + 1 \in 1 .. Cardinality(CallIds)
    BY <2>1, <2>3
  <2> QED
    BY <2>1, <2>2, <2>4 DEF PossibleItems
<1>3. CASE FinishOperation(t)
  <2>1. item'[t] = None
    BY <1>3 DEF FinishOperation, TypeInv, ClientTypes
  <2> QED
    BY <2>1
<1>4. CASE ~ StartLog(t) /\ ~ FlushTicket(t) /\ ~ FinishOperation(t)
  <2>1. ASSUME Call(t) \/ ClientStep(t) PROVE item' = item
    BY <1>4, <2>1 DEF Call, CallRefused, StartFlush, StartStop, ClientStep, LogCheckFailed,
       LogCheckLevel, PublishCount, PublishCheckFailed, PublishReserve, PublishFull,
       PublishSlot, PublishUncount, PublishDrop, NotifySignal, NotifyOne, FlushCheckJoinable,
       FlushCheckFailed, FlushLoad, FlushCheckWorker, FlushWait, FlushResult,
       StopCheckJoinable, StopJoin, Jump, locals
  <2>2. ASSUME NEW u \in Clients \ {t}, Call(u) \/ ClientStep(u) PROVE item'[t] = item[t]
    BY <2>2, OthersStep DEF OthersUnchanged
  <2>3. item'[t] = item[t]
    BY <2>1, <2>2, WorkerSide DEF Next
  <2> QED
    BY <2>3 DEF PossibleInv
<1> QED
  BY <1>1, <1>2, <1>3, <1>4

(***************************************************************************)
(* The queue holds no item twice, and the worker's slot stays taken until  *)
(* it is released.                                                         *)
(***************************************************************************)

\* Where an item has no slot yet.
SlotlessPcs == {"publishFailed", "tryEnqueue"}

DistinctInv ==
    /\ \A i, j \in 1 .. Len(queue) : queue[i].val = queue[j].val => i = j
    /\ \A t \in Clients : pc[t] \in SlotlessPcs /\ item[t].kind = "Flush" =>
          \A i \in 1 .. Len(queue) : queue[i].val # item[t]

TakenInv == wpc = "release" => queue[1].state = "taken"

\* A flush item without a slot is an old one, or has just got its ticket.
LEMMA SlotlessFlush ==
    ASSUME TypeInv, [Next]_vars, NEW t \in Clients,
           pc'[t] \in SlotlessPcs, item'[t].kind = "Flush"
    PROVE  \/ pc[t] \in SlotlessPcs /\ item'[t] = item[t]
           \/ FlushTicket(t)
<1> USE DEF SlotlessPcs
<1>1. CASE Call(t)
  BY <1>1 DEF Call, CallRefused, StartLog, StartFlush, StartStop, Go, TypeInv, ClientTypes
<1>2. CASE PublishCount(t)
  <2>1. item[t] \in Logs /\ item' = item
    BY <1>2 DEF PublishCount, Go, locals, TypeInv, ClientTypes, FitsAt, LogPcs
  <2> QED
    BY <2>1 DEF Logs
<1>3. CASE ClientStep(t) /\ ~ PublishCount(t)
  BY <1>3
     DEF ClientStep, LogCheckFailed, LogCheckLevel, PublishCheckFailed,
     PublishReserve, PublishFull, PublishSlot, PublishUncount, PublishDrop, NotifySignal,
     NotifyOne, FinishOperation, FlushCheckJoinable, FlushCheckFailed, FlushLoad,
     FlushCheckWorker, FlushWait, FlushResult, StopCheckJoinable, StopJoin, Jump, Go, locals,
     TypeInv, ClientTypes
<1>4. ASSUME NEW u \in Clients \ {t}, Call(u) \/ ClientStep(u)
      PROVE  pc[t] \in SlotlessPcs /\ item'[t] = item[t]
  BY <1>4, OthersStep DEF OthersUnchanged
<1>5. CASE WorkerStep \/ SinkThrows \/ SpuriousWakeup \/ SetLevel \/ SetFlushLevel \/ UNCHANGED vars
  BY <1>5, WorkerSide
<1> QED
  BY <1>1, <1>2, <1>3, <1>4, <1>5 DEF Next

\* But for a new slot at its end, the queue shows what it showed, or all but its head.
LEMMA ValuesMove ==
    ASSUME TypeInv, [Next]_vars, \A t \in Clients : ~ PublishReserve(t)
    PROVE  \E k \in {0, 1} :
              /\ Len(queue') + k = Len(queue)
              /\ \A i \in 1 .. Len(queue') : i + k \in 1 .. Len(queue) /\ queue'[i].val = queue[i + k].val
<1>0. queue \in Seq(SlotType) /\ Len(queue) \in Nat
  BY DEF TypeInv, SharedTypes
<1>1. CASE Still \/ HandleLog \/ NotifyFlushers
  <2>1. queue' = queue
    BY <1>1 DEF Still, HandleLog, NotifyFlushers, logger
  <2> QED
    BY <1>0, <2>1
<1>2. ASSUME NEW t \in Clients, PublishSlot(t)
      PROVE  /\ Len(queue') = Len(queue)
             /\ \A i \in 1 .. Len(queue) : queue'[i].val = queue[i].val
  <2>1. Publish(item[t]) /\ item[t] \in Items
    BY <1>2 DEF PublishSlot, Go, TypeInv, ClientTypes, FitsAt, PublishPcs
  <2>2. /\ Len(queue') = Len(queue)
        /\ \A i \in 1 .. Len(queue) :
              queue'[i] = IF queue[i].val = item[t] THEN Slot(item[t], "ready") ELSE queue[i]
    BY <1>0, <2>1, PublishProperties
  <2> QED
    BY <2>2 DEF Slot
<1>3. CASE TakeItem
  <2>1. HeadReady /\ Take
    BY <1>3 DEF TakeItem
  <2>2. /\ Len(queue') = Len(queue)
        /\ queue'[1] = Slot(queue[1].val, "taken")
        /\ \A i \in 2 .. Len(queue) : queue'[i] = queue[i]
    BY <1>0, <2>1, TakeProperties
  <2>3. \A i \in 1 .. Len(queue) : queue'[i].val = queue[i].val
    BY <2>2 DEF Slot
  <2> QED
    BY <1>0, <2>2, <2>3
<1>4. CASE ReleaseSlot
  <2>1. Release /\ queue # <<>>
    BY <1>4 DEF ReleaseSlot, WGo, TypeInv, SharedTypes
  <2>2. /\ Len(queue') = Len(queue) - 1
        /\ \A i \in 1 .. Len(queue') : queue'[i] = queue[i + 1]
    BY <1>0, <2>1, ReleaseProperties
  <2> QED
    BY <1>0, <2>2
<1> QED
  BY <1>0, <1>1, <1>2, <1>3, <1>4, LineStep DEF Moves

\* A log is published once, and every flush has a ticket of its own.
LEMMA DistinctNext ==
    ASSUME TypeInv, ItemOwnerInv, SlotInv, StatsInv, HandInv, LatestInv, ConservedInv,
           BoundInv, DistinctInv, [Next]_vars
    PROVE  DistinctInv'
<1>1. ASSUME NEW t \in Clients, PublishReserve(t) PROVE DistinctInv'
  <2>1. /\ pc[t] = "tryEnqueue" /\ pc'[t] = "publishSlot" /\ item' = item
        /\ Reserve(item[t])
    BY <1>1 DEF PublishReserve, Go, locals, TypeInv, ClientTypes
  <2>2. item[t] \in Items /\ item[t].client = t /\ item[t].number \in Nat
    BY <2>1, PublishedItem DEF PublishPcs
  <2>3. /\ Len(queue') = Len(queue) + 1 /\ Len(queue) \in Nat
        /\ \A i \in 1 .. Len(queue) : queue'[i] = queue[i]
        /\ queue'[Len(queue) + 1].val = item[t]
    <3>1. /\ Len(queue') = Len(queue) + 1 /\ Len(queue) \in Nat
          /\ \A i \in 1 .. Len(queue) : queue'[i] = queue[i]
          /\ queue'[Len(queue) + 1] = Slot(item[t], "reserved")
      BY <2>1, <2>2, ReserveProperties, SlotsAreTyped
    <3> QED
      BY <3>1 DEF Slot
  <2>4. ASSUME NEW i \in 1 .. Len(queue) PROVE queue[i].val # item[t]
    <3>1. CASE item[t].kind = "Flush"
      BY <2>1, <3>1 DEF DistinctInv, SlotlessPcs
    <3>2. CASE item[t].kind = "Log"
      BY <2>1, <2>2, <3>2, NewLogIsLast DEF IsLogAt, Before
    <3> QED
      BY <2>2, <3>1, <3>2 DEF Items
  <2>5. ASSUME NEW i \in 1 .. Len(queue'), NEW j \in 1 .. Len(queue'),
               queue'[i].val = queue'[j].val
        PROVE  i = j
    BY <2>3, <2>4, <2>5 DEF DistinctInv
  <2>6. ASSUME NEW u \in Clients, pc'[u] \in SlotlessPcs, item'[u].kind = "Flush",
               NEW i \in 1 .. Len(queue')
        PROVE  queue'[i].val # item'[u]
    <3>1. u # t /\ pc[u] \in SlotlessPcs /\ item'[u] = item[u] /\ item[u].kind = "Flush"
      BY <2>1, <2>6, <1>1, OthersStep DEF SlotlessPcs, OthersUnchanged, ClientStep
    <3>2. item[u].client = u
      BY <3>1, PublishedItem DEF SlotlessPcs, PublishPcs
    <3> QED
      BY <2>2, <2>3, <3>1, <3>2 DEF DistinctInv
  <2> QED
    BY <2>5, <2>6 DEF DistinctInv
<1>2. CASE \A t \in Clients : ~ PublishReserve(t)
  <2>1. PICK k \in {0, 1} :
           /\ Len(queue') + k = Len(queue)
           /\ \A i \in 1 .. Len(queue') : i + k \in 1 .. Len(queue) /\ queue'[i].val = queue[i + k].val
    BY <1>2, ValuesMove
  <2>2. ASSUME NEW i \in 1 .. Len(queue'), NEW j \in 1 .. Len(queue'),
               queue'[i].val = queue'[j].val
        PROVE  i = j
    <3>1. i + k = j + k
      BY <2>1, <2>2 DEF DistinctInv
    <3> QED
      BY <3>1
  <2>3. ASSUME NEW t \in Clients, pc'[t] \in SlotlessPcs, item'[t].kind = "Flush",
               NEW i \in 1 .. Len(queue')
        PROVE  queue'[i].val # item'[t]
    <3>1. CASE pc[t] \in SlotlessPcs /\ item'[t] = item[t]
      BY <2>1, <2>3, <3>1 DEF DistinctInv
    <3>2. CASE FlushTicket(t)
      <4>1. item'[t] = FlushItem(t, requestTicket + 1) /\ requestTicket \in Nat
        BY <3>2 DEF FlushTicket, TypeInv, ClientTypes
      <4>2. /\ queue[i + k].val.kind = "Flush" => queue[i + k].val.number <= requestTicket
            /\ queue[i + k].val.number \in Nat
        BY <2>1, SlotsAreTyped DEF BoundInv
      <4>3. item'[t].kind = "Flush" /\ item'[t].number = requestTicket + 1
        BY <4>1 DEF FlushItem
      <4> QED
        BY <2>1, <4>1, <4>2, <4>3
    <3> QED
      BY <2>3, <3>1, <3>2, SlotlessFlush
  <2> QED
    BY <2>2, <2>3 DEF DistinctInv
<1> QED
  BY <1>1, <1>2

\* A slot that is published was reserved, and by nobody else.
LEMMA PublishedSlot ==
    ASSUME TypeInv, ReservedInv, DistinctInv, NEW t \in Clients, pc[t] = "publishSlot"
    PROVE  \E i \in 1 .. Len(queue) :
              /\ queue[i] = Slot(item[t], "reserved")
              /\ \A j \in 1 .. Len(queue) : queue[j].val = item[t] <=> j = i
<1>1. PICK i \in 1 .. Len(queue) : queue[i] = Slot(item[t], "reserved")
  BY DEF ReservedInv
<1>2. queue[i].val = item[t]
  BY <1>1 DEF Slot
<1> QED
  BY <1>1, <1>2 DEF DistinctInv

\* Nobody but the worker changes the slot it has taken.
LEMMA TakenNext ==
    ASSUME TypeInv, ReservedInv, DistinctInv, TakenInv, [Next]_vars
    PROVE  TakenInv'
<1> SUFFICES ASSUME wpc' = "release" PROVE queue'[1].state = "taken"
  BY DEF TakenInv
<1>0. queue \in Seq(SlotType) /\ Len(queue) \in Nat
  BY DEF TypeInv, SharedTypes
<1>1. CASE Still
  BY <1>1 DEF Still, TakenInv
<1>2. ASSUME NEW t \in Clients, PublishReserve(t) \/ PublishSlot(t)
      PROVE  queue'[1].state = "taken"
  <2>1. wpc' = wpc
    BY <1>2 DEF PublishReserve, PublishSlot, workerOwned
  <2>2. queue # <<>> /\ queue[1].state = "taken" /\ 1 \in 1 .. Len(queue)
    BY <1>0, <2>1, EmptySeq DEF TypeInv, SharedTypes, TakenInv
  <2>3. CASE PublishReserve(t)
    <3>1. Reserve(item[t]) /\ item[t] \in Items
      BY <2>3 DEF PublishReserve, Go, TypeInv, ClientTypes, FitsAt, PublishPcs
    <3> QED
      BY <1>0, <2>2, <3>1, ReserveProperties
  <2>4. CASE PublishSlot(t)
    <3>1. Publish(item[t]) /\ item[t] \in Items /\ pc[t] = "publishSlot"
      BY <2>4 DEF PublishSlot, Go, TypeInv, ClientTypes, FitsAt, PublishPcs
    <3>2. queue[1].val # item[t]
      <4>1. PICK i \in 1 .. Len(queue) :
               /\ queue[i] = Slot(item[t], "reserved")
               /\ \A j \in 1 .. Len(queue) : queue[j].val = item[t] <=> j = i
        BY <3>1, PublishedSlot
      <4>2. i # 1
        BY <2>2, <4>1 DEF Slot
      <4> QED
        BY <2>2, <4>1, <4>2
    <3> QED
      BY <1>0, <2>2, <3>1, <3>2, PublishProperties
  <2> QED
    BY <1>2, <2>3, <2>4
<1>3. CASE TakeItem
  <2>1. HeadReady /\ Take
    BY <1>3 DEF TakeItem
  <2> QED
    BY <1>0, <2>1, TakeProperties DEF Slot
<1>4. CASE ReleaseSlot \/ HandleLog \/ NotifyFlushers
  BY <1>4 DEF ReleaseSlot, HandleLog, NotifyFlushers, WGo, AfterItem
<1> QED
  BY <1>1, <1>2, <1>3, <1>4, LineStep DEF Moves

(***************************************************************************)
(* The queue is ReservationQueue's.                                        *)
(***************************************************************************)

\* Releasing the oldest slot gives back its room at once: no other slot is released.
LEMMA TrimmedIsTail ==
    ASSUME NEW q \in Seq(SlotType), Len(q) > 0
    PROVE  RQ!Trimmed([q EXCEPT ![1] = RQ!Slot(None, "released")]) = Tail(q)
<1> DEFINE r == [q EXCEPT ![1] = RQ!Slot(None, "released")]
           live == { i \in 1 .. Len(r) : r[i].state # "released" }
           first == CHOOSE i \in live : \A j \in live : i <= j
<1> SUFFICES RQ!Trimmed(r) = Tail(q)
  OBVIOUS
<1>1. /\ Len(q) \in Nat /\ DOMAIN q = 1 .. Len(q) /\ q # <<>>
      /\ \A i \in 1 .. Len(q) : q[i] \in SlotType
  OBVIOUS
<1>a. Tail(q) = SubSeq(q, 2, Len(q))
  BY <1>1, TailIsSubSeq
<1>2. /\ r \in Seq(SlotType \cup {RQ!Slot(None, "released")}) /\ Len(r) = Len(q)
      /\ r[1] = RQ!Slot(None, "released")
      /\ \A i \in 2 .. Len(q) : r[i] = q[i]
  <2> DEFINE T == SlotType \cup {RQ!Slot(None, "released")}
  <2>1. q \in Seq(T) /\ RQ!Slot(None, "released") \in T
    OBVIOUS
  <2> HIDE DEF T
  <2> QED
    BY <1>1, <2>1, ExceptSeq
<1>3. \A i \in 1 .. Len(q) : r[i].state = "released" <=> i = 1
  <2>1. r[1].state = "released"
    BY <1>2 DEF RQ!Slot
  <2>2. \A i \in 2 .. Len(q) : r[i].state # "released"
    BY <1>1, <1>2 DEF SlotType
  <2> QED
    BY <1>1, <2>1, <2>2
<1>4. RQ!Trimmed(r) = IF live = {} THEN <<>> ELSE SubSeq(r, first, Len(r))
  BY DEF RQ!Trimmed
<1> HIDE DEF r
<1>5. CASE Len(q) = 1
  <2>1. live = {}
    BY <1>1, <1>2, <1>3, <1>5
  <2>2. Tail(q) = <<>>
    BY <1>5, <1>a
  <2> QED
    BY <1>4, <2>1, <2>2
<1>6. CASE Len(q) > 1
  <2>1. live = 2 .. Len(q)
    BY <1>1, <1>2, <1>3
  <2>2. first \in live /\ \A j \in live : first <= j
    <3>1. 2 \in live /\ \A j \in live : 2 <= j
      BY <1>1, <1>6, <2>1
    <3> QED
      BY <3>1
  <2>3. first = 2 /\ live # {}
    BY <1>1, <1>6, <2>1, <2>2
  <2>4. SubSeq(r, 2, Len(q)) = Tail(q)
    <3>1. /\ SubSeq(r, 2, Len(q)) = [i \in 1 .. Len(q) - 1 |-> r[i + 1]]
      BY <1>1, <1>2, <1>6
    <3>2. SubSeq(q, 2, Len(q)) = [i \in 1 .. Len(q) - 1 |-> q[i + 1]]
      BY <1>1, <1>6
    <3>3. \A i \in 1 .. Len(q) - 1 : r[i + 1] = q[i + 1]
      BY <1>1, <1>2
    <3> QED
      BY <1>a, <3>1, <3>2, <3>3
  <2> QED
    BY <1>2, <1>4, <2>3, <2>4
<1> QED
  BY <1>1, <1>5, <1>6

\* A step of the logger is a step of the queue, or leaves it alone.
LEMMA QueueStep ==
    ASSUME TypeInv, SlotInv, HandInv, ReservedInv, DistinctInv, TakenInv, PossibleInv,
           [Next]_vars
    PROVE  [RQ!QNext]_queue
<1>0. queue \in Seq(SlotType) /\ Len(queue) \in Nat /\ DOMAIN queue = 1 .. Len(queue)
  BY DEF TypeInv, SharedTypes
<1>1. ASSUME NEW t \in Clients, PublishReserve(t) PROVE RQ!QNext
  <2>1. /\ HasRoom /\ Reserve(item[t]) /\ item[t] \in Items
    BY <1>1 DEF PublishReserve, Go, TypeInv, ClientTypes, FitsAt, PublishPcs
  <2>2. item[t] \in PossibleItems
    BY <2>1, NoneAssumption DEF PossibleInv
  <2>3. RQ!QReserve(item[t])
    BY <2>1 DEF RQ!QReserve, RQ!HasRoom, HasRoom, Reserve, RQ!Slot, Slot
  <2> QED
    BY <2>2, <2>3 DEF RQ!QNext
<1>2. ASSUME NEW t \in Clients, PublishSlot(t) PROVE RQ!QNext
  <2>1. Publish(item[t]) /\ item[t] \in Items /\ pc[t] = "publishSlot"
    BY <1>2 DEF PublishSlot, Go, TypeInv, ClientTypes, FitsAt, PublishPcs
  <2>2. PICK i \in 1 .. Len(queue) :
              /\ queue[i] = Slot(item[t], "reserved")
              /\ \A j \in 1 .. Len(queue) : queue[j].val = item[t] <=> j = i
    BY <2>1, PublishedSlot
  <2>3. [queue[i] EXCEPT !.state = "ready"] = Slot(item[t], "ready")
    BY <2>2 DEF Slot
  <2>4. queue' = [queue EXCEPT ![i].state = "ready"]
    <3>1. [queue EXCEPT ![i].state = "ready"] =
             [j \in 1 .. Len(queue) |-> IF j = i THEN Slot(item[t], "ready") ELSE queue[j]]
      BY <1>0, <2>3
    <3> QED
      BY <2>1, <2>2, <3>1 DEF Publish
  <2>5. RQ!QPublish(i)
    BY <2>2, <2>4 DEF RQ!QPublish, Slot
  <2> QED
    BY <2>5 DEF RQ!QNext
<1>3. CASE TakeItem
  <2>1. HeadReady /\ Take
    BY <1>3 DEF TakeItem
  <2>2. 1 \in 1 .. Len(queue) /\ queue[1].state = "ready"
    BY <1>0, <2>1, EmptySeq DEF HeadReady
  <2>3. RQ!IsHead(1)
    BY <2>2 DEF RQ!IsHead
  <2>4. RQ!QTake(1)
    BY <2>1, <2>2, <2>3 DEF RQ!QTake, Take
  <2> QED
    BY <2>2, <2>4 DEF RQ!QNext
<1>4. CASE ReleaseSlot
  <2>1. Release /\ queue # <<>> /\ wpc = "release"
    BY <1>4 DEF ReleaseSlot, WGo, TypeInv, SharedTypes
  <2>2. Len(queue) > 0 /\ 1 \in 1 .. Len(queue) /\ queue[1].state = "taken"
    BY <1>0, <2>1, EmptySeq DEF TakenInv
  <2>3. RQ!QRelease(1)
    BY <1>0, <2>1, <2>2, TrimmedIsTail DEF RQ!QRelease, Release
  <2> QED
    BY <2>2, <2>3 DEF RQ!QNext
<1>5. CASE Still \/ HandleLog \/ NotifyFlushers
  BY <1>5 DEF Still, HandleLog, NotifyFlushers, logger
<1> QED
  BY <1>1, <1>2, <1>3, <1>4, <1>5, LineStep DEF Moves

UseInv == CallInv /\ CountInv /\ PossibleInv /\ DistinctInv /\ TakenInv

\* Clients use their calls, and the worker its slot, as they should, initially
LEMMA UseInit == Init => UseInv
<1> SUFFICES ASSUME Init PROVE UseInv
  OBVIOUS
<1>1. CallInv
  BY LoggerAssumption DEF Init, CallInv, UnticketedPcs
<1>2. CountInv
  <2>1. Ticketed \in SUBSET CallIds
    BY DEF Ticketed
  <2>2. Cardinality(Ticketed) \in Nat
    BY <2>1, CallIdsFinite, FS_Subset, FS_CardinalityType
  <2> QED
    BY <2>2 DEF Init, CountInv
<1>3. PossibleInv /\ TakenInv
  BY DEF Init, PossibleInv, TakenInv
<1>4. DistinctInv
  <2>1. Len(queue) = 0
    BY DEF Init
  <2> QED
    BY <2>1 DEF DistinctInv
<1> QED
  BY <1>1, <1>2, <1>3, <1>4 DEF UseInv

\* and after every step.
LEMMA UseNext == IInv /\ DeliveryInv /\ UseInv /\ [Next]_vars => UseInv'
<1> SUFFICES ASSUME IInv, DeliveryInv, UseInv, [Next]_vars PROVE UseInv'
  OBVIOUS
<1>1. TypeInv /\ ItemOwnerInv /\ SlotInv /\ StatsInv
  BY DEF IInv
<1>2. CallInv' /\ CountInv'
  BY <1>1, CallNext, CountNext DEF UseInv
<1>3. PossibleInv'
  BY <1>1, <1>2, PossibleNext DEF UseInv
<1>4. DistinctInv' /\ TakenInv'
  BY <1>1, DistinctNext, TakenNext DEF UseInv, DeliveryInv
<1> QED
  BY <1>2, <1>3, <1>4 DEF UseInv

\* The inductive invariant of the refinements.
LEMMA RefinementInvariant == Spec => [](IInv /\ DeliveryInv /\ UseInv)
BY InvInit, InvNext, DeliveryInit, DeliveryNext, UseInit, UseNext, PTL DEF Spec

\* Publish and the worker use the lock-free queue as the bounded FIFO of slots it promises
\* to be, with one consumer, for any number of producers and any capacity.
THEOREM QueueRefinementTheorem == Spec => QueueIsReservationQueue
<1>1. Init => RQ!QInit
  BY DEF Init, RQ!QInit
<1>2. IInv /\ DeliveryInv /\ UseInv /\ [Next]_vars => [RQ!QNext]_queue
  BY QueueStep DEF IInv, DeliveryInv, UseInv
<1> QED
  BY <1>1, <1>2, RefinementInvariant, PTL DEF Spec, QueueIsReservationQueue, RQ!QSpec

(***************************************************************************)
(* The logs that wait in a queue.                                          *)
(***************************************************************************)

\* Ranks number a set of positions from 1, in order.
LEMMA RankProperties ==
    ASSUME NEW n \in Nat, NEW S \in SUBSET (1 .. n)
    PROVE  /\ IsFiniteSet(S) /\ Cardinality(S) \in Nat
           /\ \A i \in S : Rank(S, i) \in 1 .. Cardinality(S)
           /\ \A i, j \in S : i < j => Rank(S, i) < Rank(S, j)
           /\ \A k \in 1 .. Cardinality(S) : \E i \in S : Rank(S, i) = k
<1>0. \A i \in S : i \in Int
  OBVIOUS
<1>1. IsFiniteSet(S) /\ Cardinality(S) \in Nat
  <2>1. IsFiniteSet(1 .. n)
    BY FS_Interval
  <2> QED
    BY <2>1, FS_Subset, FS_CardinalityType
<1> DEFINE upTo(i) == { j \in S : j <= i }
<1>2. \A i \in S : /\ upTo(i) \in SUBSET S /\ i \in upTo(i)
                   /\ IsFiniteSet(upTo(i)) /\ Rank(S, i) = Cardinality(upTo(i))
                   /\ Rank(S, i) \in Nat
  <2> TAKE i \in S
  <2>1. upTo(i) \in SUBSET S /\ i \in upTo(i) /\ Rank(S, i) = Cardinality(upTo(i))
    BY DEF Rank
  <2> HIDE DEF upTo
  <2> QED
    BY <1>1, <2>1, FS_Subset, FS_CardinalityType
<1>3. \A i \in S : Rank(S, i) \in 1 .. Cardinality(S)
  <2> TAKE i \in S
  <2> HIDE DEF upTo
  <2>1. Cardinality(upTo(i)) <= Cardinality(S)
    BY <1>1, <1>2, FS_Subset
  <2>2. Cardinality(upTo(i)) # 0
    BY <1>2, FS_EmptySet
  <2> QED
    BY <1>1, <1>2, <2>1, <2>2
<1>4. \A i, j \in S : i < j => Rank(S, i) < Rank(S, j)
  <2> SUFFICES ASSUME NEW i \in S, NEW j \in S, i < j PROVE Rank(S, i) < Rank(S, j)
    OBVIOUS
  <2>1. upTo(i) \in SUBSET upTo(j) /\ j \in upTo(j) /\ j \notin upTo(i)
    <3>1. i \in Int /\ j \in Int
      BY <1>0
    <3>2. ASSUME NEW k \in upTo(i) PROVE k \in upTo(j)
      <4>1. k \in S /\ k <= i /\ k \in Int
        BY <1>0
      <4> QED
        BY <3>1, <4>1
    <3>3. j \in upTo(j) /\ j \notin upTo(i)
      BY <3>1
    <3> HIDE DEF upTo
    <3> QED
      BY <3>2, <3>3
  <2> HIDE DEF upTo
  <2>2. Cardinality(upTo(i)) <= Cardinality(upTo(j)) /\ Cardinality(upTo(i)) # Cardinality(upTo(j))
    BY <1>2, <2>1, FS_Subset
  <2> QED
    BY <1>2, <2>2
<1>5. \A k \in 1 .. Cardinality(S) : \E i \in S : Rank(S, i) = k
  <2> DEFINE c == Cardinality(S)
             f == [i \in S |-> Rank(S, i)]
  <2>1. \A i, j \in S : f[i] = f[j] => i = j
    <3> SUFFICES ASSUME NEW i \in S, NEW j \in S, Rank(S, i) = Rank(S, j) PROVE i = j
      OBVIOUS
    <3>1. i \in Int /\ j \in Int /\ Rank(S, i) \in Nat /\ Rank(S, j) \in Nat
      BY <1>0, <1>2
    <3>2. (i < j => Rank(S, i) < Rank(S, j)) /\ (j < i => Rank(S, j) < Rank(S, i))
      BY <1>4
    <3> HIDE DEF f, c
    <3> QED
      BY <3>1, <3>2
  <2>2. f \in [S -> 1 .. c]
    BY <1>3
  <2>3. Cardinality(1 .. c) = c /\ IsFiniteSet(1 .. c)
    BY <1>1, FS_Interval
  <2>4. f \in Surjection(S, 1 .. c)
    <3> HIDE DEF f
    <3>1. f \in Injection(S, 1 .. c)
      BY <2>1, <2>2 DEF Injection, IsInjective
    <3> QED
      BY <1>1, <2>3, <3>1, FS_Injection
  <2>5. \A k \in 1 .. c : \E i \in S : f[i] = k
    <3> HIDE DEF f, c
    <3> QED
      BY <2>4 DEF Surjection
  <2> QED
    BY <2>5
<1> QED
  BY <1>1, <1>3, <1>4, <1>5

\* g lists a set of positions in order.
Enumerates(g, c, S) == /\ c \in Nat /\ g \in [1 .. c -> S]
                       /\ \A k, m \in 1 .. c : k < m => g[k] < g[m]
                       /\ \A i \in S : \E k \in 1 .. c : g[k] = i

\* The k-th position of a list has rank k.
LEMMA EnumerationRanks ==
    ASSUME NEW n \in Nat, NEW S \in SUBSET (1 .. n), NEW g, NEW c, Enumerates(g, c, S)
    PROVE  /\ c = Cardinality(S)
           /\ \A k \in 1 .. c : Rank(S, g[k]) = k
<1>1. /\ c \in Nat /\ g \in [1 .. c -> S]
      /\ \A k, m \in 1 .. c : k < m => g[k] < g[m]
      /\ \A i \in S : \E k \in 1 .. c : g[k] = i
      /\ \A k \in 1 .. c : g[k] \in S /\ g[k] \in Int
  <2>1. \A i \in S : i \in Int
    OBVIOUS
  <2> QED
    BY <2>1 DEF Enumerates
<1>2. ASSUME NEW b \in 0 .. c, NEW T, T \subseteq S,
             \A k \in 1 .. b : g[k] \in T, \A i \in T : \E k \in 1 .. b : g[k] = i
      PROVE  Cardinality(T) = b
  <2>0. \A k \in 1 .. b : k \in 1 .. c
    BY <1>1
  <2> DEFINE h == [k \in 1 .. b |-> g[k]]
  <2>1. h \in [1 .. b -> T] /\ \A i \in T : \E k \in 1 .. b : h[k] = i
    BY <1>2
  <2>2. \A k, m \in 1 .. b : h[k] = h[m] => k = m
    <3> SUFFICES ASSUME NEW k \in 1 .. b, NEW m \in 1 .. b, g[k] = g[m] PROVE k = m
      OBVIOUS
    <3>1. k \in 1 .. c /\ m \in 1 .. c /\ g[k] \in Int /\ g[m] \in Int
      BY <1>1, <2>0
    <3>2. (k < m => g[k] < g[m]) /\ (m < k => g[m] < g[k])
      BY <1>1, <3>1
    <3> HIDE DEF h
    <3> QED
      BY <3>1, <3>2
  <2> HIDE DEF h
  <2>3. h \in Surjection(1 .. b, T) /\ h \in Injection(1 .. b, T)
    BY <2>1, <2>2 DEF Surjection, Injection, IsInjective
  <2>4. IsFiniteSet(1 .. b) /\ Cardinality(1 .. b) = b
    BY <1>1, FS_Interval
  <2> QED
    BY <2>3, <2>4, FS_Surjection
<1>3. c = Cardinality(S)
  <2>1. c \in 0 .. c /\ S \subseteq S /\ \A k \in 1 .. c : g[k] \in S
    BY <1>1
  <2> QED
    BY <1>1, <1>2, <2>1
<1>4. ASSUME NEW k \in 1 .. c PROVE Rank(S, g[k]) = k
  <2> DEFINE T == { j \in S : j <= g[k] }
  <2>1. ASSUME NEW m \in 1 .. k PROVE g[m] \in T
    <3>1. m \in 1 .. c /\ (m = k \/ m < k) /\ g[m] \in S /\ g[k] \in S
      BY <1>1
    <3>2. g[m] <= g[k]
      <4>1. g[m] \in Int /\ g[k] \in Int /\ (m < k => g[m] < g[k])
        BY <1>1, <3>1
      <4> QED
        BY <3>1, <4>1
    <3> QED
      BY <3>1, <3>2
  <2>2. ASSUME NEW i \in T PROVE \E m \in 1 .. k : g[m] = i
    <3>1. PICK m \in 1 .. c : g[m] = i
      BY <1>1
    <3>2. ~ (k < m)
      <4>1. g[m] \in Int /\ g[k] \in Int /\ (k < m => g[k] < g[m])
        BY <1>1, <3>1
      <4> QED
        BY <3>1, <4>1
    <3> QED
      BY <3>1, <3>2
  <2>3. k \in 0 .. c /\ T \subseteq S
    OBVIOUS
  <2> HIDE DEF T
  <2>4. Cardinality(T) = k
    BY <1>2, <2>1, <2>2, <2>3
  <2> QED
    BY <2>4 DEF T, Rank
<1> QED
  BY <1>3, <1>4

\* The log slots of a queue are positions of it.
LEMMA LogSlotsAre ==
    ASSUME NEW q \in Seq(SlotType)
    PROVE  /\ Len(q) \in Nat /\ LogSlots(q) \in SUBSET (1 .. Len(q))
           /\ \A i \in LogSlots(q) : i \in Int
BY DEF LogSlots

\* A list of the log slots of a queue shows what waits in it.
LEMMA WaitingIs ==
    ASSUME NEW q \in Seq(SlotType), NEW g, NEW c, Enumerates(g, c, LogSlots(q))
    PROVE  WaitingIn(q) = [k \in 1 .. c |-> q[g[k]].val]
<1> DEFINE S == LogSlots(q)
           slot(k) == CHOOSE i \in S : Rank(S, i) = k
<1>1. Len(q) \in Nat /\ S \in SUBSET (1 .. Len(q)) /\ \A i \in S : i \in Int
  BY LogSlotsAre
<1>2. c = Cardinality(S) /\ \A k \in 1 .. c : Rank(S, g[k]) = k
  <2> HIDE DEF S
  <2>1. Enumerates(g, c, S)
    BY DEF S
  <2> QED
    BY <1>1, <2>1, EnumerationRanks
<1>3. \A i, j \in S : i < j => Rank(S, i) < Rank(S, j)
  <2> HIDE DEF S
  <2> QED
    BY <1>1, RankProperties
<1>4. ASSUME NEW k \in 1 .. c PROVE slot(k) = g[k]
  <2>1. g[k] \in S /\ Rank(S, g[k]) = k
    BY <1>2 DEF Enumerates
  <2> HIDE DEF S
  <2>2. slot(k) \in S /\ Rank(S, slot(k)) = k
    BY <2>1
  <2> HIDE DEF slot
  <2>3. slot(k) \in Int /\ g[k] \in Int
    BY <1>1, <2>1, <2>2
  <2>4. ~ (slot(k) < g[k]) /\ ~ (g[k] < slot(k))
    BY <1>3, <2>1, <2>2, <2>3
  <2> QED
    BY <2>3, <2>4
<1>5. WaitingIn(q) = [k \in 1 .. c |-> q[slot(k)].val]
  BY <1>2 DEF WaitingIn
<1> QED
  <2> HIDE DEF slot
  <2> QED
    BY <1>4, <1>5

\* Every queue has such a list.
LEMMA EnumerationExists ==
    ASSUME NEW q \in Seq(SlotType)
    PROVE  \E c, g : Enumerates(g, c, LogSlots(q))
<1> DEFINE S == LogSlots(q)
           c == Cardinality(S)
           g == [k \in 1 .. c |-> CHOOSE i \in S : Rank(S, i) = k]
<1>1. Len(q) \in Nat /\ S \in SUBSET (1 .. Len(q)) /\ \A i \in S : i \in Int
  BY LogSlotsAre
<1> HIDE DEF S
<1>2. /\ c \in Nat
      /\ \A i \in S : Rank(S, i) \in 1 .. c
      /\ \A i, j \in S : i < j => Rank(S, i) < Rank(S, j)
      /\ \A k \in 1 .. c : \E i \in S : Rank(S, i) = k
  BY <1>1, RankProperties
<1> HIDE DEF c
<1>3. \A k \in 1 .. c : g[k] \in S /\ Rank(S, g[k]) = k
  BY <1>2
<1>4. g \in [1 .. c -> S]
  BY <1>3
<1> HIDE DEF g
<1>5. ASSUME NEW k \in 1 .. c, NEW m \in 1 .. c, k < m PROVE g[k] < g[m]
  <2>1. /\ g[k] \in S /\ Rank(S, g[k]) = k /\ g[k] \in Int
        /\ g[m] \in S /\ Rank(S, g[m]) = m /\ g[m] \in Int
    BY <1>1, <1>3
  <2>2. g[k] # g[m] /\ ~ (g[m] < g[k])
    BY <1>2, <1>5, <2>1
  <2> QED
    BY <2>1, <2>2
<1>6. ASSUME NEW i \in S PROVE \E k \in 1 .. c : g[k] = i
  <2>1. Rank(S, i) \in 1 .. c
    BY <1>2
  <2> DEFINE k == Rank(S, i)
  <2>2. g[k] \in S /\ Rank(S, g[k]) = k /\ g[k] \in Int /\ i \in Int
    BY <1>1, <1>3, <2>1
  <2>3. ~ (g[k] < i) /\ ~ (i < g[k])
    BY <1>2, <2>1, <2>2
  <2> QED
    BY <2>1, <2>2, <2>3
<1>7. Enumerates(g, c, S)
  BY <1>2, <1>4, <1>5, <1>6 DEF Enumerates
<1> QED
  BY <1>7 DEF S

\* What waits, by such a list.
LEMMA WaitingList ==
    ASSUME NEW q \in Seq(SlotType)
    PROVE  \E c, g : /\ Enumerates(g, c, LogSlots(q))
                     /\ WaitingIn(q) = [k \in 1 .. c |-> q[g[k]].val]
<1>1. PICK c, g : Enumerates(g, c, LogSlots(q))
  BY EnumerationExists
<1>2. WaitingIn(q) = [k \in 1 .. c |-> q[g[k]].val]
  BY <1>1, WaitingIs
<1> QED
  BY <1>1, <1>2

\* What waits is a sequence of logs.
LEMMA WaitingType ==
    ASSUME NEW q \in Seq(SlotType)
    PROVE  WaitingIn(q) \in Seq(Logs)
<1>1. PICK c, g : Enumerates(g, c, LogSlots(q))
  BY EnumerationExists
<1>2. ASSUME NEW k \in 1 .. c PROVE q[g[k]].val \in Logs
  <2>1. g[k] \in 1 .. Len(q) /\ q[g[k]].val.kind = "Log"
    BY <1>1 DEF Enumerates, LogSlots
  <2>2. q[g[k]].val \in Items
    <3>1. q[g[k]] \in SlotType
      BY <2>1, ElementOfSeq
    <3> QED
      BY <3>1 DEF SlotType
  <2> QED
    BY <2>1, <2>2 DEF Items, Logs
<1>3. WaitingIn(q) = [k \in 1 .. c |-> q[g[k]].val]
  BY <1>1, WaitingIs, Zenon
<1>4. c \in Nat
  BY <1>1 DEF Enumerates
<1> QED
  BY <1>2, <1>3, <1>4

\* A new log waits behind all others; a flush item does not matter.
LEMMA WaitingReserve ==
    ASSUME NEW q \in Seq(SlotType), NEW r \in Seq(SlotType), NEW v \in Items,
           Len(r) = Len(q) + 1, \A i \in 1 .. Len(q) : r[i] = q[i],
           r[Len(q) + 1] = Slot(v, "reserved")
    PROVE  WaitingIn(r) = IF v.kind = "Log" THEN Append(WaitingIn(q), v) ELSE WaitingIn(q)
<1>1. PICK c, g : /\ Enumerates(g, c, LogSlots(q))
                  /\ WaitingIn(q) = [k \in 1 .. c |-> q[g[k]].val]
  BY WaitingList
<1>2. /\ c \in Nat /\ g \in [1 .. c -> LogSlots(q)] /\ WaitingIn(q) = [k \in 1 .. c |-> q[g[k]].val]
      /\ \A k, m \in 1 .. c : k < m => g[k] < g[m]
      /\ \A i \in LogSlots(q) : \E k \in 1 .. c : g[k] = i
  BY <1>1 DEF Enumerates
<1> DEFINE n == Len(q)
<1>3. n \in Nat /\ \A i \in LogSlots(q) : i \in 1 .. n
  BY LogSlotsAre
<1>4. r[n + 1].val = v /\ r[n + 1].state = "reserved"
  BY DEF Slot
<1>5. CASE v.kind = "Log"
  <2>1. LogSlots(r) = LogSlots(q) \cup {n + 1}
    BY <1>3, <1>4, <1>5 DEF LogSlots
  <2> DEFINE h == [k \in 1 .. c + 1 |-> IF k = c + 1 THEN n + 1 ELSE g[k]]
  <2>2. \A k \in 1 .. c : h[k] = g[k] /\ h[k] \in 1 .. n
    BY <1>2, <1>3
  <2>3. h[c + 1] = n + 1 /\ h \in [1 .. c + 1 -> LogSlots(r)]
    BY <1>2, <2>1
  <2> HIDE DEF h
  <2>4. ASSUME NEW k \in 1 .. c + 1, NEW m \in 1 .. c + 1, k < m PROVE h[k] < h[m]
    <3>0. c \in Nat
      BY <1>2
    <3>1. k \in 1 .. c /\ (m \in 1 .. c \/ m = c + 1)
      BY <2>4, <3>0
    <3>2. CASE m \in 1 .. c
      BY <1>2, <2>2, <2>4, <3>1, <3>2
    <3>3. CASE m = c + 1
      BY <1>3, <2>2, <2>3, <3>1, <3>3
    <3> QED
      BY <3>1, <3>2, <3>3
  <2>5. ASSUME NEW i \in LogSlots(r) PROVE \E k \in 1 .. c + 1 : h[k] = i
    <3>1. CASE i = n + 1
      BY <1>2, <2>3, <3>1
    <3>2. CASE i \in LogSlots(q)
      <4>1. PICK k \in 1 .. c : g[k] = i
        BY <1>2, <3>2
      <4> QED
        BY <1>2, <2>2, <4>1
    <3> QED
      BY <2>1, <3>1, <3>2
  <2>6. Enumerates(h, c + 1, LogSlots(r))
    BY <1>2, <2>3, <2>4, <2>5 DEF Enumerates
  <2>7. WaitingIn(r) = [k \in 1 .. c + 1 |-> r[h[k]].val]
    BY <2>6, WaitingIs
  <2>8. \A k \in 1 .. c : r[h[k]].val = q[g[k]].val
    BY <2>2
  <2> DEFINE w == [k \in 1 .. c |-> q[g[k]].val]
  <2>9. w \in Seq(Logs) /\ Len(w) = c
    BY <1>2, WaitingType
  <2>10. \A k \in 1 .. c : w[k] = r[h[k]].val
    BY <2>8
  <2> HIDE DEF w
  <2>11. Append(w, v) = [k \in 1 .. c + 1 |-> r[h[k]].val]
    <3>1. v \in Logs
      BY <1>5 DEF Items, Logs
    <3>2. Append(w, v) = [k \in 1 .. c + 1 |-> IF k = c + 1 THEN v ELSE w[k]]
      <4> DEFINE a == Append(w, v)
      <4>1. a \in Seq(Logs) /\ Len(a) = c + 1 /\ a[c + 1] = v /\ \A k \in 1 .. c : a[k] = w[k]
        BY <2>9, <3>1, AppendProperties
      <4>2. \A k \in 1 .. c + 1 : a[k] = IF k = c + 1 THEN v ELSE w[k]
        <5>1. \A k \in 1 .. c + 1 : k = c + 1 \/ k \in 1 .. c
          BY <1>2
        <5> HIDE DEF a
        <5> QED
          BY <4>1, <5>1
      <4> HIDE DEF a
      <4>3. a = [k \in 1 .. c + 1 |-> a[k]]
        BY <4>1
      <4>4. a = [k \in 1 .. c + 1 |-> IF k = c + 1 THEN v ELSE w[k]]
        BY <4>2, <4>3
      <4> QED
        BY <4>4 DEF a
    <3>3. r[h[c + 1]].val = v
      BY <1>4, <2>3
    <3>4. \A k \in 1 .. c + 1 : k = c + 1 \/ k \in 1 .. c
      BY <2>9
    <3> QED
      BY <2>10, <3>2, <3>3, <3>4
  <2> QED
    BY <1>2, <1>5, <2>7, <2>11 DEF w
<1>6. CASE v.kind # "Log"
  <2>1. LogSlots(r) = LogSlots(q)
    BY <1>3, <1>4, <1>6 DEF LogSlots
  <2>2. WaitingIn(r) = [k \in 1 .. c |-> r[g[k]].val]
    BY <1>1, <2>1, WaitingIs
  <2>3. \A k \in 1 .. c : r[g[k]] = q[g[k]]
    BY <1>2, <1>3
  <2> QED
    BY <1>2, <1>6, <2>2, <2>3
<1> QED
  BY <1>5, <1>6

\* Publication does not matter.
LEMMA WaitingPublish ==
    ASSUME NEW q \in Seq(SlotType), NEW r \in Seq(SlotType), Len(r) = Len(q),
           \A i \in 1 .. Len(q) : r[i].val = q[i].val,
           \A i \in 1 .. Len(q) : r[i].state = "taken" <=> q[i].state = "taken"
    PROVE  WaitingIn(r) = WaitingIn(q)
<1>1. PICK c, g : Enumerates(g, c, LogSlots(q))
  BY EnumerationExists
<1>2. LogSlots(r) = LogSlots(q)
  BY DEF LogSlots
<1>3. /\ WaitingIn(q) = [k \in 1 .. c |-> q[g[k]].val]
      /\ WaitingIn(r) = [k \in 1 .. c |-> r[g[k]].val]
  BY <1>1, <1>2, WaitingIs
<1>4. \A k \in 1 .. c : g[k] \in 1 .. Len(q)
  BY <1>1 DEF Enumerates, LogSlots
<1> QED
  BY <1>3, <1>4

\* The log that is taken is the one that has waited longest.
LEMMA WaitingTake ==
    ASSUME NEW q \in Seq(SlotType), NEW r \in Seq(SlotType), Len(q) > 0,
           q[1].state # "taken", Len(r) = Len(q), r[1] = Slot(q[1].val, "taken"),
           \A i \in 2 .. Len(q) : r[i] = q[i]
    PROVE  IF q[1].val.kind = "Log" THEN WaitingIn(q) = <<q[1].val>> \o WaitingIn(r)
                                    ELSE WaitingIn(q) = WaitingIn(r)
<1>1. PICK c, g : /\ Enumerates(g, c, LogSlots(q))
                  /\ WaitingIn(q) = [k \in 1 .. c |-> q[g[k]].val]
  BY WaitingList
<1>2. /\ c \in Nat /\ g \in [1 .. c -> LogSlots(q)] /\ WaitingIn(q) = [k \in 1 .. c |-> q[g[k]].val]
      /\ \A k, m \in 1 .. c : k < m => g[k] < g[m]
      /\ \A i \in LogSlots(q) : \E k \in 1 .. c : g[k] = i
  BY <1>1 DEF Enumerates
<1>3. Len(q) \in Nat /\ \A i \in LogSlots(q) : i \in 1 .. Len(q)
  BY LogSlotsAre
<1>4. r[1].state = "taken"
  BY DEF Slot
<1>5. CASE q[1].val.kind = "Log"
  <2>1. 1 \in LogSlots(q) /\ LogSlots(r) = LogSlots(q) \ {1}
    BY <1>3, <1>4, <1>5 DEF LogSlots
  <2>2. c \in Nat \ {0} /\ g[1] = 1
    <3>1. PICK k \in 1 .. c : g[k] = 1
      BY <1>2, <2>1
    <3>2. k = 1
      <4>1. 1 \in 1 .. c /\ g[1] \in 1 .. Len(q)
        BY <1>2, <1>3
      <4> QED
        BY <1>2, <3>1, <4>1
    <3> QED
      BY <1>2, <3>1, <3>2
  <2>3. ASSUME NEW k \in 2 .. c PROVE g[k] \in LogSlots(r) /\ g[k] \in 2 .. Len(q)
    <3>1. 1 \in 1 .. c /\ k \in 1 .. c /\ 1 < k
      BY <2>2
    <3>2. g[k] \in LogSlots(q) /\ g[1] < g[k] /\ g[k] \in 1 .. Len(q)
      BY <1>2, <1>3, <3>1
    <3> QED
      BY <2>1, <2>2, <3>2
  <2> DEFINE h == [k \in 1 .. c - 1 |-> g[k + 1]]
  <2>4. h \in [1 .. c - 1 -> LogSlots(r)] /\ \A k \in 1 .. c - 1 : h[k] = g[k + 1]
    BY <2>2, <2>3
  <2> HIDE DEF h
  <2>5. ASSUME NEW k \in 1 .. c - 1, NEW m \in 1 .. c - 1, k < m PROVE h[k] < h[m]
    <3>1. k + 1 \in 1 .. c /\ m + 1 \in 1 .. c /\ k + 1 < m + 1
      BY <2>2, <2>5
    <3> QED
      BY <1>2, <2>4, <3>1
  <2>6. ASSUME NEW i \in LogSlots(r) PROVE \E k \in 1 .. c - 1 : h[k] = i
    <3>1. PICK k \in 1 .. c : g[k] = i
      BY <1>2, <2>1
    <3>2. k # 1
      BY <2>1, <2>2, <3>1
    <3>3. k - 1 \in 1 .. c - 1 /\ (k - 1) + 1 = k
      BY <2>2, <3>2
    <3> QED
      BY <2>4, <3>1, <3>3
  <2>7. Enumerates(h, c - 1, LogSlots(r))
    BY <2>2, <2>4, <2>5, <2>6 DEF Enumerates
  <2>8. WaitingIn(r) = [k \in 1 .. c - 1 |-> r[h[k]].val]
    BY <2>7, WaitingIs
  <2>9. \A k \in 1 .. c - 1 : r[h[k]].val = q[g[k + 1]].val
    <3> TAKE k \in 1 .. c - 1
    <3>1. k + 1 \in 2 .. c
      BY <2>2
    <3> QED
      BY <2>3, <2>4, <3>1
  <2> DEFINE w == WaitingIn(r)
  <2>10. w \in Seq(Logs) /\ Len(w) = c - 1 /\ \A k \in 1 .. c - 1 : w[k] = q[g[k + 1]].val
    BY <2>2, <2>8, <2>9, WaitingType
  <2> HIDE DEF w
  <2>11. <<q[1].val>> \o w = [k \in 1 .. c |-> q[g[k]].val]
    BY <2>2, <2>10
  <2> QED
    BY <1>2, <1>5, <2>11 DEF w
<1>6. CASE q[1].val.kind # "Log"
  <2>1. LogSlots(r) = LogSlots(q) /\ 1 \notin LogSlots(q)
    BY <1>3, <1>4, <1>6 DEF LogSlots
  <2>2. WaitingIn(r) = [k \in 1 .. c |-> r[g[k]].val]
    BY <1>1, <2>1, WaitingIs
  <2>3. \A k \in 1 .. c : r[g[k]] = q[g[k]]
    BY <1>2, <1>3, <2>1
  <2> QED
    BY <1>2, <1>6, <2>2, <2>3
<1> QED
  BY <1>5, <1>6

\* A slot that has been taken may be released.
LEMMA WaitingRelease ==
    ASSUME NEW q \in Seq(SlotType), NEW r \in Seq(SlotType), Len(q) > 0,
           q[1].state = "taken", Len(r) = Len(q) - 1,
           \A i \in 1 .. Len(r) : r[i] = q[i + 1]
    PROVE  WaitingIn(r) = WaitingIn(q)
<1>1. PICK c, g : /\ Enumerates(g, c, LogSlots(q))
                  /\ WaitingIn(q) = [k \in 1 .. c |-> q[g[k]].val]
  BY WaitingList
<1>2. /\ c \in Nat /\ g \in [1 .. c -> LogSlots(q)] /\ WaitingIn(q) = [k \in 1 .. c |-> q[g[k]].val]
      /\ \A k, m \in 1 .. c : k < m => g[k] < g[m]
      /\ \A i \in LogSlots(q) : \E k \in 1 .. c : g[k] = i
  BY <1>1 DEF Enumerates
<1>3. Len(q) \in Nat /\ \A i \in LogSlots(q) : i \in 2 .. Len(q)
  <2>1. Len(q) \in Nat /\ \A i \in LogSlots(q) : i \in 1 .. Len(q)
    BY LogSlotsAre
  <2>2. 1 \notin LogSlots(q)
    BY DEF LogSlots
  <2> QED
    BY <2>1, <2>2
<1>4. \A i \in 2 .. Len(q) : i \in LogSlots(q) <=> i - 1 \in LogSlots(r)
  <2> TAKE i \in 2 .. Len(q)
  <2>1. i - 1 \in 1 .. Len(r) /\ r[i - 1] = q[i] /\ i \in 1 .. Len(q)
    BY <1>3
  <2> QED
    BY <2>1 DEF LogSlots
<1> DEFINE h == [k \in 1 .. c |-> g[k] - 1]
<1>5. \A k \in 1 .. c : h[k] = g[k] - 1 /\ g[k] \in 2 .. Len(q) /\ h[k] \in LogSlots(r)
  BY <1>2, <1>3, <1>4
<1>6. h \in [1 .. c -> LogSlots(r)]
  BY <1>5
<1> HIDE DEF h
<1>7. ASSUME NEW k \in 1 .. c, NEW m \in 1 .. c, k < m PROVE h[k] < h[m]
  BY <1>2, <1>5, <1>7
<1>8. ASSUME NEW i \in LogSlots(r) PROVE \E k \in 1 .. c : h[k] = i
  <2>1. i \in 1 .. Len(r)
    BY DEF LogSlots
  <2>2. i + 1 \in 2 .. Len(q) /\ (i + 1) - 1 = i
    BY <1>3, <2>1
  <2>3. PICK k \in 1 .. c : g[k] = i + 1
    BY <1>2, <1>4, <2>2
  <2> QED
    BY <1>5, <2>2, <2>3
<1>9. Enumerates(h, c, LogSlots(r))
  BY <1>2, <1>6, <1>7, <1>8 DEF Enumerates
<1>10. WaitingIn(r) = [k \in 1 .. c |-> r[h[k]].val]
  BY <1>9, WaitingIs
<1>11. \A k \in 1 .. c : r[h[k]] = q[g[k]]
  <2> TAKE k \in 1 .. c
  <2>1. h[k] \in 1 .. Len(r) /\ h[k] + 1 = g[k]
    BY <1>3, <1>5
  <2> QED
    BY <2>1
<1> QED
  BY <1>2, <1>10, <1>11

(***************************************************************************)
(* The lines LoggerPromise has pending: what the worker holds and what     *)
(* waits for it.                                                           *)
(***************************************************************************)

\* Only logs are pending.
LEMMA PendingType ==
    ASSUME TypeInv
    PROVE  /\ WaitingIn(queue) \in Seq(Logs)
           /\ LogInHand # {} => wItem \in Logs
<1>1. queue \in Seq(SlotType) /\ wItem \in Items \cup {None}
  BY DEF TypeInv, SharedTypes, WorkerTypes
<1>2. LogInHand # {} => wItem \in Logs
  BY <1>1 DEF LogInHand, Items, Logs
<1> QED
  BY <1>1, <1>2, WaitingType

\* A line becomes pending when it gets its slot,
LEMMA PendingReserve ==
    ASSUME TypeInv, NEW t \in Clients, PublishReserve(t)
    PROVE  Pending' = IF item[t].kind = "Log" THEN Append(Pending, item[t]) ELSE Pending
<1>1. Reserve(item[t]) /\ item[t] \in Items /\ queue \in Seq(SlotType) /\ wItem' = wItem
  BY DEF PublishReserve, Go, TypeInv, ClientTypes, SharedTypes, FitsAt, PublishPcs,
         workerOwned, working
<1>2. /\ queue' \in Seq(SlotType) /\ Len(queue') = Len(queue) + 1
      /\ \A i \in 1 .. Len(queue) : queue'[i] = queue[i]
      /\ queue'[Len(queue) + 1] = Slot(item[t], "reserved")
  BY <1>1, ReserveProperties
<1> DEFINE w == WaitingIn(queue)
           hand == IF LogInHand = {} THEN <<>> ELSE <<wItem>>
           v == item[t]
<1>3. WaitingIn(queue') = IF v.kind = "Log" THEN Append(w, v) ELSE w
  BY <1>1, <1>2, WaitingReserve
<1>4. Pending = hand \o w /\ Pending' = hand \o WaitingIn(queue')
  BY <1>1 DEF Pending, LogInHand
<1>5. CASE v.kind = "Log"
  <2>1. v \in Logs
    BY <1>1, <1>5 DEF Items, Logs
  <2>2. w \in Seq(Logs) /\ hand \in Seq(Logs)
    BY PendingType
  <2> HIDE DEF w, hand, v
  <2>3. hand \o Append(w, v) = Append(hand \o w, v)
    <3>1. /\ Append(w, v) = w \o <<v>> /\ <<v>> \in Seq(Logs) /\ hand \o w \in Seq(Logs)
      BY <2>1, <2>2, AppendIsConcat
    <3>2. Append(hand \o w, v) = (hand \o w) \o <<v>>
      BY <2>1, <3>1, AppendIsConcat
    <3>3. hand \o (w \o <<v>>) = (hand \o w) \o <<v>>
      BY <2>2, <3>1, ConcatAssociative
    <3> QED
      BY <3>1, <3>2, <3>3
  <2>4. Pending' = Append(Pending, v)
    BY <1>3, <1>4, <1>5, <2>3
  <2> QED
    BY <1>5, <2>4 DEF v
<1>6. CASE v.kind # "Log"
  BY <1>3, <1>4, <1>6
<1> QED
  BY <1>5, <1>6

\* it stays so while it is published, taken and released,
LEMMA PendingStays ==
    ASSUME TypeInv, SlotInv, HandInv, ReservedInv, DistinctInv, TakenInv, [Next]_vars,
           \A t \in Clients : ~ PublishReserve(t), ~ HandleLog
    PROVE  Pending' = Pending
<1>0. queue \in Seq(SlotType) /\ Len(queue) \in Nat
  BY DEF TypeInv, SharedTypes
<1>1. CASE Still
  BY <1>1 DEF Still, Pending, LogInHand
<1>2. ASSUME NEW t \in Clients, PublishSlot(t) PROVE Pending' = Pending
  <2>1. Publish(item[t]) /\ item[t] \in Items /\ pc[t] = "publishSlot" /\ wItem' = wItem
    BY <1>2 DEF PublishSlot, Go, TypeInv, ClientTypes, FitsAt, PublishPcs, workerOwned, working
  <2>2. /\ queue' \in Seq(SlotType) /\ Len(queue') = Len(queue)
        /\ \A i \in 1 .. Len(queue) :
              queue'[i] = IF queue[i].val = item[t] THEN Slot(item[t], "ready") ELSE queue[i]
    BY <1>0, <2>1, PublishProperties
  <2>3. PICK i \in 1 .. Len(queue) :
           /\ queue[i] = Slot(item[t], "reserved")
           /\ \A j \in 1 .. Len(queue) : queue[j].val = item[t] <=> j = i
    BY <2>1, PublishedSlot
  <2>4. /\ \A j \in 1 .. Len(queue) : queue'[j].val = queue[j].val
        /\ \A j \in 1 .. Len(queue) : queue'[j].state = "taken" <=> queue[j].state = "taken"
    BY <2>2, <2>3 DEF Slot
  <2>5. WaitingIn(queue') = WaitingIn(queue)
    BY <1>0, <2>2, <2>4, WaitingPublish
  <2> QED
    BY <2>1, <2>5 DEF Pending, LogInHand
<1>3. CASE TakeItem
  <2>1. HeadReady /\ Take /\ wItem' = queue[1].val /\ wpc \notin Holding
    BY <1>3 DEF TakeItem, WGo, Holding, ItemPcs, FailPcs
  <2>2. wItem = None /\ LogInHand = {}
    BY <2>1 DEF HandInv, LogInHand
  <2>3. /\ queue' \in Seq(SlotType) /\ Len(queue') = Len(queue) /\ Len(queue) > 0
        /\ queue[1] \in SlotType
        /\ queue'[1] = Slot(queue[1].val, "taken")
        /\ \A i \in 2 .. Len(queue) : queue'[i] = queue[i]
    BY <1>0, <2>1, TakeProperties
  <2>4. queue[1].state # "taken"
    BY <2>1 DEF HeadReady
  <2>5. IF queue[1].val.kind = "Log"
        THEN WaitingIn(queue) = <<queue[1].val>> \o WaitingIn(queue')
        ELSE WaitingIn(queue) = WaitingIn(queue')
    BY <1>0, <2>3, <2>4, WaitingTake
  <2>6. Pending = WaitingIn(queue)
    <3>1. WaitingIn(queue) \in Seq(Logs)
      BY PendingType
    <3> DEFINE w == WaitingIn(queue)
    <3> HIDE DEF w
    <3>2. <<>> \o w = w
      BY <3>1 DEF w
    <3> QED
      BY <2>2, <3>2 DEF Pending, w
  <2>7. CASE queue[1].val.kind = "Log"
    <3>1. wItem' # None
      BY <2>1, <2>3, NoneAssumption DEF SlotType
    <3>2. LogInHand' # {}
      BY <2>1, <2>7, <3>1 DEF LogInHand
    <3> QED
      BY <2>1, <2>5, <2>6, <2>7, <3>2 DEF Pending
  <2>8. CASE queue[1].val.kind # "Log"
    <3>1. LogInHand' = {}
      BY <2>1, <2>8 DEF LogInHand
    <3>2. WaitingIn(queue') \in Seq(Logs)
      BY <2>3, WaitingType
    <3> DEFINE w == WaitingIn(queue')
    <3>3. Pending' = <<>> \o w
      BY <3>1 DEF Pending
    <3> HIDE DEF w
    <3>4. <<>> \o w = w
      BY <3>2 DEF w
    <3> QED
      BY <2>5, <2>6, <2>8, <3>3, <3>4 DEF w
  <2> QED
    BY <2>7, <2>8
<1>4. CASE ReleaseSlot
  <2>1. Release /\ wpc = "release" /\ queue # <<>> /\ wItem' = wItem
    BY <1>4 DEF ReleaseSlot, WGo, TypeInv, SharedTypes, working
  <2>2. queue[1].state = "taken" /\ Len(queue) > 0
    BY <1>0, <2>1, EmptySeq DEF TakenInv
  <2>3. /\ queue' \in Seq(SlotType) /\ Len(queue') = Len(queue) - 1
        /\ \A i \in 1 .. Len(queue') : queue'[i] = queue[i + 1]
    BY <1>0, <2>1, ReleaseProperties
  <2>4. WaitingIn(queue') = WaitingIn(queue)
    BY <1>0, <2>2, <2>3, WaitingRelease
  <2> QED
    BY <2>1, <2>4 DEF Pending, LogInHand
<1>5. CASE NotifyFlushers
  <2>1. wpc = "flushNotify" /\ wItem' = None /\ queue' = queue
    BY <1>5 DEF NotifyFlushers, WGo, logger
  <2>2. LogInHand = {} /\ LogInHand' = {}
    BY <2>1 DEF HandInv, LogInHand
  <2> QED
    BY <2>1, <2>2 DEF Pending
<1> QED
  BY <1>1, <1>2, <1>3, <1>4, <1>5, LineStep DEF Moves

\* and the one that is written is the oldest.
LEMMA PendingWrite ==
    ASSUME TypeInv, HandleLog
    PROVE  /\ Pending # <<>>
           /\ Head(Pending) = wItem
           /\ Pending' = Tail(Pending)
<1>1. wItem \in Logs /\ LogInHand # {} /\ wItem' = None /\ queue' = queue
  BY PendingType DEF HandleLog, LogInHand, logger
<1> DEFINE w == WaitingIn(queue)
<1>2. w \in Seq(Logs)
  BY PendingType
<1>3. Pending = <<wItem>> \o w /\ Pending' = <<>> \o w
  BY <1>1 DEF Pending, LogInHand
<1> HIDE DEF w
<1>4. /\ <<wItem>> \o w # <<>> /\ Head(<<wItem>> \o w) = wItem
      /\ Tail(<<wItem>> \o w) = w /\ <<>> \o w = w
  <2> DEFINE p == <<wItem>> \o w
  <2>1. /\ p \in Seq(Logs) /\ Len(p) = Len(w) + 1 /\ p[1] = wItem
        /\ \A i \in 1 .. Len(w) : p[i + 1] = w[i]
    BY <1>1, <1>2
  <2>2. <<>> \o w = w
    BY <1>2
  <2> HIDE DEF p
  <2>3. p # <<>> /\ Head(p) = wItem
    BY <1>2, <2>1
  <2>4. /\ Tail(p) \in Seq(Logs) /\ Len(Tail(p)) = Len(w)
        /\ \A i \in 1 .. Len(Tail(p)) : Tail(p)[i] = p[i + 1]
    BY <1>2, <2>1, <2>3, HeadTailProperties
  <2>5. Tail(p) = w
    <3> DEFINE u == Tail(p)
    <3>1. /\ u \in Seq(Logs) /\ Len(u) = Len(w)
          /\ \A i \in 1 .. Len(u) : u[i] = w[i]
      BY <2>1, <2>4
    <3> HIDE DEF u
    <3>2. u = w
      BY <1>2, <3>1, SeqEqual
    <3> QED
      BY <3>2 DEF u
  <2> QED
    BY <2>2, <2>3, <2>5 DEF p
<1> QED
  BY <1>3, <1>4

\* What waits are the logs in the slots nobody has taken.
LEMMA WaitingElements ==
    ASSUME NEW q \in Seq(SlotType)
    PROVE  \A m : m \in Elements(WaitingIn(q)) <=> \E i \in LogSlots(q) : q[i].val = m
<1>1. PICK c, g : /\ Enumerates(g, c, LogSlots(q))
                  /\ WaitingIn(q) = [k \in 1 .. c |-> q[g[k]].val]
  BY WaitingList
<1> DEFINE w == WaitingIn(q)
<1>2. w \in Seq(Logs) /\ w = [k \in 1 .. c |-> q[g[k]].val] /\ c \in Nat
  BY <1>1, WaitingType DEF Enumerates
<1> HIDE DEF w
<1>3. Len(w) = c
  BY <1>2
<1>4. \A m : m \in Elements(w) <=> \E k \in 1 .. c : q[g[k]].val = m
  BY <1>2, <1>3 DEF Elements
<1>5. /\ \A k \in 1 .. c : g[k] \in LogSlots(q)
      /\ \A i \in LogSlots(q) : \E k \in 1 .. c : g[k] = i
  BY <1>1 DEF Enumerates
<1>6. \A m : m \in Elements(w) <=> \E i \in LogSlots(q) : q[i].val = m
  BY <1>4, <1>5
<1> QED
  BY <1>6 DEF w

\* The logs that have their slot are those written or pending.
LEMMA PendingElements ==
    ASSUME TypeInv, SlotInv, HandInv, ConservedInv
    PROVE  accepted \cup ReservedLogs = Promise!Elements(sinkOut) \cup Promise!Elements(Pending)
<1>0. queue \in Seq(SlotType) /\ Len(queue) \in Nat
  BY DEF TypeInv, SharedTypes
<1> DEFINE w == WaitingIn(queue)
           hand == IF LogInHand = {} THEN <<>> ELSE <<wItem>>
<1>1. w \in Seq(Logs) /\ hand \in Seq(Logs) /\ Elements(hand) = LogInHand
  <2>1. w \in Seq(Logs) /\ (LogInHand # {} => wItem \in Logs /\ LogInHand = {wItem})
    BY PendingType DEF LogInHand
  <2>2. CASE LogInHand = {}
    BY <2>1, <2>2 DEF Elements
  <2>3. CASE LogInHand # {}
    <3>1. hand = <<wItem>>
      BY <2>3
    <3>2. Elements(<<wItem>>) = {wItem}
      BY DEF Elements
    <3>3. <<wItem>> \in Seq(Logs) /\ LogInHand = {wItem}
      BY <2>1, <2>3
    <3> HIDE DEF hand, w
    <3> QED
      BY <2>1, <3>1, <3>2, <3>3
  <2> QED
    BY <2>2, <2>3
<1>2. Pending = hand \o w
  BY DEF Pending
<1>3. Promise!Elements(sinkOut) = WrittenLogs
  BY DEF Promise!Elements, WrittenLogs, Elements
<1>4. Promise!Elements(Pending) = LogInHand \cup Elements(w)
  <2> HIDE DEF hand, w
  <2> DEFINE p == hand \o w
  <2>1. /\ p \in Seq(Logs) /\ Len(p) = Len(hand) + Len(w)
        /\ Len(hand) \in Nat /\ Len(w) \in Nat
        /\ \A i \in 1 .. Len(hand) : p[i] = hand[i]
        /\ \A i \in 1 .. Len(w) : p[Len(hand) + i] = w[i]
    BY <1>1, ConcatProperties
  <2> HIDE DEF p
  <2>2. \A i \in 1 .. Len(p) : i \in 1 .. Len(hand) \/ i - Len(hand) \in 1 .. Len(w)
    BY <2>1
  <2>3. Elements(p) = Elements(hand) \cup Elements(w)
    <3>1. ASSUME NEW m \in Elements(p) PROVE m \in Elements(hand) \cup Elements(w)
      <4>1. PICK i \in 1 .. Len(p) : p[i] = m
        BY DEF Elements
      <4>2. CASE i \in 1 .. Len(hand)
        BY <2>1, <4>1, <4>2 DEF Elements
      <4>3. CASE i - Len(hand) \in 1 .. Len(w)
        <5>1. i = Len(hand) + (i - Len(hand))
          BY <2>1
        <5>2. w[i - Len(hand)] = m
          BY <2>1, <4>1, <4>3, <5>1
        <5> QED
          BY <4>3, <5>2 DEF Elements
      <4> QED
        BY <2>2, <4>2, <4>3
    <3>2. ASSUME NEW m \in Elements(hand) PROVE m \in Elements(p)
      <4>1. PICK i \in 1 .. Len(hand) : hand[i] = m
        BY DEF Elements
      <4>2. i \in 1 .. Len(p) /\ p[i] = m
        BY <2>1, <4>1
      <4> QED
        BY <4>2 DEF Elements
    <3>3. ASSUME NEW m \in Elements(w) PROVE m \in Elements(p)
      <4>1. PICK i \in 1 .. Len(w) : w[i] = m
        BY DEF Elements
      <4>2. Len(hand) + i \in 1 .. Len(p) /\ p[Len(hand) + i] = m
        BY <2>1, <4>1
      <4> QED
        BY <4>2 DEF Elements
    <3> QED
      BY <3>1, <3>2, <3>3
  <2>4. Promise!Elements(p) = Elements(p)
    BY DEF Promise!Elements, Elements
  <2> QED
    BY <1>1, <1>2, <2>3, <2>4 DEF p
<1>5. \A m : m \in Elements(w) <=> \E i \in LogSlots(queue) : queue[i].val = m
  BY <1>0, WaitingElements
<1>6. ReadyLogs \subseteq Elements(w)
  <2> SUFFICES ASSUME NEW m \in ReadyLogs PROVE m \in Elements(w)
    OBVIOUS
  <2>1. PICK i \in 1 .. Len(queue) : queue[i].state = "ready" /\ queue[i].val = m /\ m.kind = "Log"
    BY DEF ReadyLogs, Elements
  <2>2. i \in LogSlots(queue)
    BY <2>1 DEF LogSlots
  <2> HIDE DEF w
  <2> QED
    BY <1>5, <2>1, <2>2
<1>7. ASSUME NEW m \in ReservedLogs PROVE m \in Elements(w) \/ m \in LogInHand
  <2>1. PICK i \in 1 .. Len(queue) : queue[i].val = m /\ m.kind = "Log"
    BY DEF ReservedLogs
  <2>2. CASE queue[i].state = "taken"
    <3>1. i = 1 /\ wpc = "release" /\ m = wItem
      BY <2>1, <2>2 DEF SlotInv, HandInv
    <3>2. m # None
      BY <2>1, NoneAssumption, SlotsAreTyped
    <3> QED
      BY <2>1, <3>1, <3>2 DEF LogInHand
  <2>3. CASE queue[i].state # "taken"
    <3>1. i \in LogSlots(queue)
      BY <2>1, <2>3 DEF LogSlots
    <3> QED
      BY <1>5, <2>1, <3>1
  <2> QED
    BY <2>2, <2>3
<1>8. Elements(w) \subseteq ReservedLogs
  BY <1>5 DEF ReservedLogs, LogSlots
<1>9. accepted = ReadyLogs \cup LogInHand \cup WrittenLogs
  BY DEF ConservedInv
<1> QED
  <2> HIDE DEF w, hand
  <2> QED
    BY <1>3, <1>4, <1>6, <1>7, <1>8, <1>9

(***************************************************************************)
(* Each step as a step of LoggerPromise.                                   *)
(***************************************************************************)

\* The records of a client that has no result yet.
LEMMA SucceededStays ==
    ASSUME TypeInv, ResultInv, NEW t \in Clients, Call(t) \/ ClientStep(t),
           ~ FlushResult(t), ~ FinishOperation(t)
    PROVE  Succeeded' = Succeeded
<1>1. \A u \in Clients \ {t} : result'[u] = result[u] /\ item'[u] = item[u]
  BY OthersStep, OthersRecords DEF OthersUnchanged
<1>2. pc[t] # "finish"
  BY DEF Call, CallRefused, StartLog, StartFlush, StartStop, ClientStep, LogCheckFailed,
     LogCheckLevel, PublishCount, PublishCheckFailed, PublishReserve, PublishFull,
     PublishSlot, PublishUncount, PublishDrop, NotifySignal, NotifyOne, FlushCheckJoinable,
     FlushCheckFailed, FlushTicket, FlushLoad, FlushCheckWorker, FlushWait,
     StopCheckJoinable, StopJoin, Jump, Go
<1>3. result[t] => item[t].kind = "Log" /\ pc[t] \in {"publishSignal", "publishNotify"}
  BY <1>2 DEF ResultInv
<1>4. CASE PublishSlot(t)
  <2>1. result'[t] = (item[t].kind = "Log") /\ item' = item
    BY <1>4 DEF PublishSlot, isLog, TypeInv, ClientTypes
  <2> QED
    BY <1>1, <1>3, <2>1 DEF Succeeded
<1>5. CASE ~ PublishSlot(t)
  <2>1. result' = result
    BY <1>5 DEF Call, CallRefused, StartLog, StartFlush, StartStop, ClientStep, LogCheckFailed,
       LogCheckLevel, PublishCount, PublishCheckFailed, PublishReserve, PublishFull,
       PublishUncount, PublishDrop, NotifySignal, NotifyOne, FlushCheckJoinable,
       FlushCheckFailed, FlushTicket, FlushLoad, FlushCheckWorker, FlushWait,
       StopCheckJoinable, StopJoin, Jump, locals
  <2>2. result[t] => item' = item
    <3> SUFFICES ASSUME pc[t] \in {"publishSignal", "publishNotify"} PROVE item' = item
      BY <1>3
    <3> QED
      BY <1>5 DEF Call, CallRefused, StartLog, StartFlush, StartStop, ClientStep,
         LogCheckFailed, LogCheckLevel, PublishCount, PublishCheckFailed, PublishReserve,
         PublishFull, PublishUncount, PublishDrop, NotifySignal, NotifyOne,
         FlushCheckJoinable, FlushCheckFailed, FlushTicket, FlushLoad, FlushCheckWorker,
         FlushWait, StopCheckJoinable, StopJoin, Jump, Go, locals
  <2> QED
    BY <1>1, <1>3, <2>1, <2>2 DEF Succeeded
<1> QED
  BY <1>4, <1>5

promised == <<Pending, sinkOut, durable, workerFailed, goal, Succeeded>>

\* The steps of a client.
LEMMA ClientKeepsPromise ==
    ASSUME IInv, DeliveryInv, UseInv, NEW t \in Clients, Call(t) \/ ClientStep(t)
    PROVE  Promise!Next \/ UNCHANGED promised
<1> USE DEF promised
<1>1. /\ TypeInv /\ ItemOwnerInv /\ SlotInv /\ HandInv /\ ReservedInv /\ ConservedInv
      /\ ResultInv /\ DistinctInv /\ TakenInv /\ PossibleInv /\ [Next]_vars
  BY DEF IInv, DeliveryInv, UseInv, Next
<1>2. UNCHANGED <<sinkOut, durable, workerFailed>> /\ ~ HandleLog
  <2>1. UNCHANGED <<sinkOut, durable, workerFailed, written>>
    BY <1>1, ClientSide DEF sink, outcome
  <2>2. written \in Nat
    BY <1>1 DEF TypeInv, WorkerTypes
  <2> QED
    BY <2>1, <2>2 DEF HandleLog
<1>3. CASE PublishReserve(t)
  <2>1. item[t] \in Items /\ item[t] \in PossibleItems /\ goal' = goal
    BY <1>1, <1>3, NoneAssumption
       DEF PublishReserve, Go, TypeInv, ClientTypes, FitsAt, PublishPcs, PossibleInv, history
  <2>2. Succeeded' = Succeeded
    <3>1. ~ FlushResult(t) /\ ~ FinishOperation(t)
      BY <1>3 DEF PublishReserve, FlushResult, FinishOperation, Go
    <3> QED
      BY <1>1, <3>1, SucceededStays
  <2>3. CASE item[t].kind = "Log"
    <3>1. item[t] \in PossibleLogs
      BY <2>1, <2>3 DEF PossibleItems, FlushItem
    <3>2. Promise!Accept(item[t])
      BY <1>1, <1>2, <1>3, <2>1, <2>2, <2>3, PendingReserve DEF Promise!Accept
    <3> QED
      BY <3>1, <3>2 DEF Promise!Next
  <2>4. CASE item[t].kind # "Log"
    BY <1>1, <1>2, <1>3, <2>1, <2>2, <2>4, PendingReserve
  <2> QED
    BY <2>3, <2>4
<1>4. ASSUME ~ PublishReserve(t) PROVE Pending' = Pending
  <2>1. ASSUME NEW u \in Clients, PublishReserve(u) PROVE FALSE
    <3>1. u # t /\ pc[u] = "tryEnqueue" /\ pc'[u] = "publishSlot"
      BY <1>1, <1>4, <2>1 DEF PublishReserve, Go, TypeInv, ClientTypes
    <3> QED
      BY <1>1, <3>1, OthersStep DEF OthersUnchanged
  <2> QED
    BY <1>1, <1>2, <2>1, PendingStays
<1>5. CASE FlushTicket(t)
  <2>1. ~ PublishReserve(t) /\ ~ FlushResult(t) /\ ~ FinishOperation(t)
    BY <1>5 DEF FlushTicket, PublishReserve, FlushResult, FinishOperation, Go
  <2>2. Succeeded' = Succeeded /\ Pending' = Pending
    BY <1>1, <1>4, <2>1, SucceededStays
  <2>3. goal' = [goal EXCEPT ![t] = Promise!Elements(sinkOut) \cup Promise!Elements(Pending)]
    BY <1>1, <1>5, PendingElements DEF FlushTicket
  <2>4. Promise!BeginFlush(t)
    BY <1>2, <2>2, <2>3 DEF Promise!BeginFlush
  <2> QED
    BY <2>4 DEF Promise!Next
<1>6. CASE FlushResult(t)
  <2>1. /\ pc[t] = "flushResult" /\ result' = [result EXCEPT ![t] = ~ workerFailed]
        /\ UNCHANGED <<item, goal>> /\ item[t].kind = "Flush"
    BY <1>1, <1>6
       DEF FlushResult, Go, history, TypeInv, ClientTypes, FitsAt, FlushItemPcs
  <2>2. ~ PublishReserve(t)
    BY <2>1 DEF PublishReserve, Go
  <2>3. result[t] = FALSE /\ \A u \in Clients : result[u] \in BOOLEAN
    BY <1>1, <2>1 DEF ResultInv, TypeInv, ClientTypes
  <2>4. Succeeded' = [Succeeded EXCEPT ![t] = ~ workerFailed]
    <3>1. \A u \in Clients : result'[u] = IF u = t THEN ~ workerFailed ELSE result[u]
      BY <1>1, <2>1 DEF TypeInv, ClientTypes
    <3> QED
      BY <2>1, <3>1 DEF Succeeded
  <2>5. CASE ~ workerFailed
    <3>1. goal[t] \subseteq { sinkOut[i] : i \in 1 .. durable }
      BY <2>1, <2>5 DEF DeliveryInv, GoalInv, GoalOf, DurableLogs
    <3>2. Promise!Succeed(t)
      BY <1>2, <1>4, <2>1, <2>2, <2>4, <2>5, <3>1 DEF Promise!Succeed
    <3> QED
      BY <3>2 DEF Promise!Next
  <2>6. CASE workerFailed
    <3>1. Succeeded' = Succeeded
      <4>1. Succeeded[t] = FALSE
        BY <2>3 DEF Succeeded
      <4>2. Succeeded = [Succeeded EXCEPT ![t] = FALSE]
        BY <4>1 DEF Succeeded
      <4> QED
        BY <2>4, <2>6, <4>2
    <3> QED
      BY <1>2, <1>4, <2>1, <2>2, <3>1
  <2> QED
    BY <2>5, <2>6
<1>7. CASE FinishOperation(t)
  <2>1. /\ result' = [result EXCEPT ![t] = FALSE] /\ item' = [item EXCEPT ![t] = None]
        /\ goal' = [goal EXCEPT ![t] = {}] /\ pc[t] = "finish"
    BY <1>7 DEF FinishOperation, Go
  <2>2. ~ PublishReserve(t)
    BY <2>1 DEF PublishReserve, Go
  <2>3. Succeeded' = [Succeeded EXCEPT ![t] = FALSE]
    <3>1. /\ result'[t] = FALSE
          /\ \A u \in Clients \ {t} : result'[u] = result[u] /\ item'[u] = item[u]
      BY <1>1, <2>1 DEF TypeInv, ClientTypes
    <3> QED
      BY <3>1 DEF Succeeded
  <2>4. Promise!EndCall(t)
    BY <1>2, <1>4, <2>1, <2>2, <2>3 DEF Promise!EndCall
  <2> QED
    BY <2>4 DEF Promise!Next
<1>8. CASE ~ PublishReserve(t) /\ ~ FlushTicket(t) /\ ~ FlushResult(t) /\ ~ FinishOperation(t)
  <2>1. goal' = goal
    BY <1>8 DEF Call, CallRefused, StartLog, StartFlush, StartStop, ClientStep, LogCheckFailed,
       LogCheckLevel, PublishCount, PublishCheckFailed, PublishFull, PublishSlot,
       PublishUncount, PublishDrop, NotifySignal, NotifyOne, FlushCheckJoinable,
       FlushCheckFailed, FlushLoad, FlushCheckWorker, FlushWait,
       StopCheckJoinable, StopJoin, Jump, history
  <2> QED
    BY <1>1, <1>2, <1>4, <1>8, <2>1, SucceededStays
<1> QED
  BY <1>3, <1>5, <1>6, <1>7, <1>8

\* The steps of the worker and of the options.
LEMMA WorkerKeepsPromise ==
    ASSUME IInv, DeliveryInv, UseInv,
           WorkerStep \/ SinkThrows \/ SpuriousWakeup \/ SetLevel \/ SetFlushLevel \/ UNCHANGED vars
    PROVE  Promise!Next \/ UNCHANGED promised
<1> USE DEF promised
<1>1. /\ TypeInv /\ FlagInv /\ SlotInv /\ HandInv /\ ReservedInv /\ DistinctInv /\ TakenInv
      /\ [Next]_vars
  BY DEF IInv, DeliveryInv, UseInv, Next
<1>2. goal' = goal /\ Succeeded' = Succeeded
  BY <1>1, WorkerSide DEF Succeeded
<1>3. ASSUME ~ HandleLog PROVE Pending' = Pending
  <2>1. ASSUME NEW u \in Clients, PublishReserve(u) PROVE FALSE
    <3>1. pc[u] = "tryEnqueue" /\ pc'[u] = "publishSlot"
      BY <1>1, <2>1 DEF PublishReserve, Go, TypeInv, ClientTypes
    <3> QED
      BY <1>1, <3>1, WorkerSide
  <2> QED
    BY <1>1, <1>3, <2>1, PendingStays
<1>4. CASE HandleLog
  <2>1. /\ sinkOut' = Append(sinkOut, wItem) /\ UNCHANGED <<durable, workerFailed>>
        /\ wpc = "handle"
    BY <1>4 DEF HandleLog, WGo
  <2>2. ~ workerFailed
    BY <1>1, <2>1 DEF FlagInv, FailingPcs
  <2>3. Promise!Write
    BY <1>1, <1>2, <1>4, <2>1, <2>2, PendingWrite DEF Promise!Write
  <2> QED
    BY <2>3 DEF Promise!Next
<1>5. CASE HandleFlush \/ RecheckFlush \/ LevelFlush \/ AutoFlushDue \/ FinalFlush
  <2>1. /\ durable' = Len(sinkOut) /\ UNCHANGED <<sinkOut, workerFailed>>
        /\ wpc \in {"handle", "recheckFlush", "levelFlush", "autoFlush", "finalFlush"}
    BY <1>5 DEF HandleFlush, RecheckFlush, LevelFlush, AutoFlushDue, FinalFlush, SinkFlush,
       WGo, outcome
  <2>2. ~ workerFailed
    BY <1>1, <2>1 DEF FlagInv, FailingPcs
  <2>3. ~ HandleLog
    BY <1>5, <1>1, <2>1 DEF HandleLog, HandleFlush, WGo
  <2>4. Promise!Harden
    BY <1>2, <1>3, <2>1, <2>2, <2>3 DEF Promise!Harden
  <2> QED
    BY <2>4 DEF Promise!Next
<1>6. CASE FailSetFlag
  <2>1. UNCHANGED <<sinkOut, durable>> /\ workerFailed' = TRUE /\ ~ HandleLog
    BY <1>6 DEF FailSetFlag, sink, HandleLog, WGo
  <2>2. Promise!Fail
    BY <1>2, <1>3, <2>1 DEF Promise!Fail
  <2> QED
    BY <2>2 DEF Promise!Next
<1>7. CASE /\ ~ HandleLog /\ ~ HandleFlush /\ ~ RecheckFlush /\ ~ LevelFlush
           /\ ~ AutoFlushDue /\ ~ FinalFlush /\ ~ FailSetFlag
  <2>1. UNCHANGED <<sinkOut, durable, workerFailed>>
    BY <1>7
       DEF WorkerStep, TakeItem, ReleaseSlot, NotifyFlushers, DrainEnds, AutoFlushNotDue,
       CheckStop, LoadSignal, RecheckEmpty, EvaluateWake, Sleep, WaitTimesOut, FailRecord,
       FailCloseGate, FailLoadTicket, FailStoreTicket, FailNotify, SinkThrows,
       SpuriousWakeup, SetLevel, SetFlushLevel, WJump, vars, workerOwned, outcome, sink
  <2> QED
    BY <1>2, <1>3, <1>7, <2>1
<1> QED
  BY <1>4, <1>5, <1>6, <1>7

\* Log, Flush and the worker behave, to the threads that use the logger, as LoggerPromise
\* says: no line is lost, repeated, invented or overtaken while the worker lives, and a
\* Flush that succeeds covers every line that had its place before it.
THEOREM PromiseTheorem == Spec => ImplementsLoggerPromise
<1>1. Init => Promise!Init
  <2> SUFFICES ASSUME Init PROVE Promise!Init
    OBVIOUS
  <2>1. queue = <<>> /\ LogInHand = {}
    BY DEF Init, LogInHand
  <2>2. Pending = <<>>
    <3>1. <<>> \in Seq(SlotType) /\ LogSlots(<<>>) = {}
      BY DEF LogSlots
    <3>2. Cardinality(LogSlots(<<>>)) = 0
      BY <3>1, FS_EmptySet
    <3>3. WaitingIn(<<>>) = <<>>
      BY <3>2 DEF WaitingIn
    <3> QED
      BY <2>1, <3>3 DEF Pending
  <2>3. Succeeded = [t \in Clients |-> FALSE]
    BY DEF Init, Succeeded
  <2> QED
    BY <2>2, <2>3 DEF Init, Promise!Init
<1>2. IInv /\ DeliveryInv /\ UseInv /\ [Next]_vars
      => [Promise!Next]_<<Pending, sinkOut, durable, workerFailed, goal, Succeeded>>
  BY ClientKeepsPromise, WorkerKeepsPromise DEF Next, promised
<1> QED
  BY <1>1, <1>2, RefinementInvariant, PTL DEF Spec, ImplementsLoggerPromise, Promise!Spec

(***************************************************************************)
(* The worker and its sink.                                                *)
(***************************************************************************)

\* Once a failure is recorded the worker is on its way out.
ThrownInv == failureRecorded => wpc \in FailPcs \cup {"exited"}

LEMMA ThrownInit == Init => ThrownInv
BY DEF Init, ThrownInv

\* Steps of the worker that neither call the sink nor record that it has thrown.
OtherWorkerStep ==
    \/ TakeItem \/ ReleaseSlot \/ NotifyFlushers \/ DrainEnds \/ AutoFlushNotDue \/ CheckStop
    \/ LoadSignal \/ RecheckEmpty \/ EvaluateWake \/ Sleep \/ WaitTimesOut
    \/ FailCloseGate \/ FailSetFlag \/ FailLoadTicket \/ FailStoreTicket \/ FailNotify
    \/ SpuriousWakeup \/ SetLevel \/ SetFlushLevel

FlushingStep == HandleFlush \/ RecheckFlush \/ LevelFlush \/ AutoFlushDue \/ FinalFlush

\* Where the worker is when it calls its sink.
CallingPcs == {"handle", "recheckFlush", "levelFlush", "autoFlush", "finalFlush"}

LEMMA OtherSteps ==
    ASSUME OtherWorkerStep
    PROVE  /\ UNCHANGED <<sinkOut, durable, failureRecorded>>
           /\ wpc' = wpc \/ (wpc # "failRecord" /\ wpc' # "failRecord")
           /\ wpc \in FailPcs \cup {"exited"} => wpc' \in FailPcs \cup {"exited"}
<1>1. CASE \/ TakeItem \/ ReleaseSlot \/ NotifyFlushers \/ DrainEnds \/ AutoFlushNotDue
           \/ CheckStop \/ LoadSignal \/ RecheckEmpty \/ EvaluateWake \/ Sleep
           \/ WaitTimesOut \/ SpuriousWakeup
  <2>1. UNCHANGED <<sinkOut, durable, failureRecorded>>
    BY <1>1 DEF TakeItem, ReleaseSlot, NotifyFlushers, DrainEnds, AutoFlushNotDue, CheckStop,
                LoadSignal, RecheckEmpty, EvaluateWake, Sleep, WaitTimesOut, SpuriousWakeup,
                WJump, outcome, sink
  <2>2. wpc \notin FailPcs \cup {"exited"} /\ wpc' \notin FailPcs
    BY <1>1 DEF TakeItem, ReleaseSlot, NotifyFlushers, DrainEnds, AutoFlushNotDue, CheckStop,
                LoadSignal, RecheckEmpty, EvaluateWake, Sleep, WaitTimesOut, SpuriousWakeup,
                WJump, WGo, FailPcs
  <2> QED
    BY <2>1, <2>2 DEF FailPcs
<1>2. CASE \/ FailCloseGate \/ FailSetFlag \/ FailLoadTicket \/ FailStoreTicket \/ FailNotify
  BY <1>2 DEF FailCloseGate, FailSetFlag, FailLoadTicket, FailStoreTicket, FailNotify,
              WGo, outcome, sink, FailPcs
<1>3. CASE SetLevel \/ SetFlushLevel
  BY <1>3 DEF SetLevel, SetFlushLevel, workerOwned, outcome, sink
<1> QED
  BY <1>1, <1>2, <1>3 DEF OtherWorkerStep

\* What the steps that concern the sink do to it.
LEMMA CallingSteps ==
    /\ HandleLog => /\ sinkOut' = Append(sinkOut, wItem) /\ UNCHANGED <<durable, failureRecorded>>
                    /\ wpc \in CallingPcs /\ wpc' \notin FailPcs
    /\ FlushingStep => /\ durable' = Len(sinkOut) /\ UNCHANGED <<sinkOut, failureRecorded>>
                       /\ wpc \in CallingPcs /\ wpc' \notin FailPcs
    /\ SinkThrows => /\ UNCHANGED <<sinkOut, durable, failureRecorded>>
                     /\ wpc \in CallingPcs /\ wpc' = "failRecord"
    /\ FailRecord => /\ UNCHANGED <<sinkOut, durable>> /\ failureRecorded' = TRUE
                     /\ wpc = "failRecord" /\ wpc' = "failGate"
<1> USE DEF CallingPcs, FailPcs
<1>1. HandleLog => /\ sinkOut' = Append(sinkOut, wItem) /\ UNCHANGED <<durable, failureRecorded>>
                   /\ wpc \in CallingPcs /\ wpc' \notin FailPcs
  BY DEF HandleLog, WGo, AfterItem
<1>2. FlushingStep => /\ durable' = Len(sinkOut) /\ UNCHANGED <<sinkOut, failureRecorded>>
                      /\ wpc \in CallingPcs /\ wpc' \notin FailPcs
  BY DEF FlushingStep, HandleFlush, RecheckFlush, LevelFlush, AutoFlushDue, FinalFlush, WGo,
         SinkFlush, outcome
<1>3. SinkThrows => /\ UNCHANGED <<sinkOut, durable, failureRecorded>>
                    /\ wpc \in CallingPcs /\ wpc' = "failRecord"
  BY DEF SinkThrows, WGo, outcome, sink
<1>4. FailRecord => /\ UNCHANGED <<sinkOut, durable>> /\ failureRecorded' = TRUE
                    /\ wpc = "failRecord" /\ wpc' = "failGate"
  BY DEF FailRecord, WGo, sink
<1> QED
  BY <1>1, <1>2, <1>3, <1>4

\* Every step is one of these, or one of a client.
LEMMA StepKinds ==
    ASSUME TypeInv, [Next]_vars
    PROVE  \/ HandleLog \/ FlushingStep \/ SinkThrows \/ FailRecord \/ OtherWorkerStep
           \/ /\ UNCHANGED <<sinkOut, durable, failureRecorded>>
              /\ wpc' = wpc \/ (wpc = "blocked" /\ wpc' = "evaluate")
<1>1. ASSUME NEW t \in Clients, Call(t) \/ ClientStep(t)
      PROVE  /\ UNCHANGED <<sinkOut, durable, failureRecorded>>
             /\ wpc' = wpc \/ (wpc = "blocked" /\ wpc' = "evaluate")
  BY <1>1, ClientSide DEF outcome, sink
<1>2. CASE UNCHANGED vars
  BY <1>2 DEF vars, workerOwned, outcome, sink
<1>3. CASE WorkerStep \/ SinkThrows \/ SpuriousWakeup \/ SetLevel \/ SetFlushLevel
  BY <1>3 DEF WorkerStep, FlushingStep, OtherWorkerStep
<1> QED
  BY <1>1, <1>2, <1>3 DEF Next

LEMMA ThrownNext == TypeInv /\ ThrownInv /\ [Next]_vars => ThrownInv'
<1> SUFFICES ASSUME TypeInv, ThrownInv, [Next]_vars PROVE ThrownInv'
  OBVIOUS
<1>1. CASE HandleLog \/ FlushingStep \/ SinkThrows \/ FailRecord
  BY <1>1, CallingSteps DEF ThrownInv, CallingPcs, FailPcs
<1>2. CASE OtherWorkerStep
  BY <1>2, OtherSteps DEF ThrownInv
<1>3. CASE /\ UNCHANGED <<sinkOut, durable, failureRecorded>>
           /\ wpc' = wpc \/ (wpc = "blocked" /\ wpc' = "evaluate")
  BY <1>3 DEF ThrownInv, FailPcs
<1> QED
  BY <1>1, <1>2, <1>3, StepKinds

\* How it goes with the sink, and what of its lines is durable.
SinkState == IF failureRecorded \/ wpc = "failRecord" THEN "failed" ELSE "running"
Hardened  == SubSeq(sinkOut, 1, durable)

\* A sink that hardens all its lines, or none, makes progress.
LEMMA HardenedGrows ==
    ASSUME TypeInv, sinkOut' = sinkOut, durable' \in {durable, Len(sinkOut)}
    PROVE  Sink!Progress /\ (durable' = Len(sinkOut) => Hardened' = sinkOut)
<1>1. /\ sinkOut \in Seq(Logs) /\ durable \in Nat /\ durable <= Len(sinkOut)
      /\ Len(sinkOut) \in Nat
  BY DEF TypeInv, WorkerTypes
<1>2. ASSUME NEW n \in Nat, n <= Len(sinkOut)
      PROVE  /\ SubSeq(sinkOut, 1, n) \in Seq(Logs) /\ Len(SubSeq(sinkOut, 1, n)) = n
             /\ \A i \in 1 .. n : SubSeq(sinkOut, 1, n)[i] = sinkOut[i]
  BY <1>1, <1>2
<1>3. ASSUME NEW m \in Nat, NEW n \in Nat, m <= n, n <= Len(sinkOut)
      PROVE  Sink!IsPrefix(SubSeq(sinkOut, 1, m), SubSeq(sinkOut, 1, n))
  <2>1. PICK t \in Seq(Logs) : /\ t = SubSeq(sinkOut, 1, n) /\ Len(t) = n
                               /\ \A i \in 1 .. n : t[i] = sinkOut[i]
    BY <1>2, <1>3
  <2>2. PICK s \in Seq(Logs) : /\ s = SubSeq(sinkOut, 1, m) /\ Len(s) = m
                               /\ \A i \in 1 .. m : s[i] = sinkOut[i]
    <3>1. m <= Len(sinkOut)
      BY <1>1, <1>3
    <3> QED
      BY <1>2, <3>1
  <2>3. /\ SubSeq(t, 1, m) \in Seq(Logs) /\ Len(SubSeq(t, 1, m)) = m
        /\ \A i \in 1 .. m : SubSeq(t, 1, m)[i] = t[i]
    BY <1>3, <2>1
  <2>4. SubSeq(t, 1, m) = s
    BY <1>3, <2>1, <2>2, <2>3, SeqEqual
  <2>5. SubSeq(s, 1, m) = s
    BY <2>2, SubSeqFull
  <2> QED
    BY <1>3, <2>1, <2>2, <2>4, <2>5 DEF Sink!IsPrefix
<1>4. SubSeq(sinkOut, 1, Len(sinkOut)) = sinkOut
  BY <1>1, SubSeqFull
<1>5. /\ Sink!IsPrefix(Hardened, Hardened') /\ Sink!IsPrefix(Hardened', sinkOut)
      /\ durable' = Len(sinkOut) => Hardened' = sinkOut
  <2>1. /\ Sink!IsPrefix(Hardened, SubSeq(sinkOut, 1, durable'))
        /\ Sink!IsPrefix(SubSeq(sinkOut, 1, durable'), SubSeq(sinkOut, 1, Len(sinkOut)))
    BY <1>1, <1>3 DEF Hardened
  <2>2. Hardened' = SubSeq(sinkOut, 1, durable')
    BY DEF Hardened
  <2> QED
    BY <1>4, <2>1, <2>2
<1>6. /\ DOMAIN <<Hardened>>' = DOMAIN <<Hardened>>
      /\ \A o \in DOMAIN <<Hardened>> : /\ Sink!IsPrefix(<<Hardened>>[o], <<Hardened>>'[o])
                                         /\ Sink!IsPrefix(<<Hardened>>'[o], sinkOut)
  BY <1>5
<1> QED
  BY <1>5, <1>6 DEF Sink!Progress, Hardened

LEMMA SinkStep ==
    ASSUME TypeInv, ThrownInv, [Next]_vars
    PROVE  Sink!Next \/ UNCHANGED <<sinkOut, <<Hardened>>, durable, SinkState>>
<1>1. wpc \in CallingPcs => SinkState = "running" /\ ~ failureRecorded
  BY DEF ThrownInv, CallingPcs, FailPcs, SinkState
<1>2. CASE HandleLog
  <2>1. /\ sinkOut \in Seq(Logs) /\ sinkOut' \in Seq(Logs)
        /\ durable \in Nat /\ durable <= Len(sinkOut) /\ Len(sinkOut) \in Nat
    <3>1. TypeInv'
      BY TypeNext
    <3> QED
      BY <3>1 DEF TypeInv, WorkerTypes
  <2>2. /\ Len(sinkOut') = Len(sinkOut) + 1
        /\ \A i \in 1 .. Len(sinkOut) : sinkOut'[i] = sinkOut[i]
    BY <1>2, <2>1, CallingSteps
  <2>3. ASSUME NEW n \in Nat, n <= Len(sinkOut)
        PROVE  SubSeq(sinkOut', 1, n) = SubSeq(sinkOut, 1, n)
    <3>1. /\ SubSeq(sinkOut, 1, n) \in Seq(Logs) /\ Len(SubSeq(sinkOut, 1, n)) = n
          /\ \A i \in 1 .. n : SubSeq(sinkOut, 1, n)[i] = sinkOut[i]
      BY <2>1, <2>3
    <3>2. PICK t \in Seq(Logs) : t = sinkOut' /\ n <= Len(t) /\ Len(t) \in Nat
      BY <2>1, <2>2, <2>3
    <3>3. /\ SubSeq(t, 1, n) \in Seq(Logs) /\ Len(SubSeq(t, 1, n)) = n
          /\ \A i \in 1 .. n : SubSeq(t, 1, n)[i] = t[i]
      BY <2>3, <3>2
    <3>4. \A i \in 1 .. n : SubSeq(t, 1, n)[i] = SubSeq(sinkOut, 1, n)[i]
      BY <2>1, <2>2, <2>3, <3>1, <3>2, <3>3
    <3> QED
      BY <3>1, <3>2, <3>3, <3>4, SeqEqual
  <2>4. Hardened' = Hardened
    BY <1>2, <2>1, <2>3, CallingSteps DEF Hardened
  <2>5. Sink!IsPrefix(sinkOut, sinkOut')
    <3>1. SubSeq(sinkOut', 1, Len(sinkOut)) = SubSeq(sinkOut, 1, Len(sinkOut))
      BY <2>1, <2>3
    <3> QED
      BY <2>1, <2>2, <3>1 DEF Sink!IsPrefix
  <2>6. SinkState' = "running" /\ durable' = durable /\ wpc \in CallingPcs
    BY <1>1, <1>2, CallingSteps DEF SinkState, FailPcs
  <2>7. Sink!Take
    BY <1>1, <2>2, <2>4, <2>5, <2>6 DEF Sink!Take, SinkState, Hardened
  <2> QED
    BY <2>7 DEF Sink!Next
<1>3. CASE FlushingStep
  <2>1. /\ durable' = Len(sinkOut) /\ sinkOut' = sinkOut /\ wpc \in CallingPcs
        /\ SinkState' = "running"
    BY <1>1, <1>3, CallingSteps DEF SinkState, FailPcs
  <2>2. Sink!Progress /\ Hardened' = sinkOut
    BY <2>1, HardenedGrows
  <2>3. \A o \in DOMAIN <<Hardened>> : <<Hardened>>'[o] = sinkOut
    BY <2>2
  <2>4. Sink!Harden
    BY <1>1, <2>1, <2>2, <2>3 DEF Sink!Harden, SinkState, Hardened
  <2> QED
    BY <2>4 DEF Sink!Next
<1>4. CASE SinkThrows
  <2>1. /\ durable' = durable /\ sinkOut' = sinkOut /\ wpc \in CallingPcs
        /\ SinkState' = "failed"
    BY <1>4, CallingSteps DEF SinkState
  <2>2. Sink!Progress
    BY <2>1, HardenedGrows
  <2>3. Sink!Fail
    BY <1>1, <2>1, <2>2 DEF Sink!Fail, SinkState
  <2> QED
    BY <2>3 DEF Sink!Next
<1>5. CASE FailRecord
  BY <1>5, CallingSteps DEF SinkState, Hardened
<1>6. CASE OtherWorkerStep
  <2>1. /\ UNCHANGED <<sinkOut, durable, failureRecorded>>
        /\ wpc' = wpc \/ (wpc # "failRecord" /\ wpc' # "failRecord")
    BY <1>6, OtherSteps
  <2>2. SinkState' = SinkState
    BY <2>1 DEF SinkState
  <2> QED
    BY <2>1, <2>2 DEF Hardened
<1>7. CASE /\ UNCHANGED <<sinkOut, durable, failureRecorded>>
           /\ wpc' = wpc \/ (wpc = "blocked" /\ wpc' = "evaluate")
  BY <1>7 DEF SinkState, Hardened
<1> QED
  BY <1>2, <1>3, <1>4, <1>5, <1>6, <1>7, StepKinds

\* The worker asks no more of its sink than SinkPromise gives, and never calls one again
\* that has thrown, wherever in the loop it did (WorkerLoop, RecordWorkerFailure).
THEOREM UsesSinkTheorem == Spec => UsesSinkAsPromised
<1>1. Init => Sink!Init
  <2> SUFFICES ASSUME Init PROVE Sink!Init
    OBVIOUS
  <2>1. SubSeq(<<>>, 1, 0) = <<>>
    BY SubSeqEmpty
  <2>2. \A o \in DOMAIN <<Hardened>> : <<Hardened>>[o] = <<>>
    BY <2>1 DEF Init, Hardened
  <2> QED
    BY <2>2 DEF Init, Hardened, Sink!Init
<1>2. IInv /\ ThrownInv /\ [Next]_vars
      => [Sink!Next]_<<sinkOut, <<Hardened>>, durable, SinkState>>
  BY SinkStep DEF IInv
<1>3. IInv /\ ThrownInv /\ [Next]_vars => ThrownInv'
  BY ThrownNext DEF IInv
<1> QED
  BY <1>1, <1>2, <1>3, ThrownInit, InductiveInvariant, PTL
     DEF Spec, UsesSinkAsPromised, Sink!Spec, Hardened, SinkState
===============================================================================
