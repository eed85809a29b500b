----------------------------- MODULE ServiceProofs -----------------------------
(***************************************************************************)
(* Safety of Service for every number of workers, peers and descriptors,   *)
(* and every way the sockets, the signals and the logger may behave.       *)
(***************************************************************************)
EXTENDS ServiceProperties, FiniteSetTheorems, SequenceTheorems, TLAPS

\* The configuration is read once, so the threads stay the same.
LEMMA ConfigStays ==
    ASSUME [Next]_vars
    PROVE  config' = config /\ Threads' = Threads
<1> QED
  BY DEF Next, vars, process, MainStep, LoggerGoesOn, LoggerAnswers, WorkerStep, ByMain,
         ByWorker, Start, StartFails,
         CheckRunning, AcceptConnection, AcceptInterrupted, AcceptFails, Push, PushNotify,
         StopQueue, StopNotify, PopConnection, PopWaits, SpuriousWakeup, PopEnds,
         ReceiveFails, Receive, SendAnswer, SendKills, LogRequest, CloseClient, Join, Flush,
         FlushReturns, StopLogger, LoggerStep, LoggerWrites, LoggerHardens, LoggerFails,
         HandleSignal, Threads

\* What a step of main, or of a worker, leaves alone.
LEMMA ByMainFrame ==
    ASSUME ByMain
    PROVE  /\ config' = config /\ alive' = alive /\ running' = running
           /\ fd' = fd /\ served' = served /\ total' = total
           /\ met' = met /\ asked' = asked /\ answer' = answer
BY DEF ByMain, process, peers

LEMMA ByWorkerFrame ==
    ASSUME ByWorker
    PROVE  /\ config' = config /\ alive' = alive /\ running' = running
           /\ mpc' = mpc /\ hand' = hand /\ accepted' = accepted /\ warnings' = warnings
           /\ stopped' = stopped /\ met' = met
BY DEF ByWorker, process, main

(***************************************************************************)
(* Types.  What main and a worker hold is a descriptor exactly where the   *)
(* code has one in hand.                                                   *)
(***************************************************************************)

MainTypes == /\ config \in Configs /\ running \in BOOLEAN /\ alive \in BOOLEAN
             /\ mpc \in MainPcs /\ hand \in Descriptors \cup {None}
             /\ accepted \in Nat /\ warnings \in 0 .. MaxWarnings
             /\ queue \in Seq(Descriptors) /\ stopped \in BOOLEAN
             /\ hand # None <=> mpc = "push"

WorkerTypes == /\ wpc \in [Threads -> WorkerPcs]
               /\ fd \in [Threads -> Descriptors \cup {None}]
               /\ served \in [Threads -> Peers \cup {None}]
               /\ \A w \in Threads : fd[w] # None <=> wpc[w] \in Handling
               /\ mpc = "start" => \A w \in Threads : wpc[w] = "unborn"

PeerTypes == /\ total \in Nat
             /\ owner \in [Descriptors -> Peers \cup {None}]
             /\ met \subseteq Peers
             /\ asked \in [Peers -> Requests \cup {None}]
             /\ \A p \in Peers : answer[p] = None \/ answer[p] \in AnswerType

LogTypes == /\ pending \in Seq(LineType) /\ out \in Seq(LineType)
            /\ durable \in 0 .. Len(out) /\ failed \in BOOLEAN

TypeInv == MainTypes /\ WorkerTypes /\ PeerTypes /\ LogTypes

LEMMA TypeInit == Init => TypeInv
<1> SUFFICES ASSUME Init PROVE TypeInv
  OBVIOUS
<1> USE ServiceAssumption DEF Init
<1>1. MainTypes
  <2>1. queue \in Seq(Descriptors)
    BY EmptySeq
  <2>2. warnings \in 0 .. MaxWarnings /\ accepted \in Nat
    BY SMT
  <2>3. (hand # None <=> mpc = "push") /\ hand \in Descriptors \cup {None}
    OBVIOUS
  <2>4. mpc \in MainPcs
    BY DEF MainPcs
  <2> QED
    BY <2>1, <2>2, <2>3, <2>4 DEF MainTypes
<1>2. WorkerTypes
  BY DEF WorkerTypes, WorkerPcs, Handling
<1>3. PeerTypes
  BY DEF PeerTypes
<1>4. LogTypes
  <2>1. pending = <<>> /\ out = <<>> /\ durable = 0 /\ failed = FALSE
    BY DEF Logger!Init
  <2>2. <<>> \in Seq(LineType) /\ Len(<<>>) = 0
    BY EmptySeq
  <2>3. durable \in 0 .. Len(out)
    BY <2>1, <2>2, SMT
  <2> QED
    BY <2>1, <2>2, <2>3 DEF LogTypes
<1> QED
  BY <1>1, <1>2, <1>3, <1>4 DEF TypeInv

\* A line that is accepted, or not, of the type lines have.
LEMMA LineKeepsTypes ==
    ASSUME LogTypes, NEW line \in LineType, pending' \in {pending, Append(pending, line)},
           UNCHANGED <<out, durable, failed>>
    PROVE  LogTypes'
BY DEF LogTypes

\* What main keeps.
LEMMA MainTypesNext == TypeInv /\ [Next]_vars => MainTypes'
<1> SUFFICES ASSUME TypeInv, [Next]_vars PROVE MainTypes'
  OBVIOUS
<1>t. MainTypes
  BY DEF TypeInv
<1> USE ServiceAssumption DEF MainPcs, Goto
<1>1. CASE UNCHANGED vars
  BY <1>t, <1>1 DEF MainTypes, vars, process, main, connections
<1>2. CASE \/ Start \/ StartFails \/ CheckRunning \/ AcceptInterrupted \/ AcceptFails
           \/ Push \/ PushNotify
  <2>1. CASE Start \/ StartFails
    BY <1>t, <2>1, ByMainFrame DEF MainTypes, Start, StartFails, connections
  <2>2. CASE CheckRunning \/ AcceptInterrupted \/ AcceptFails
    BY <1>t, <2>2, ByMainFrame
       DEF MainTypes, CheckRunning, AcceptInterrupted, AcceptFails, connections
  <2>3. CASE Push
    BY <1>t, <2>3, ByMainFrame DEF MainTypes, Push, connections
  <2>4. CASE PushNotify
    BY <1>t, <2>4, ByMainFrame DEF MainTypes, PushNotify, connections
  <2> QED
    BY <1>2, <2>1, <2>2, <2>3, <2>4
<1>3. CASE \/ StopQueue \/ StopNotify \/ Join \/ Flush \/ FlushReturns \/ StopLogger
  BY <1>t, <1>3, ByMainFrame
     DEF MainTypes, StopQueue, StopNotify, Join, Flush, FlushReturns, StopLogger, connections
<1>4. ASSUME NEW p \in Peers, AcceptConnection(p) PROVE MainTypes'
  BY <1>t, <1>4 DEF MainTypes, AcceptConnection, Free, process, connections
<1>5. ASSUME ByWorker, queue' \in {queue, Tail(queue)}, queue' = Tail(queue) => queue # <<>>
      PROVE  MainTypes'
  <2>1. queue' \in Seq(Descriptors)
    BY <1>t, <1>5 DEF MainTypes
  <2> QED
    BY <1>t, <1>5, <2>1, ByWorkerFrame DEF MainTypes
<1>6. ASSUME NEW w \in Threads, PopConnection(w) PROVE MainTypes'
  BY <1>5, <1>6 DEF PopConnection
<1>7. ASSUME NEW w \in Threads,
             \/ PopWaits(w) \/ PopEnds(w) \/ SpuriousWakeup(w) \/ Receive(w)
             \/ ReceiveFails(w) \/ SendAnswer(w) \/ LogRequest(w) \/ CloseClient(w)
      PROVE  MainTypes'
  <2>1. ByWorker /\ queue' = queue
    BY <1>7 DEF PopWaits, PopEnds, SpuriousWakeup, Receive, ReceiveFails, SendAnswer,
                LogRequest, CloseClient
  <2> QED
    BY <1>t, <2>1, ByWorkerFrame DEF MainTypes
<1>8. CASE LoggerWrites \/ LoggerHardens \/ LoggerFails \/ HandleSignal
           \/ \E w \in Threads : SendKills(w)
  BY <1>t, <1>8
     DEF MainTypes, LoggerWrites, LoggerHardens, LoggerFails, LoggerStep, HandleSignal,
         SendKills, process, main, connections
<1> QED
  BY <1>1, <1>2, <1>3, <1>4, <1>6, <1>7, <1>8
     DEF Next, MainStep, LoggerGoesOn, LoggerAnswers, WorkerStep

\* What the workers keep.
LEMMA WorkerTypesNext == TypeInv /\ [Next]_vars => WorkerTypes'
<1> SUFFICES ASSUME TypeInv, [Next]_vars PROVE WorkerTypes'
  OBVIOUS
<1>c. Threads' = Threads
  BY ConfigStays
<1>t. WorkerTypes
  BY DEF TypeInv
<1> USE <1>c DEF WorkerPcs, Handling, Goto, WGo
<1>1. ASSUME UNCHANGED <<wpc, fd, served>>, mpc' = "start" => mpc = "start"
      PROVE  WorkerTypes'
  BY <1>1, <1>t DEF WorkerTypes
<1>2. CASE Start
  BY <1>2, <1>t, ByMainFrame DEF WorkerTypes, Start
<1>3. CASE PushNotify \/ StopNotify
  BY <1>3, <1>t, ByMainFrame DEF WorkerTypes, PushNotify, StopNotify, WakeOne, WakeAll, Asleep
<1>4. ASSUME NEW w \in Threads, PopConnection(w) PROVE WorkerTypes'
  <2>1. Head(queue) \in Descriptors /\ Head(queue) # None
    BY <1>4, ServiceAssumption DEF TypeInv, MainTypes, PopConnection
  <2> QED
    BY <1>4, <1>t, <2>1, ByWorkerFrame DEF WorkerTypes, PopConnection
<1>5. ASSUME NEW w \in Threads, PopWaits(w) \/ SpuriousWakeup(w) \/ PopEnds(w)
      PROVE  WorkerTypes'
  BY <1>5, <1>t, ByWorkerFrame DEF WorkerTypes, PopWaits, SpuriousWakeup, PopEnds
<1>6. ASSUME NEW w \in Threads, ReceiveFails(w) \/ SendAnswer(w) \/ LogRequest(w)
      PROVE  WorkerTypes'
  BY <1>6, <1>t, ByWorkerFrame DEF WorkerTypes, ReceiveFails, SendAnswer, LogRequest
<1>7. ASSUME NEW w \in Threads, Receive(w) PROVE WorkerTypes'
  <2>1. fd[w] \in Descriptors
    BY <1>7, <1>t DEF WorkerTypes, Receive
  <2>2. Client(w) \in Peers \cup {None}
    BY <2>1 DEF TypeInv, PeerTypes, Client
  <2> QED
    BY <1>7, <1>t, <2>2, ByWorkerFrame DEF WorkerTypes, Receive
<1>8. ASSUME NEW w \in Threads, CloseClient(w) PROVE WorkerTypes'
  BY <1>8, <1>t, ByWorkerFrame DEF WorkerTypes, CloseClient
<1>9. CASE \/ StartFails \/ CheckRunning \/ AcceptInterrupted \/ AcceptFails \/ Push
           \/ StopQueue \/ Join \/ Flush \/ FlushReturns \/ StopLogger
  BY <1>9, <1>1, ByMainFrame
     DEF StartFails, CheckRunning, AcceptInterrupted, AcceptFails, Push, StopQueue, Join,
         Flush, FlushReturns, StopLogger
<1>10. ASSUME NEW w \in Threads, SendKills(w) PROVE WorkerTypes'
  BY <1>10, <1>1 DEF SendKills, main, workers
<1>11. CASE LoggerWrites \/ LoggerHardens \/ LoggerFails \/ HandleSignal
  BY <1>11, <1>1
     DEF LoggerWrites, LoggerHardens, LoggerFails, LoggerStep, HandleSignal, main, workers
<1>12. ASSUME NEW p \in Peers, AcceptConnection(p) PROVE WorkerTypes'
  BY <1>12, <1>1 DEF AcceptConnection, workers
<1>13. CASE UNCHANGED vars
  BY <1>13, <1>1 DEF vars, main, workers
<1> QED
  BY <1>2, <1>3, <1>4, <1>5, <1>6, <1>7, <1>8, <1>9, <1>10, <1>11, <1>12, <1>13
     DEF Next, MainStep, LoggerGoesOn, LoggerAnswers, WorkerStep

\* What is known of the peers.
LEMMA PeerTypesNext == TypeInv /\ [Next]_vars => PeerTypes'
<1> SUFFICES ASSUME TypeInv, [Next]_vars PROVE PeerTypes'
  OBVIOUS
<1>t. PeerTypes
  BY DEF TypeInv
<1>1. ASSUME UNCHANGED <<total, owner, met, asked, answer>> PROVE PeerTypes'
  BY <1>1, <1>t DEF PeerTypes
<1>2. CASE MainStep \/ LoggerAnswers \/ StartFails \/ AcceptInterrupted
  BY <1>2, <1>1, ByMainFrame
     DEF MainStep, LoggerAnswers, StartFails, AcceptInterrupted, Start, CheckRunning,
         AcceptFails, Push, PushNotify, StopQueue, StopNotify, Join, Flush, FlushReturns,
         StopLogger
<1>3. ASSUME NEW p \in Peers, AcceptConnection(p) PROVE PeerTypes'
  BY <1>3, <1>t DEF PeerTypes, AcceptConnection, workers
<1>4. ASSUME NEW w \in Threads,
             \/ PopConnection(w) \/ PopWaits(w) \/ SpuriousWakeup(w) \/ PopEnds(w)
             \/ ReceiveFails(w) \/ LogRequest(w)
      PROVE  PeerTypes'
  BY <1>4, <1>1, ByWorkerFrame
     DEF PopConnection, PopWaits, SpuriousWakeup, PopEnds, ReceiveFails, LogRequest
<1>5. ASSUME NEW w \in Threads, Receive(w) PROVE PeerTypes'
  <2>1. /\ total' = total + 1 /\ owner' = owner /\ answer' = answer /\ met' = met
        /\ \E r \in Requests : asked' = [asked EXCEPT ![Client(w)] = r]
    BY <1>5, ByWorkerFrame DEF Receive
  <2>2. asked' \in [Peers -> Requests \cup {None}]
    BY <1>t, <2>1 DEF PeerTypes
  <2>3. total' \in Nat
    BY <1>t, <2>1 DEF PeerTypes
  <2> QED
    BY <1>t, <2>1, <2>2, <2>3 DEF PeerTypes
<1>6. ASSUME NEW w \in Threads, SendAnswer(w) PROVE PeerTypes'
  <2>1. Answer(asked[served[w]], total) \in AnswerType
    BY <1>t DEF PeerTypes, Answer, AnswerType
  <2>2. \A p \in Peers : answer'[p] \in {answer[p], Answer(asked[served[w]], total)}
    BY <1>6 DEF SendAnswer
  <2> QED
    BY <1>6, <1>t, <2>1, <2>2, ByWorkerFrame DEF PeerTypes, SendAnswer
<1>7. ASSUME NEW w \in Threads, CloseClient(w) PROVE PeerTypes'
  BY <1>7, <1>t, ByWorkerFrame DEF PeerTypes, CloseClient
<1>8. CASE LoggerWrites \/ LoggerHardens \/ LoggerFails \/ HandleSignal
           \/ \E w \in Threads : SendKills(w)
  BY <1>8, <1>1 DEF LoggerWrites, LoggerHardens, LoggerFails, LoggerStep, HandleSignal,
                    SendKills, workers, peers
<1>9. CASE UNCHANGED vars
  BY <1>9, <1>1 DEF vars, workers, peers
<1> QED
  BY <1>2, <1>3, <1>4, <1>5, <1>6, <1>7, <1>8, <1>9 DEF Next, LoggerGoesOn, WorkerStep

\* What the logger keeps.
LEMMA LogTypesNext == TypeInv /\ [Next]_vars => LogTypes'
<1> SUFFICES ASSUME TypeInv, [Next]_vars PROVE LogTypes'
  OBVIOUS
<1>t. LogTypes
  BY DEF TypeInv
<1>1. ASSUME UNCHANGED logger PROVE LogTypes'
  BY <1>1, <1>t DEF LogTypes, logger
<1>2a. CASE Start
  <2>2. Info("service_started", None) \in LineType
    BY DEF Info, Line, LineType, LineKinds
  <2>3. /\ pending' \in {pending, Append(pending, Info("service_started", None))}
        /\ UNCHANGED <<out, durable, failed>>
    BY <1>2a DEF Start, Logs, Logger!Accept, logger
  <2> QED
    BY <1>t, <2>2, <2>3, LineKeepsTypes
<1>2b. CASE Join
  <2>2. Info("service_stopped", None) \in LineType
    BY DEF Info, Line, LineType, LineKinds
  <2>3. /\ pending' \in {pending, Append(pending, Info("service_stopped", None))}
        /\ UNCHANGED <<out, durable, failed>>
    BY <1>2b DEF Join, Logs, Logger!Accept, logger
  <2> QED
    BY <1>t, <2>2, <2>3, LineKeepsTypes
<1>2c. CASE AcceptFails
  <2>1. warnings \in Peers \cup Nat \cup {None}
    BY ServiceAssumption DEF TypeInv, MainTypes
  <2>2. Warn("accept_failed", warnings) \in LineType
    BY <2>1 DEF Info, Warn, Line, LineType, LineKinds
  <2>3. /\ pending' \in {pending, Append(pending, Warn("accept_failed", warnings))}
        /\ UNCHANGED <<out, durable, failed>>
    BY <1>2c DEF AcceptFails, Logs, Logger!Accept, logger
  <2> QED
    BY <1>t, <2>2, <2>3, LineKeepsTypes
<1>3. ASSUME NEW w \in Threads, PopEnds(w) PROVE LogTypes'
  <2>1. w \in Peers \cup Nat \cup {None}
    BY ServiceAssumption DEF Threads, TypeInv, MainTypes
  <2>2. Info("worker_stopped", w) \in LineType
    BY <2>1 DEF Info, Warn, Line, LineType, LineKinds
  <2>3. /\ pending' \in {pending, Append(pending, Info("worker_stopped", w))}
        /\ UNCHANGED <<out, durable, failed>>
    BY <1>3 DEF PopEnds, Logs, Logger!Accept, logger
  <2> QED
    BY <1>t, <2>2, <2>3, LineKeepsTypes
<1>4. ASSUME NEW w \in Threads, ReceiveFails(w) PROVE LogTypes'
  <2>1. Client(w) \in Peers \cup Nat \cup {None}
    <3>1. fd[w] \in Descriptors
      BY <1>4 DEF TypeInv, WorkerTypes, Handling, ReceiveFails, WGo
    <3> QED
      BY <3>1 DEF TypeInv, PeerTypes, Client
  <2>2. Warn("recv_error", Client(w)) \in LineType
    BY <2>1 DEF Info, Warn, Line, LineType, LineKinds
  <2>3. /\ pending' \in {pending, Append(pending, Warn("recv_error", Client(w)))}
        /\ UNCHANGED <<out, durable, failed>>
    BY <1>4 DEF ReceiveFails, Logs, Logger!Accept, logger
  <2> QED
    BY <1>t, <2>2, <2>3, LineKeepsTypes
<1>5. ASSUME NEW w \in Threads, LogRequest(w) PROVE LogTypes'
  <2>1. served[w] \in Peers \cup Nat \cup {None}
    BY DEF TypeInv, WorkerTypes
  <2>2. Info("request", served[w]) \in LineType
    BY <2>1 DEF Info, Warn, Line, LineType, LineKinds
  <2>3. /\ pending' \in {pending, Append(pending, Info("request", served[w]))}
        /\ UNCHANGED <<out, durable, failed>>
    BY <1>5 DEF LogRequest, Logs, Logger!Accept, logger
  <2> QED
    BY <1>t, <2>2, <2>3, LineKeepsTypes
<1>6. CASE Flush \/ FlushReturns
  BY <1>6, <1>t, <1>1 DEF LogTypes, Flush, FlushReturns, Logger!BeginFlush, Logger!Succeed
<1>7. CASE LoggerWrites
  <2>1. /\ pending # <<>> /\ out' = Append(out, Head(pending)) /\ pending' = Tail(pending)
        /\ UNCHANGED <<durable, failed>>
    BY <1>7 DEF LoggerWrites, LoggerStep, Logger!Write
  <2> QED
    BY <1>t, <2>1 DEF LogTypes
<1>8. CASE LoggerHardens \/ LoggerFails
  <2>1. /\ pending' = pending /\ out' = out
        /\ durable' \in {durable, Len(out)} /\ failed' \in {failed, TRUE}
    BY <1>8 DEF LoggerHardens, LoggerFails, LoggerStep, Logger!Harden, Logger!Fail
  <2>2. durable' \in 0 .. Len(out)
    BY <1>t, <2>1, LenProperties DEF LogTypes
  <2> QED
    BY <1>t, <2>1, <2>2 DEF LogTypes
<1>9. CASE \/ StartFails \/ CheckRunning \/ AcceptInterrupted \/ Push \/ PushNotify
           \/ StopQueue \/ StopNotify \/ StopLogger \/ HandleSignal
           \/ \E p \in Peers : AcceptConnection(p)
  BY <1>9, <1>1
     DEF StartFails, CheckRunning, AcceptInterrupted, Push, PushNotify, StopQueue, StopNotify,
         StopLogger, HandleSignal, AcceptConnection
<1>10. ASSUME NEW w \in Threads,
             \/ PopConnection(w) \/ PopWaits(w) \/ SpuriousWakeup(w) \/ Receive(w)
             \/ SendAnswer(w) \/ SendKills(w) \/ CloseClient(w)
      PROVE  LogTypes'
  BY <1>10, <1>1 DEF PopConnection, PopWaits, SpuriousWakeup, Receive, SendAnswer, SendKills,
                     CloseClient
<1>11. CASE UNCHANGED vars
  BY <1>11, <1>1 DEF vars
<1> QED
  BY <1>2a, <1>2b, <1>2c, <1>3, <1>4, <1>5, <1>6, <1>7, <1>8, <1>9, <1>10, <1>11
     DEF Next, MainStep, LoggerGoesOn, LoggerAnswers, WorkerStep

LEMMA TypeNext == TypeInv /\ [Next]_vars => TypeInv'
BY MainTypesNext, WorkerTypesNext, PeerTypesNext, LogTypesNext DEF TypeInv

\* Every variable stays in its domain, and what main and the workers pass to the sockets
\* is a descriptor: -1, accept's failure, never leaves main.
THEOREM TypeCorrect == Spec => []TypeOK
<1>1. TypeInv => TypeOK
  BY DEF TypeInv, MainTypes, WorkerTypes, PeerTypes, LogTypes, TypeOK
<1> QED
  BY <1>1, TypeInit, TypeNext, PTL DEF Spec

(***************************************************************************)
(* The queue.  SleepersHaveNoWork is inductive as it stands: the workers   *)
(* inside Pop, and main before its notify, are counted against the         *)
(* connections that wait.                                                  *)
(***************************************************************************)

Poppers == { w \in Threads : wpc[w] = "pop" }

LEMMA PoppersFinite ==
    ASSUME TypeInv
    PROVE  /\ IsFiniteSet(Poppers) /\ Cardinality(Poppers) \in Nat
           /\ Len(queue) \in Nat /\ (Len(queue) = 0 <=> queue = <<>>)
<1>1. IsFiniteSet(Threads)
  BY ServiceAssumption, FS_Interval DEF TypeInv, MainTypes, Threads
<1>2. IsFiniteSet(Poppers)
  BY <1>1, FS_Subset DEF Poppers
<1> QED
  BY <1>2, FS_CardinalityType, EmptySeq DEF TypeInv, MainTypes

\* How the move of one worker changes who is inside Pop and who sleeps.
LEMMA WorkerMove ==
    ASSUME TypeInv, Threads' = Threads, NEW w \in Threads, NEW from, NEW to, from # to,
           WGo(w, from, to)
    PROVE  /\ Asleep' = IF to = "asleep" THEN Asleep \cup {w} ELSE Asleep \ {w}
           /\ Cardinality(Poppers') = IF from = "pop" THEN Cardinality(Poppers) - 1
                                      ELSE IF to = "pop" THEN Cardinality(Poppers) + 1
                                      ELSE Cardinality(Poppers)
<1>1. Poppers' = IF to = "pop" THEN Poppers \cup {w} ELSE Poppers \ {w}
  BY DEF TypeInv, WorkerTypes, WGo, Poppers
<1>2. w \in Poppers <=> from = "pop"
  BY DEF WGo, Poppers
<1>3. Asleep' = IF to = "asleep" THEN Asleep \cup {w} ELSE Asleep \ {w}
  BY DEF TypeInv, WorkerTypes, WGo, Asleep
<1>4. /\ Cardinality(Poppers \cup {w}) = IF w \in Poppers THEN Cardinality(Poppers)
                                         ELSE Cardinality(Poppers) + 1
      /\ Cardinality(Poppers \ {w}) = IF w \in Poppers THEN Cardinality(Poppers) - 1
                                      ELSE Cardinality(Poppers)
  BY PoppersFinite, FS_AddElement, FS_RemoveElement
<1> QED
  BY <1>1, <1>2, <1>3, <1>4

LEMMA SleepersInit == Init => SleepersHaveNoWork
BY DEF Init, SleepersHaveNoWork, Asleep

LEMMA SleepersNext == TypeInv /\ SleepersHaveNoWork /\ [Next]_vars => SleepersHaveNoWork'
<1> SUFFICES ASSUME TypeInv, SleepersHaveNoWork, [Next]_vars PROVE SleepersHaveNoWork'
  OBVIOUS
<1>c. Threads' = Threads
  BY ConfigStays
<1>f. /\ Cardinality(Poppers) \in Nat
      /\ Len(queue) \in Nat /\ (Len(queue) = 0 <=> queue = <<>>)
  BY PoppersFinite
<1>s. Asleep # {} =>
        /\ Len(queue) <= Cardinality(Poppers) + (IF mpc = "notify" THEN 1 ELSE 0)
        /\ stopped => mpc = "notifyAll"
  BY DEF SleepersHaveNoWork, Poppers
<1> DEFINE Kept == Asleep' # {} =>
        /\ Len(queue') <= Cardinality(Poppers') + (IF mpc' = "notify" THEN 1 ELSE 0)
        /\ stopped' => mpc' = "notifyAll"
<1> SUFFICES Kept
  BY DEF SleepersHaveNoWork, Poppers
<1>1. CASE UNCHANGED <<wpc, queue, stopped>> /\ \/ mpc' = mpc
                                                \/ {mpc, mpc'} \cap {"notify", "notifyAll"} = {}
  <2>1. Poppers' = Poppers /\ Asleep' = Asleep
    BY <1>1, <1>c DEF Poppers, Asleep
  <2> QED
    BY <1>1, <1>s, <2>1
<1>2. CASE \/ StartFails \/ CheckRunning \/ AcceptInterrupted \/ AcceptFails \/ Join
           \/ Flush \/ FlushReturns \/ StopLogger \/ \E p \in Peers : AcceptConnection(p)
  BY <1>2, <1>1 DEF StartFails, CheckRunning, AcceptInterrupted, AcceptFails, Join, Flush,
                    FlushReturns, StopLogger, AcceptConnection, Goto, connections, workers
<1>3. CASE Start \/ StopNotify
  BY <1>3, <1>c DEF Start, StopNotify, WakeAll, Asleep
<1>4. CASE Push
  <2>1. Len(queue') = Len(queue) + 1 /\ mpc = "push" /\ mpc' = "notify" /\ stopped' = stopped
    BY <1>4 DEF Push, Goto, TypeInv, MainTypes
  <2>2. Poppers' = Poppers /\ Asleep' = Asleep
    BY <1>4, <1>c DEF Push, Poppers, Asleep
  <2> QED
    BY <1>s, <1>f, <2>1, <2>2
<1>5. CASE PushNotify
  <2>1. queue' = queue /\ stopped' = stopped /\ mpc = "notify"
    BY <1>5 DEF PushNotify, connections, Goto
  <2>2. CASE Asleep = {}
    BY <1>5, <1>c, <2>2 DEF PushNotify, WakeOne, Asleep
  <2>3. CASE Asleep # {}
    <3>1. PICK w \in Asleep : WGo(w, "asleep", "pop")
      BY <1>5, <2>3 DEF PushNotify, WakeOne, WGo, Asleep
    <3>2. Cardinality(Poppers') = Cardinality(Poppers) + 1
      BY <1>c, <3>1, WorkerMove DEF Asleep
    <3> QED
      BY <1>f, <1>s, <2>1, <2>3, <3>2
  <2> QED
    BY <2>2, <2>3
<1>6. CASE StopQueue
  <2>1. queue' = queue /\ mpc = "stopQueue" /\ mpc' = "notifyAll"
    BY <1>6 DEF StopQueue, Goto
  <2>2. Poppers' = Poppers /\ Asleep' = Asleep
    BY <1>6, <1>c DEF StopQueue, Poppers, Asleep
  <2> QED
    BY <1>s, <2>1, <2>2
<1>7. ASSUME NEW w \in Threads, PopConnection(w) PROVE Kept
  <2>1. WGo(w, "pop", "receive") /\ Len(queue') = Len(queue) - 1
    BY <1>7 DEF PopConnection, TypeInv, MainTypes
  <2>2. mpc' = mpc /\ stopped' = stopped
    BY <1>7, ByWorkerFrame DEF PopConnection
  <2> QED
    BY <1>c, <1>f, <1>s, <2>1, <2>2, WorkerMove
<1>8. ASSUME NEW w \in Threads, PopWaits(w) \/ PopEnds(w) PROVE Kept
  <2>1. /\ queue' = queue /\ queue = <<>>
        /\ (WGo(w, "pop", "asleep") /\ ~ stopped) \/ WGo(w, "pop", "done")
    BY <1>8 DEF PopWaits, PopEnds
  <2>2. mpc' = mpc /\ stopped' = stopped
    BY <1>8, ByWorkerFrame DEF PopWaits, PopEnds
  <2>3. w \in Poppers
    BY <2>1 DEF WGo, Poppers
  <2>4. Cardinality(Poppers') = Cardinality(Poppers) - 1 /\ Cardinality(Poppers') \in Nat
    <3>1. /\ Poppers' = Poppers \ {w} /\ IsFiniteSet(Poppers)
      BY <1>c, <2>1, PoppersFinite DEF Poppers, WGo, TypeInv, WorkerTypes
    <3> QED
      BY <2>3, <3>1, FS_RemoveElement, FS_CardinalityType
  <2>5. CASE WGo(w, "pop", "asleep") /\ ~ stopped
    BY <1>f, <2>1, <2>2, <2>4, <2>5
  <2>6. CASE WGo(w, "pop", "done")
    BY <1>c, <1>f, <1>s, <2>1, <2>2, <2>4, <2>6, WorkerMove
  <2> QED
    BY <2>1, <2>5, <2>6
<1>9. ASSUME NEW w \in Threads, SpuriousWakeup(w) \/ CloseClient(w)
      PROVE  Kept
  <2>1. /\ queue' = queue
        /\ WGo(w, "asleep", "pop") \/ WGo(w, "close", "pop")
    BY <1>9 DEF SpuriousWakeup, CloseClient
  <2>2. mpc' = mpc /\ stopped' = stopped
    BY <1>9, ByWorkerFrame DEF SpuriousWakeup, CloseClient
  <2>3. Cardinality(Poppers') = Cardinality(Poppers) + 1 /\ Asleep' = Asleep \ {w}
    BY <1>c, <2>1, WorkerMove
  <2> QED
    BY <1>f, <1>s, <2>1, <2>2, <2>3
<1>10. ASSUME NEW w \in Threads,
              Receive(w) \/ ReceiveFails(w) \/ SendAnswer(w) \/ LogRequest(w)
       PROVE  Kept
  <2>1. /\ queue' = queue
        /\ \/ WGo(w, "receive", "send") \/ WGo(w, "receive", "close")
           \/ WGo(w, "send", "log") \/ WGo(w, "log", "close")
    BY <1>10 DEF Receive, ReceiveFails, SendAnswer, LogRequest
  <2>2. mpc' = mpc /\ stopped' = stopped
    BY <1>10, ByWorkerFrame DEF Receive, ReceiveFails, SendAnswer, LogRequest
  <2>3. Cardinality(Poppers') = Cardinality(Poppers) /\ Asleep' = Asleep \ {w}
    BY <1>c, <2>1, WorkerMove
  <2> QED
    BY <1>s, <2>1, <2>2, <2>3
<1>11. CASE LoggerWrites \/ LoggerHardens \/ LoggerFails \/ HandleSignal
            \/ \E w \in Threads : SendKills(w)
  BY <1>11, <1>1 DEF LoggerWrites, LoggerHardens, LoggerFails, LoggerStep, HandleSignal,
                     SendKills, main, workers, connections
<1>12. CASE UNCHANGED vars
  BY <1>12, <1>1 DEF vars, main, workers, connections
<1> QED
  BY <1>2, <1>3, <1>4, <1>5, <1>6, <1>7, <1>8, <1>9, <1>10, <1>11, <1>12
     DEF Next, MainStep, LoggerGoesOn, LoggerAnswers, WorkerStep

\* No connection and no stop is left to a sleeping worker, although the notifications come
\* after the unlock and wake-ups may be spurious (ConnectionQueue).
THEOREM SleepersTheorem == Spec => []SleepersHaveNoWork
<1>1. Init => TypeInv /\ SleepersHaveNoWork
  BY TypeInit, SleepersInit
<1>2. /\ TypeInv /\ SleepersHaveNoWork
      /\ [Next]_vars
      => (TypeInv /\ SleepersHaveNoWork)'
  BY TypeNext, SleepersNext
<1> QED
  BY <1>1, <1>2, PTL DEF Spec

(***************************************************************************)
(* Descriptors.  EveryDescriptorHasOneHolder is inductive as it stands.    *)
(***************************************************************************)

Distinct(s) == \A i, j \in 1 .. Len(s) : i # j => s[i] # s[j]

LEMMA ElementsOfAppend ==
    ASSUME NEW S, NEW s \in Seq(S), NEW x \in S, Distinct(s), x \notin Elements(s)
    PROVE  Elements(Append(s, x)) = Elements(s) \cup {x} /\ Distinct(Append(s, x))
<1>1. /\ Len(Append(s, x)) = Len(s) + 1 /\ Len(s) \in Nat
      /\ \A i \in 1 .. Len(s) : Append(s, x)[i] = s[i]
      /\ Append(s, x)[Len(s) + 1] = x
  OBVIOUS
<1>2. 1 .. (Len(s) + 1) = (1 .. Len(s)) \cup {Len(s) + 1}
  BY <1>1
<1>3. Elements(Append(s, x)) = Elements(s) \cup {x}
  BY <1>1, <1>2 DEF Elements
<1>4. Distinct(Append(s, x))
  BY <1>1, <1>2 DEF Distinct, Elements
<1> QED
  BY <1>3, <1>4

LEMMA ElementsOfTail ==
    ASSUME NEW S, NEW s \in Seq(S), s # <<>>, Distinct(s)
    PROVE  /\ Head(s) \in Elements(s) /\ Elements(Tail(s)) = Elements(s) \ {Head(s)}
           /\ Distinct(Tail(s))
<1>1. /\ Len(s) \in Nat \ {0} /\ Len(Tail(s)) = Len(s) - 1 /\ Head(s) = s[1]
      /\ \A i \in 1 .. Len(s) - 1 : Tail(s)[i] = s[i + 1]
  BY EmptySeq
<1>2. ASSUME NEW i \in 1 .. Len(s) - 1 PROVE i + 1 \in 1 .. Len(s) /\ i + 1 # 1
  BY <1>1
<1>3. ASSUME NEW j \in 1 .. Len(s), j # 1 PROVE \E i \in 1 .. Len(s) - 1 : s[j] = Tail(s)[i]
  <2>1. \A n \in Nat : j <= n => j - 1 \in 1 .. n - 1 /\ (j - 1) + 1 = j
    BY <1>3
  <2>2. j - 1 \in 1 .. Len(s) - 1 /\ (j - 1) + 1 = j
    BY <1>1, <2>1
  <2> QED
    BY <1>1, <2>2
<1>4. Elements(Tail(s)) \subseteq Elements(s) \ {Head(s)}
  BY <1>1, <1>2 DEF Elements, Distinct
<1>5. Elements(s) \ {Head(s)} \subseteq Elements(Tail(s))
  BY <1>1, <1>3 DEF Elements
<1>6. Distinct(Tail(s))
  BY <1>1, <1>2 DEF Distinct
<1>7. Head(s) \in Elements(s)
  <2>1. 1 \in 1 .. Len(s)
    BY <1>1
  <2> QED
    BY <1>1, <2>1 DEF Elements
<1> QED
  BY <1>4, <1>5, <1>6, <1>7

LEMMA HolderInit == Init => EveryDescriptorHasOneHolder
<1> SUFFICES ASSUME Init PROVE EveryDescriptorHasOneHolder
  OBVIOUS
<1>1. queue = <<>> /\ Len(queue) = 0 /\ 1 .. Len(queue) = {}
  BY EmptySeq DEF Init
<1> QED
  BY <1>1, ServiceAssumption DEF Init, EveryDescriptorHasOneHolder, Elements

LEMMA HolderNext ==
    TypeInv /\ EveryDescriptorHasOneHolder /\ [Next]_vars => EveryDescriptorHasOneHolder'
<1> SUFFICES ASSUME TypeInv, EveryDescriptorHasOneHolder, [Next]_vars
             PROVE  EveryDescriptorHasOneHolder'
  OBVIOUS
<1>c. Threads' = Threads
  BY ConfigStays
<1> DEFINE Open(o, h, E, f) ==
      /\ \A d \in Descriptors :
            o[d] # None <=> d = h \/ d \in E \/ \E w \in Threads : f[w] = d
      /\ h \notin E
      /\ \A w \in Threads : f[w] # None => /\ f[w] # h /\ f[w] \notin E
                                           /\ \A v \in Threads : v # w => f[v] # f[w]
<1>h. Open(owner, hand, Elements(queue), fd) /\ Distinct(queue)
  BY DEF EveryDescriptorHasOneHolder, Distinct
<1> SUFFICES Open(owner', hand', Elements(queue'), fd') /\ Distinct(queue')
  BY <1>c DEF EveryDescriptorHasOneHolder, Distinct
<1>t. /\ owner \in [Descriptors -> Peers \cup {None}]
      /\ fd \in [Threads -> Descriptors \cup {None}]
      /\ queue \in Seq(Descriptors) /\ hand \in Descriptors \cup {None}
      /\ None \notin Descriptors
      /\ None \notin Peers
      /\ hand # None <=> mpc = "push"
      /\ \A w \in Threads : fd[w] # None <=> wpc[w] \in Handling
      /\ Elements(queue) \subseteq Descriptors
  BY ServiceAssumption DEF TypeInv, MainTypes, WorkerTypes, PeerTypes, Elements
<1> DEFINE Kept == Open(owner', hand', Elements(queue'), fd') /\ Distinct(queue')
<1>1. ASSUME UNCHANGED <<owner, hand, queue, fd>> PROVE Kept
  BY <1>1, <1>h
<1>2. ASSUME NEW p \in Peers, AcceptConnection(p) PROVE Kept
  <2>1. PICK d \in Free : hand' = d /\ owner' = [owner EXCEPT ![d] = p]
    BY <1>2 DEF AcceptConnection
  <2>2. hand = None /\ queue' = queue /\ fd' = fd
    BY <1>2, <1>t DEF AcceptConnection, Goto, connections, workers
  <2>3. d \in Descriptors /\ owner[d] = None
    BY DEF Free
  <2> QED
    BY <1>h, <1>t, <2>1, <2>2, <2>3
<1>3. CASE Push
  <2>1. /\ queue' = Append(queue, hand) /\ hand' = None /\ owner' = owner /\ fd' = fd
        /\ hand \in Descriptors
    BY <1>3, <1>t, ByMainFrame DEF Push, Goto
  <2>2. Elements(queue') = Elements(queue) \cup {hand} /\ Distinct(queue')
    BY <1>h, <1>t, <2>1, ElementsOfAppend
  <2> QED
    BY <1>h, <1>t, <2>1, <2>2
<1>4. ASSUME NEW w \in Threads, PopConnection(w) PROVE Kept
  <2>1. /\ queue' = Tail(queue) /\ queue # <<>> /\ hand' = hand /\ owner' = owner
        /\ fd' = [fd EXCEPT ![w] = Head(queue)] /\ fd[w] = None
    BY <1>4, <1>t, ByWorkerFrame DEF PopConnection, WGo, Handling
  <2>2. /\ Head(queue) \in Elements(queue) /\ Elements(queue') = Elements(queue) \ {Head(queue)}
        /\ Distinct(queue')
    BY <1>h, <1>t, <2>1, ElementsOfTail
  <2> QED
    BY <1>h, <1>t, <2>1, <2>2
<1>5. ASSUME NEW w \in Threads, CloseClient(w) PROVE Kept
  <2>1. /\ queue' = queue /\ hand' = hand /\ owner' = [owner EXCEPT ![fd[w]] = None]
        /\ fd' = [fd EXCEPT ![w] = None] /\ fd[w] \in Descriptors
    BY <1>5, <1>t, ByWorkerFrame DEF CloseClient, WGo, Handling
  <2> QED
    BY <1>h, <1>t, <2>1
<1>6. ASSUME NEW w \in Threads,
             \/ PopWaits(w) \/ SpuriousWakeup(w) \/ PopEnds(w) \/ Receive(w)
             \/ ReceiveFails(w) \/ SendAnswer(w) \/ LogRequest(w) \/ SendKills(w)
      PROVE  Kept
  <2>1. CASE SendKills(w)
    BY <1>1, <2>1 DEF SendKills, main, workers, connections
  <2>2. CASE ~ SendKills(w)
    BY <1>1, <1>6, <2>2, ByWorkerFrame
       DEF PopWaits, SpuriousWakeup, PopEnds, Receive, ReceiveFails, SendAnswer, LogRequest
  <2> QED
    BY <2>1, <2>2
<1>7. CASE \/ Start \/ StartFails \/ CheckRunning \/ AcceptInterrupted \/ AcceptFails
           \/ PushNotify \/ StopQueue \/ StopNotify \/ Join \/ Flush \/ FlushReturns
           \/ StopLogger
  BY <1>7, <1>1, ByMainFrame
     DEF Start, StartFails, CheckRunning, AcceptInterrupted, AcceptFails, PushNotify,
         StopQueue, StopNotify, Join, Flush, FlushReturns, StopLogger, connections
<1>8. CASE LoggerWrites \/ LoggerHardens \/ LoggerFails \/ HandleSignal
  BY <1>8, <1>1 DEF LoggerWrites, LoggerHardens, LoggerFails, LoggerStep, HandleSignal,
                    main, workers, connections
<1>9. CASE UNCHANGED vars
  BY <1>9, <1>1 DEF vars, main, workers, connections
<1> QED
  BY <1>2, <1>3, <1>4, <1>5, <1>6, <1>7, <1>8, <1>9
     DEF Next, MainStep, LoggerGoesOn, LoggerAnswers, WorkerStep

(***************************************************************************)
(* Answers.  A descriptor leads to one peer that has been met; a peer that *)
(* is still connected and has asked is with a worker that has read its     *)
(* request, and one that has its answer with a worker that has sent it.    *)
(***************************************************************************)

ConnectedTo(d, p, pcs) == owner[d] = p => \E w \in Threads : fd[w] = d /\ wpc[w] \in pcs

OwnerInv == /\ \A d \in Descriptors : owner[d] \in met \cup {None}
            /\ \A d, e \in Descriptors : owner[d] # None /\ owner[d] = owner[e] => d = e

AskedInv == \A p \in Peers : asked[p] # None =>
                /\ p \in met
                /\ \A d \in Descriptors : ConnectedTo(d, p, {"send", "log", "close"})

AnswerInv == \A p \in Peers : answer[p] # None =>
                /\ p \in met
                /\ \A d \in Descriptors : ConnectedTo(d, p, {"log", "close"})

ServedInv == \A w \in Threads : wpc[w] \in {"send", "log"} =>
                served[w] = Client(w) /\ asked[Client(w)] # None /\ total >= 1

MatchInv == OwnerInv /\ AskedInv /\ AnswerInv /\ ServedInv /\ AnswersMatchRequests

LEMMA MatchInit == Init => MatchInv
BY DEF Init, MatchInv, OwnerInv, AskedInv, AnswerInv, ServedInv, AnswersMatchRequests

\* The descriptor of a worker that handles a connection, and whom it leads to.
LEMMA ClientConnected ==
    ASSUME TypeInv, EveryDescriptorHasOneHolder, NEW w \in Threads, wpc[w] \in Handling
    PROVE  /\ fd[w] \in Descriptors /\ Client(w) \in Peers
           /\ \A v \in Threads : fd[v] = fd[w] => v = w
BY ServiceAssumption
   DEF TypeInv, WorkerTypes, PeerTypes, EveryDescriptorHasOneHolder, Client

LEMMA MatchNext ==
    TypeInv /\ EveryDescriptorHasOneHolder /\ MatchInv /\ [Next]_vars => MatchInv'
<1> SUFFICES ASSUME TypeInv, EveryDescriptorHasOneHolder, MatchInv, [Next]_vars
             PROVE  MatchInv'
  OBVIOUS
<1>c. Threads' = Threads
  BY ConfigStays
<1>m. OwnerInv /\ AskedInv /\ AnswerInv /\ ServedInv /\ AnswersMatchRequests
  BY DEF MatchInv
<1>t. /\ WorkerTypes /\ PeerTypes /\ None \notin Peers /\ None \notin Descriptors
      /\ None \notin Requests
  BY ServiceAssumption DEF TypeInv
<1> USE <1>c DEF Handling
\* Steps that move workers only where they handle no connection.
<1>1. ASSUME UNCHANGED <<owner, met, asked, answer, total, served, fd>>,
             \A w \in Threads : wpc'[w] = wpc[w] \/ {wpc[w], wpc'[w]} \cap Handling = {}
      PROVE  MatchInv'
  <2>1. OwnerInv' /\ AnswersMatchRequests'
    BY <1>1, <1>m DEF OwnerInv, AnswersMatchRequests
  <2>2. AskedInv' /\ AnswerInv'
    <3>1. \A w \in Threads : wpc[w] \in Handling => wpc'[w] = wpc[w]
      BY <1>1
    <3> QED
      BY <1>1, <1>m, <3>1 DEF AskedInv, AnswerInv, ConnectedTo
  <2>3. ServedInv'
    BY <1>1, <1>m DEF ServedInv, Client
  <2> QED
    BY <2>1, <2>2, <2>3 DEF MatchInv
<1>2. CASE UNCHANGED <<owner, met, asked, answer, total, served, fd, wpc>>
  BY <1>1, <1>2
<1>3. ASSUME NEW p \in Peers, AcceptConnection(p) PROVE MatchInv'
  <2>1. PICK d \in Free : owner' = [owner EXCEPT ![d] = p]
    BY <1>3 DEF AcceptConnection
  <2>2. /\ p \notin met /\ met' = met \cup {p}
        /\ UNCHANGED <<asked, answer, total, served, fd, wpc>>
    BY <1>3 DEF AcceptConnection, workers
  <2>3. d \in Descriptors /\ owner[d] = None
    BY DEF Free
  <2>4. OwnerInv'
    BY <1>m, <1>t, <2>1, <2>2, <2>3 DEF OwnerInv, PeerTypes
  <2>5. AskedInv' /\ AnswerInv'
    BY <1>m, <1>t, <2>1, <2>2, <2>3 DEF AskedInv, AnswerInv, ConnectedTo, PeerTypes
  <2>6. ServedInv' /\ AnswersMatchRequests'
    <3>1. ASSUME NEW w \in Threads, wpc[w] \in {"send", "log"} PROVE Client(w)' = Client(w)
      BY <2>1, <2>2, <2>3, <1>t, <3>1, ClientConnected DEF Client, PeerTypes
    <3> QED
      BY <1>m, <2>2, <3>1 DEF ServedInv, AnswersMatchRequests
  <2> QED
    BY <2>4, <2>5, <2>6 DEF MatchInv
<1>4. CASE Start \/ PushNotify \/ StopNotify
  <2>1. UNCHANGED <<owner, met, asked, answer, total, served, fd>>
    BY <1>4, ByMainFrame DEF Start, PushNotify, StopNotify
  <2>2. \A w \in Threads : wpc'[w] = wpc[w] \/ {wpc[w], wpc'[w]} \cap Handling = {}
    BY <1>4, <1>t
       DEF Start, PushNotify, StopNotify, WakeOne, WakeAll, Asleep, WorkerTypes, Goto
  <2> QED
    BY <1>1, <2>1, <2>2
<1>5. ASSUME NEW w \in Threads, PopWaits(w) \/ SpuriousWakeup(w) \/ PopEnds(w)
      PROVE  MatchInv'
  <2>1. UNCHANGED <<owner, met, asked, answer, total, served, fd>>
    BY <1>5, ByWorkerFrame DEF PopWaits, SpuriousWakeup, PopEnds
  <2>2. \A v \in Threads : wpc'[v] = wpc[v] \/ {wpc[v], wpc'[v]} \cap Handling = {}
    BY <1>5, <1>t DEF PopWaits, SpuriousWakeup, PopEnds, WGo, WorkerTypes
  <2> QED
    BY <1>1, <2>1, <2>2
<1>6. ASSUME NEW w \in Threads, PopConnection(w) PROVE MatchInv'
  <2>1. /\ wpc[w] = "pop" /\ wpc' = [wpc EXCEPT ![w] = "receive"]
        /\ fd' = [fd EXCEPT ![w] = Head(queue)]
        /\ UNCHANGED <<owner, met, asked, answer, total, served>>
    BY <1>6, ByWorkerFrame DEF PopConnection, WGo
  <2>2. \A v \in Threads : wpc[v] \in Handling => v # w /\ wpc'[v] = wpc[v] /\ fd'[v] = fd[v]
    BY <1>t, <2>1 DEF WorkerTypes
  <2>3. AskedInv' /\ AnswerInv'
    BY <1>m, <2>1, <2>2 DEF AskedInv, AnswerInv, ConnectedTo
  <2>4. ServedInv'
    BY <1>m, <1>t, <2>1, <2>2 DEF ServedInv, Client, WorkerTypes
  <2> QED
    BY <1>m, <2>1, <2>3, <2>4 DEF MatchInv, OwnerInv, AnswersMatchRequests
<1>7. ASSUME NEW w \in Threads, ReceiveFails(w) \/ LogRequest(w) PROVE MatchInv'
  <2>1. /\ wpc[w] \in {"receive", "log"} /\ wpc' = [wpc EXCEPT ![w] = "close"]
        /\ UNCHANGED <<owner, met, asked, answer, total, served, fd>>
    BY <1>7, ByWorkerFrame DEF ReceiveFails, LogRequest, WGo
  <2>2. AskedInv' /\ AnswerInv'
    BY <1>m, <1>t, <2>1 DEF AskedInv, AnswerInv, ConnectedTo, WorkerTypes
  <2>3. ServedInv'
    BY <1>m, <1>t, <2>1 DEF ServedInv, Client, WorkerTypes
  <2> QED
    BY <1>m, <2>1, <2>2, <2>3 DEF MatchInv, OwnerInv, AnswersMatchRequests
<1>8. ASSUME NEW w \in Threads, Receive(w) PROVE MatchInv'
  <2>1. PICK r \in Requests : asked' = [asked EXCEPT ![Client(w)] = r]
    BY <1>8 DEF Receive
  <2>2. /\ wpc[w] = "receive" /\ wpc' = [wpc EXCEPT ![w] = "send"]
        /\ served' = [served EXCEPT ![w] = Client(w)] /\ total' = total + 1
        /\ UNCHANGED <<owner, met, answer, fd>>
    BY <1>8, ByWorkerFrame DEF Receive, WGo
  <2>3. /\ fd[w] \in Descriptors /\ Client(w) \in Peers
        /\ \A v \in Threads : fd[v] = fd[w] => v = w
    BY <2>2, ClientConnected
  <2>4. Client(w) \in met /\ answer[Client(w)] = None /\ r # None
    BY <1>m, <1>t, <2>2, <2>3 DEF OwnerInv, AnswerInv, ConnectedTo, Client
  <2>5. \A v \in Threads : v # w => wpc'[v] = wpc[v] /\ served'[v] = served[v]
    BY <1>t, <2>2 DEF WorkerTypes
  <2>6. wpc'[w] = "send" /\ served'[w] = Client(w) /\ asked'[Client(w)] = r
    BY <1>t, <2>1, <2>2, <2>3 DEF WorkerTypes, PeerTypes
  <2>7. \A p \in Peers : p # Client(w) => asked'[p] = asked[p]
    BY <1>t, <2>1 DEF PeerTypes
  <2>8. AskedInv'
    <3> SUFFICES ASSUME NEW p \in Peers, asked'[p] # None
                 PROVE  /\ p \in met
                        /\ \A d \in Descriptors : owner[d] = p =>
                              \E v \in Threads : fd[v] = d /\ wpc'[v] \in {"send", "log", "close"}
      BY <2>2 DEF AskedInv, ConnectedTo
    <3>1. CASE p = Client(w)
      BY <1>m, <1>t, <2>3, <2>4, <2>6, <3>1 DEF OwnerInv, Client
    <3>2. CASE p # Client(w)
      BY <1>m, <2>2, <2>5, <2>7, <3>2 DEF AskedInv, ConnectedTo
    <3> QED
      BY <3>1, <3>2
  <2>9. AnswerInv'
    BY <1>m, <2>2, <2>5 DEF AnswerInv, ConnectedTo
  <2>10. ServedInv'
    <3> SUFFICES ASSUME NEW v \in Threads, wpc'[v] \in {"send", "log"}
                 PROVE  served'[v] = Client(v) /\ asked'[Client(v)] # None /\ total' >= 1
      BY <2>2 DEF ServedInv, Client
    <3>1. total' >= 1
      BY <1>t, <2>2 DEF PeerTypes
    <3>2. CASE v = w
      BY <2>4, <2>6, <3>1, <3>2
    <3>3. CASE v # w
      <4>1. Client(v) \in Peers /\ served[v] = Client(v) /\ asked[Client(v)] # None
        BY <1>m, <2>5, <3>3, ClientConnected DEF ServedInv
      <4> QED
        BY <2>4, <2>5, <2>6, <2>7, <3>1, <3>3, <4>1
    <3> QED
      BY <3>2, <3>3
  <2>11. AnswersMatchRequests'
    <3> SUFFICES ASSUME NEW p \in Peers, answer[p] # None
                 PROVE  /\ asked'[p] # None /\ answer[p] = Answer(asked'[p], answer[p].body)
                        /\ asked'[p] = "metrics" => answer[p].body \in 1 .. total'
      BY <2>2 DEF AnswersMatchRequests
    <3>1. asked'[p] = asked[p]
      BY <2>4, <2>7
    <3>2. 1 .. total \subseteq 1 .. total'
      BY <1>t, <2>2 DEF PeerTypes
    <3> QED
      BY <1>m, <3>1, <3>2 DEF AnswersMatchRequests
  <2> QED
    BY <1>m, <2>2, <2>8, <2>9, <2>10, <2>11 DEF MatchInv, OwnerInv
<1>9. ASSUME NEW w \in Threads, SendAnswer(w) PROVE MatchInv'
  <2>1. /\ wpc[w] = "send" /\ wpc' = [wpc EXCEPT ![w] = "log"]
        /\ UNCHANGED <<owner, met, asked, total, served, fd>>
    BY <1>9, ByWorkerFrame DEF SendAnswer, WGo
  <2>2. \/ answer' = [p \in Peers |-> IF p = Client(w) THEN Answer(asked[served[w]], total)
                                                       ELSE answer[p]]
        \/ answer' = answer
    BY <1>9 DEF SendAnswer
  <2>3. /\ fd[w] \in Descriptors /\ Client(w) \in Peers
        /\ \A v \in Threads : fd[v] = fd[w] => v = w
    BY <2>1, ClientConnected
  <2>4. /\ served[w] = Client(w) /\ asked[Client(w)] # None /\ total \in Nat /\ total >= 1
        /\ Client(w) \in met
    BY <1>m, <1>t, <2>1, <2>3 DEF ServedInv, OwnerInv, PeerTypes, Client
  <2>5. wpc'[w] = "log" /\ \A v \in Threads : v # w => wpc'[v] = wpc[v]
    BY <1>t, <2>1 DEF WorkerTypes
  <2>6. AskedInv' /\ ServedInv'
    BY <1>m, <2>1, <2>5 DEF AskedInv, ServedInv, ConnectedTo, Client
  <2>7. \A p \in Peers : \/ answer'[p] = answer[p]
                         \/ p = Client(w) /\ answer'[p] = Answer(asked[p], total)
    BY <2>2, <2>4
  <2>8. AnswerInv'
    <3> SUFFICES ASSUME NEW p \in Peers, answer'[p] # None
                 PROVE  /\ p \in met
                        /\ \A d \in Descriptors : owner[d] = p =>
                              \E v \in Threads : fd[v] = d /\ wpc'[v] \in {"log", "close"}
      BY <2>1 DEF AnswerInv, ConnectedTo
    <3>1. CASE p = Client(w)
      BY <1>m, <1>t, <2>3, <2>4, <2>5, <3>1 DEF OwnerInv, Client
    <3>2. CASE p # Client(w)
      BY <1>m, <2>5, <2>7, <3>2 DEF AnswerInv, ConnectedTo
    <3> QED
      BY <3>1, <3>2
  <2>9. AnswersMatchRequests'
    <3> SUFFICES ASSUME NEW p \in Peers, answer'[p] # None
                 PROVE  /\ asked[p] # None /\ answer'[p] = Answer(asked[p], answer'[p].body)
                        /\ asked[p] = "metrics" => answer'[p].body \in 1 .. total
      BY <2>1 DEF AnswersMatchRequests
    <3>1. CASE answer'[p] = answer[p]
      BY <1>m, <3>1 DEF AnswersMatchRequests
    <3>2. CASE p = Client(w) /\ answer'[p] = Answer(asked[p], total)
      BY <2>4, <3>2 DEF Answer
    <3> QED
      BY <2>7, <3>1, <3>2
  <2> QED
    BY <1>m, <2>1, <2>6, <2>8, <2>9 DEF MatchInv, OwnerInv
<1>10. ASSUME NEW w \in Threads, CloseClient(w) PROVE MatchInv'
  <2>1. /\ wpc[w] = "close" /\ wpc' = [wpc EXCEPT ![w] = "pop"]
        /\ owner' = [owner EXCEPT ![fd[w]] = None]
        /\ fd' = [fd EXCEPT ![w] = None] /\ served' = [served EXCEPT ![w] = None]
        /\ UNCHANGED <<met, asked, answer, total>>
    BY <1>10, ByWorkerFrame DEF CloseClient, WGo
  <2>2. fd[w] \in Descriptors /\ \A v \in Threads : fd[v] = fd[w] => v = w
    BY <2>1, ClientConnected
  <2>3. \A v \in Threads : v # w => wpc'[v] = wpc[v] /\ fd'[v] = fd[v] /\ served'[v] = served[v]
    BY <1>t, <2>1 DEF WorkerTypes
  <2>4. /\ owner'[fd[w]] = None /\ wpc'[w] = "pop"
        /\ \A d \in Descriptors : d # fd[w] => owner'[d] = owner[d]
    BY <1>t, <2>1, <2>2 DEF WorkerTypes, PeerTypes
  <2>5. OwnerInv'
    BY <1>m, <2>1, <2>4 DEF OwnerInv
  <2>6. \A d \in Descriptors, p \in Peers :
           owner'[d] = p => owner[d] = p /\ d # fd[w]
    BY <1>t, <2>4
  <2>7. AskedInv' /\ AnswerInv'
    BY <1>m, <2>1, <2>3, <2>6 DEF AskedInv, AnswerInv, ConnectedTo
  <2>8. ServedInv'
    <3> SUFFICES ASSUME NEW v \in Threads, wpc'[v] \in {"send", "log"}
                 PROVE  served'[v] = owner'[fd'[v]] /\ asked[owner'[fd'[v]]] # None /\ total >= 1
      BY <2>1 DEF ServedInv, Client
    <3>1. v # w
      BY <2>4
    <3>2. fd[v] \in Descriptors /\ fd[v] # fd[w]
      BY <2>2, <2>3, <3>1, ClientConnected
    <3> QED
      BY <1>m, <2>3, <2>4, <3>1, <3>2 DEF ServedInv, Client
  <2> QED
    BY <1>m, <2>1, <2>5, <2>7, <2>8 DEF MatchInv, AnswersMatchRequests
<1>11. CASE \/ StartFails \/ CheckRunning \/ AcceptInterrupted \/ AcceptFails \/ Push
            \/ StopQueue \/ Join \/ Flush \/ FlushReturns \/ StopLogger
  BY <1>11, <1>2, ByMainFrame
     DEF StartFails, CheckRunning, AcceptInterrupted, AcceptFails, Push, StopQueue, Join,
         Flush, FlushReturns, StopLogger
<1>12. CASE LoggerWrites \/ LoggerHardens \/ LoggerFails \/ HandleSignal
            \/ \E w \in Threads : SendKills(w)
  BY <1>12, <1>2 DEF LoggerWrites, LoggerHardens, LoggerFails, LoggerStep, HandleSignal,
                     SendKills, workers, peers
<1>13. CASE UNCHANGED vars
  BY <1>13, <1>2 DEF vars, workers, peers
<1> QED
  BY <1>3, <1>4, <1>5, <1>6, <1>7, <1>8, <1>9, <1>10, <1>11, <1>12, <1>13
     DEF Next, MainStep, LoggerGoesOn, LoggerAnswers, WorkerStep

\* No peer gets the answer to a request of another, although descriptor numbers are used
\* again at once (HandleConnection).
THEOREM AnswersTheorem == Spec => []AnswersMatchRequests
<1> DEFINE Inv == TypeInv /\ EveryDescriptorHasOneHolder /\ MatchInv
<1>1. Init => Inv
  BY TypeInit, HolderInit, MatchInit
<1>2. Inv /\ [Next]_vars => Inv'
  BY TypeNext, HolderNext, MatchNext
<1>3. Inv => AnswersMatchRequests
  BY DEF MatchInv
<1> QED
  BY <1>1, <1>2, <1>3, PTL DEF Spec

(***************************************************************************)
(* The report.  It needs a worker: with none the threads are joined at     *)
(* once and what is queued stays open.  LoadConfig sees to it.             *)
(***************************************************************************)

Reported == {"flush", "flushing", "stopLogger"}
Stopping == {"notifyAll", "join", "exited"} \cup Reported
Askers   == { p \in met : asked[p] # None }

CountInv == /\ IsFiniteSet(met) /\ total = Cardinality(Askers)
            /\ Cardinality(met) = accepted + (IF mpc \in {"push", "notify"} THEN 1 ELSE 0)

DrainInv == /\ stopped => mpc \in Stopping
            /\ \A w \in Threads : wpc[w] = "done" => stopped /\ queue = <<>>
            /\ mpc \in Reported => \A w \in Threads : wpc[w] = "done"

LEMMA CountInit == Init => CountInv /\ DrainInv
<1> SUFFICES ASSUME Init PROVE CountInv /\ DrainInv
  OBVIOUS
<1>1. Askers = {} /\ met = {} /\ IsFiniteSet({}) /\ Cardinality({}) = 0
  BY FS_EmptySet DEF Init, Askers
<1> QED
  BY <1>1 DEF Init, CountInv, DrainInv, Reported, Stopping

LEMMA CountNext ==
    /\ TypeInv /\ EveryDescriptorHasOneHolder /\ MatchInv /\ CountInv
    /\ [Next]_vars
    => CountInv'
<1> SUFFICES ASSUME TypeInv, EveryDescriptorHasOneHolder, MatchInv, CountInv, [Next]_vars
             PROVE  CountInv'
  OBVIOUS
<1>m. OwnerInv /\ AskedInv
  BY DEF MatchInv
<1>n. accepted \in Nat /\ total \in Nat
  BY DEF TypeInv, MainTypes, PeerTypes
<1>1. ASSUME UNCHANGED <<met, asked, total, accepted>>,
             mpc \in {"push", "notify"} <=> mpc' \in {"push", "notify"}
      PROVE  CountInv'
  BY <1>1 DEF CountInv, Askers
<1>2. ASSUME NEW p \in Peers, AcceptConnection(p) PROVE CountInv'
  <2>1. /\ p \notin met /\ met' = met \cup {p} /\ mpc = "accept" /\ mpc' = "push"
        /\ UNCHANGED <<asked, total, accepted>>
    BY <1>2 DEF AcceptConnection, Goto, workers
  <2>2. asked[p] = None
    BY <1>m, <2>1 DEF AskedInv
  <2>3. Askers' = Askers
    BY <2>1, <2>2 DEF Askers
  <2>4. IsFiniteSet(met') /\ Cardinality(met') = Cardinality(met) + 1
    BY <2>1, FS_AddElement DEF CountInv
  <2> QED
    BY <1>n, <2>1, <2>3, <2>4 DEF CountInv
<1>3. CASE PushNotify
  <2>1. /\ mpc = "notify" /\ mpc' = "check" /\ accepted' = accepted + 1
        /\ UNCHANGED <<met, asked, total>>
    BY <1>3, ByMainFrame DEF PushNotify, Goto
  <2> QED
    BY <1>n, <2>1 DEF CountInv, Askers
<1>4. CASE Push
  BY <1>4, <1>1, ByMainFrame DEF Push, Goto
<1>5. CASE \/ Start \/ StartFails \/ CheckRunning \/ AcceptInterrupted \/ AcceptFails
           \/ StopQueue \/ StopNotify \/ Join \/ Flush \/ FlushReturns \/ StopLogger
  <2>1. UNCHANGED <<met, asked, total, accepted>>
    BY <1>5, ByMainFrame
       DEF Start, StartFails, CheckRunning, AcceptInterrupted, AcceptFails, StopQueue,
           StopNotify, Join, Flush, FlushReturns, StopLogger
  <2>2. mpc \notin {"push", "notify"} /\ mpc' \notin {"push", "notify"}
    BY <1>5
       DEF Start, StartFails, CheckRunning, AcceptInterrupted, AcceptFails, StopQueue,
           StopNotify, Join, Flush, FlushReturns, StopLogger, Goto
  <2> QED
    BY <1>1, <2>1, <2>2
<1>6. ASSUME NEW w \in Threads, Receive(w) PROVE CountInv'
  <2>1. PICK r \in Requests : asked' = [asked EXCEPT ![Client(w)] = r]
    BY <1>6 DEF Receive
  <2>2. wpc[w] = "receive" /\ total' = total + 1 /\ UNCHANGED <<met, accepted, mpc>>
    BY <1>6, ByWorkerFrame DEF Receive, WGo
  <2>3. /\ fd[w] \in Descriptors /\ Client(w) \in Peers
        /\ \A v \in Threads : fd[v] = fd[w] => v = w
    BY <2>2, ClientConnected DEF Handling
  <2>4. Client(w) \in met /\ asked[Client(w)] = None
    <3>1. Client(w) \in met
      BY <1>m, <2>3, ServiceAssumption DEF OwnerInv, Client
    <3> QED
      BY <1>m, <2>2, <2>3, <3>1 DEF AskedInv, ConnectedTo, Client
  <2>5. Askers' = Askers \cup {Client(w)} /\ Client(w) \notin Askers
    BY <2>1, <2>2, <2>3, <2>4, ServiceAssumption DEF Askers, TypeInv, PeerTypes
  <2>6. IsFiniteSet(Askers)
    BY FS_Subset DEF CountInv, Askers
  <2>7. Cardinality(Askers') = Cardinality(Askers) + 1
    BY <2>5, <2>6, FS_AddElement
  <2> QED
    BY <2>2, <2>7 DEF CountInv
<1>7. ASSUME NEW w \in Threads,
             \/ PopConnection(w) \/ PopWaits(w) \/ SpuriousWakeup(w) \/ PopEnds(w)
             \/ ReceiveFails(w) \/ SendAnswer(w) \/ LogRequest(w) \/ CloseClient(w)
      PROVE  CountInv'
  BY <1>7, <1>1, ByWorkerFrame
     DEF PopConnection, PopWaits, SpuriousWakeup, PopEnds, ReceiveFails, SendAnswer,
         LogRequest, CloseClient
<1>8. CASE LoggerWrites \/ LoggerHardens \/ LoggerFails \/ HandleSignal
           \/ \E w \in Threads : SendKills(w)
  BY <1>8, <1>1 DEF LoggerWrites, LoggerHardens, LoggerFails, LoggerStep, HandleSignal,
                    SendKills, main, workers, peers
<1>9. CASE UNCHANGED vars
  BY <1>9, <1>1 DEF vars, main, workers, peers
<1> QED
  BY <1>2, <1>3, <1>4, <1>5, <1>6, <1>7, <1>8, <1>9
     DEF Next, MainStep, LoggerGoesOn, LoggerAnswers, WorkerStep

LEMMA DrainNext == TypeInv /\ DrainInv /\ [Next]_vars => DrainInv'
<1> SUFFICES ASSUME TypeInv, DrainInv, [Next]_vars PROVE DrainInv'
  OBVIOUS
<1>c. Threads' = Threads
  BY ConfigStays
<1>t. WorkerTypes
  BY DEF TypeInv
<1> USE <1>c DEF DrainInv, Reported, Stopping
<1>1. ASSUME UNCHANGED <<wpc, stopped, queue>>,
             mpc' = mpc \/ (~ stopped /\ mpc' \notin Reported) \/ mpc' \in {"exited"}
                        \/ (mpc \in Reported /\ mpc' \in Reported)
      PROVE  DrainInv'
  BY <1>1
<1>2. CASE \/ StartFails \/ CheckRunning \/ AcceptInterrupted \/ AcceptFails
           \/ Flush \/ FlushReturns \/ StopLogger \/ \E p \in Peers : AcceptConnection(p)
  BY <1>2, <1>1
     DEF StartFails, CheckRunning, AcceptInterrupted, AcceptFails, Flush, FlushReturns,
         StopLogger, AcceptConnection, Goto, connections, workers
<1>3. CASE Start
  BY <1>3 DEF Start, Goto, connections
<1>4. CASE Push
  <2>1. ~ stopped
    BY <1>4 DEF Push, Goto
  <2> QED
    BY <1>4, <2>1 DEF Push, Goto
<1>5. CASE PushNotify \/ StopNotify
  <2>1. \A w \in Threads : wpc'[w] = "done" <=> wpc[w] = "done"
    BY <1>5, <1>t DEF PushNotify, StopNotify, WakeOne, WakeAll, Asleep, WorkerTypes
  <2> QED
    BY <1>5, <2>1 DEF PushNotify, StopNotify, Goto, connections
<1>6. CASE StopQueue
  BY <1>6 DEF StopQueue, Goto
<1>7. CASE Join
  BY <1>7 DEF Join, Goto, connections
<1>8. ASSUME NEW w \in Threads, PopEnds(w) PROVE DrainInv'
  BY <1>8, <1>t, ByWorkerFrame DEF PopEnds, WGo, WorkerTypes
<1>9. ASSUME NEW w \in Threads, PopConnection(w) PROVE DrainInv'
  <2>1. /\ queue # <<>> /\ mpc' = mpc /\ stopped' = stopped
        /\ wpc[w] = "pop" /\ wpc' = [wpc EXCEPT ![w] = "receive"]
    BY <1>9, ByWorkerFrame DEF PopConnection, WGo
  <2> QED
    BY <1>t, <2>1 DEF WorkerTypes
<1>10. ASSUME NEW w \in Threads,
              \/ PopWaits(w) \/ SpuriousWakeup(w) \/ Receive(w) \/ ReceiveFails(w)
              \/ SendAnswer(w) \/ LogRequest(w) \/ CloseClient(w)
       PROVE  DrainInv'
  <2>1. /\ UNCHANGED <<mpc, stopped, queue>>
        /\ \E to \in WorkerPcs \ {"done"} : wpc' = [wpc EXCEPT ![w] = to]
        /\ wpc[w] # "done"
    BY <1>10, ByWorkerFrame
       DEF PopWaits, SpuriousWakeup, Receive, ReceiveFails, SendAnswer, LogRequest,
           CloseClient, WGo, WorkerPcs
  <2> QED
    BY <1>t, <2>1 DEF WorkerTypes
<1>11. CASE LoggerWrites \/ LoggerHardens \/ LoggerFails \/ HandleSignal
            \/ \E w \in Threads : SendKills(w)
  BY <1>11, <1>1 DEF LoggerWrites, LoggerHardens, LoggerFails, LoggerStep, HandleSignal,
                     SendKills, main, workers, connections
<1>12. CASE UNCHANGED vars
  BY <1>12, <1>1 DEF vars, main, workers, connections
<1> QED
  BY <1>2, <1>3, <1>4, <1>5, <1>6, <1>7, <1>8, <1>9, <1>10, <1>11, <1>12
     DEF Next, MainStep, LoggerGoesOn, LoggerAnswers, WorkerStep

\* LoadConfig starts at least one worker, whatever the environment says.
THEOREM WorkersTheorem == \A env : LoadConfig(env).worker_count >= 1
<1>1. ASSUME NEW text PROVE ParseInteger(text, Int32, 4) \in Int
  <2>1. Int32 \subseteq Int
    BY SMT DEF Int32
  <2>2. CASE text.kind = "number" /\ text.number \in Int32
    <3>1. text.number \in Int
      BY <2>1, <2>2
    <3>2. ParseInteger(text, Int32, 4) = text.number
      BY <2>2 DEF ParseInteger
    <3> QED
      BY <3>1, <3>2
  <2>3. CASE ~ (text.kind = "number" /\ text.number \in Int32)
    BY <2>3, SMT DEF ParseInteger
  <2> QED
    BY <2>2, <2>3
<1>2. ASSUME NEW n \in Int PROVE AtLeast(1, n) >= 1
  BY DEF AtLeast
<1>3. ASSUME NEW env
      PROVE  LoadConfig(env).worker_count = AtLeast(1, ParseInteger(env.HLOG_WORKERS, Int32, 4))
  BY SMT DEF LoadConfig
<1> QED
  BY <1>1, <1>2, <1>3

\* The invariant behind the report: the connections are counted, the queue is drained
\* before a worker ends, and the report comes after the workers.
ServiceInv == /\ TypeInv /\ SleepersHaveNoWork /\ EveryDescriptorHasOneHolder
              /\ MatchInv /\ CountInv /\ DrainInv

THEOREM ServiceInvariant == Spec => []ServiceInv
<1>1. Init => ServiceInv
  BY TypeInit, SleepersInit, HolderInit, MatchInit, CountInit DEF ServiceInv
<1>2. ServiceInv /\ [Next]_vars => ServiceInv'
  BY TypeNext, SleepersNext, HolderNext, MatchNext, CountNext, DrainNext DEF ServiceInv
<1> QED
  BY <1>1, <1>2, PTL DEF Spec

\* Every open descriptor has exactly one holder, and a held one is open (FileDescriptor).
THEOREM HolderTheorem == Spec => []EveryDescriptorHasOneHolder
BY ServiceInvariant, PTL DEF ServiceInv

\* With at least one worker the counts of the service_stopped line are final and agree, and
\* no connection is left open (main after its loop).
THEOREM ReportTheorem ==
    ASSUME \A c \in Configs : c.worker_count # 0
    PROVE  Spec => []ReportIsExact
<1>1. ASSUME ServiceInv PROVE ReportIsExact
  <2> SUFFICES ASSUME mpc \in Reported
               PROVE  /\ accepted = Cardinality(met) /\ total = Cardinality(Askers)
                      /\ \A d \in Descriptors : owner[d] = None
    BY DEF ReportIsExact, Reported, Askers
  <2>1. 1 \in Threads
    BY <1>1, ServiceAssumption DEF ServiceInv, TypeInv, MainTypes, Threads
  <2>2. queue = <<>> /\ \A w \in Threads : wpc[w] = "done"
    BY <1>1, <2>1 DEF ServiceInv, DrainInv
  <2>3. hand = None /\ \A w \in Threads : fd[w] = None
    BY <1>1, <2>2 DEF ServiceInv, TypeInv, MainTypes, WorkerTypes, Handling, Reported
  <2>4. Elements(queue) = {}
    BY <2>2, EmptySeq DEF Elements
  <2>5. \A d \in Descriptors : owner[d] = None
    BY <1>1, <2>3, <2>4, ServiceAssumption DEF ServiceInv, EveryDescriptorHasOneHolder
  <2>6. accepted = Cardinality(met) /\ total = Cardinality(Askers)
    BY <1>1 DEF ServiceInv, CountInv, TypeInv, MainTypes, Reported
  <2> QED
    BY <2>5, <2>6
<1> QED
  BY <1>1, ServiceInvariant, PTL

(***************************************************************************)
(* The log at exit.  While the logger has not failed, what it has been     *)
(* given is exactly the lines that are due and that the level lets pass,   *)
(* each once.  As no line is repeated, a flush that covers them all leaves *)
(* nothing pending and nothing that is not durable.                        *)
(***************************************************************************)

Logged == Elements(out) \cup Elements(pending)

\* Main has started the workers; main has reported.
Born == \A w \in Threads : wpc[w] # "unborn"
Ran  == mpc \in Reported \/ (mpc = "exited" /\ Born)

\* The connection of a peer is past its line, and what that line says.
Recorded   == { p \in met : \A d \in Descriptors : ConnectedTo(d, p, {"close"}) }
LevelOf(p) == IF asked[p] = None THEN LevelNames.warn ELSE LevelNames.info
LineFor(p) == Line(LevelOf(p), IF asked[p] = None THEN "recv_error" ELSE "request", p)

DueStarted == IF Born THEN { Info("service_started", None) } ELSE {}
DueWarned  == { Warn("accept_failed", n) : n \in 0 .. warnings - 1 }
DuePeers   == { LineFor(p) : p \in Recorded }
DueWorkers == { Info("worker_stopped", w) : w \in { v \in Threads : wpc[v] = "done" } }
DueReport  == IF Ran THEN { Info("service_stopped", None) } ELSE {}
Due        == DueStarted \cup DueWarned \cup DuePeers \cup DueWorkers \cup DueReport

Passing(lines) == { line \in lines : ShouldLog(line.level, config.level) }
Ends(s) == s # <<>> /\ s[Len(s)].kind = "service_stopped"

Once   == Distinct(out) /\ Distinct(pending) /\ Elements(out) \cap Elements(pending) = {}
DueInv == ~ failed => Logged = Passing(Due) /\ Once

BornInv == /\ mpc # "exited" => (Born <=> mpc # "start")
           /\ Ran => \A w \in Threads : wpc[w] = "done"

LastInv == ~ failed /\ Ran /\ ShouldLog(LevelNames.info, config.level) =>
               Ends(pending) \/ (pending = <<>> /\ Ends(out))

GoalInv == /\ goal \in [{"main"} -> SUBSET LineType]
           /\ ~ failed /\ mpc = "flushing" => goal["main"] = Logged

WholeInv == ~ failed /\ Ran /\ mpc \in {"stopLogger", "exited"} =>
                pending = <<>> /\ durable = Len(out)

LEMMA SomebodyWorks ==
    ASSUME TypeInv, \A c \in Configs : c.worker_count # 0
    PROVE  1 \in Threads
BY ServiceAssumption DEF TypeInv, MainTypes, Threads

(***************************************************************************)
(* How far main and the workers have come.                                 *)
(***************************************************************************)

\* A worker is born with Start, and ends with Pop.
LEMMA WorkerMoves ==
    ASSUME TypeInv, [Next]_vars, NEW w \in Threads
    PROVE  \/ wpc'[w] = wpc[w]
           \/ Start /\ wpc[w] = "unborn" /\ wpc'[w] = "pop"
           \/ wpc[w] \notin {"unborn", "done"} /\ wpc'[w] \notin {"unborn", "done"}
           \/ PopEnds(w) /\ wpc[w] = "pop" /\ wpc'[w] = "done"
<1>t. WorkerTypes
  BY DEF TypeInv
<1>1. CASE Start
  BY <1>1, <1>t DEF Start, WorkerTypes, Goto
<1>2. CASE PushNotify \/ StopNotify
  BY <1>2, <1>t DEF PushNotify, StopNotify, WakeOne, WakeAll, Asleep, WorkerTypes
<1>3. ASSUME NEW v \in Threads,
             \/ PopConnection(v) \/ PopWaits(v) \/ SpuriousWakeup(v) \/ Receive(v)
             \/ ReceiveFails(v) \/ SendAnswer(v) \/ LogRequest(v) \/ CloseClient(v)
      PROVE  \/ wpc'[w] = wpc[w]
             \/ wpc[w] \notin {"unborn", "done"} /\ wpc'[w] \notin {"unborn", "done"}
  BY <1>3, <1>t DEF PopConnection, PopWaits, SpuriousWakeup, Receive, ReceiveFails, SendAnswer,
                    LogRequest, CloseClient, WGo, WorkerTypes
<1>4. ASSUME NEW v \in Threads, PopEnds(v)
      PROVE  wpc'[w] = wpc[w] \/ (PopEnds(w) /\ wpc[w] = "pop" /\ wpc'[w] = "done")
  BY <1>4, <1>t DEF PopEnds, WGo, WorkerTypes
<1>5. CASE \/ StartFails \/ CheckRunning \/ AcceptInterrupted \/ AcceptFails \/ Push
           \/ StopQueue \/ Join \/ Flush \/ FlushReturns \/ StopLogger
           \/ \E p \in Peers : AcceptConnection(p)
  BY <1>5 DEF StartFails, CheckRunning, AcceptInterrupted, AcceptFails, Push, StopQueue, Join,
              Flush, FlushReturns, StopLogger, AcceptConnection, workers
<1>6. CASE LoggerWrites \/ LoggerHardens \/ LoggerFails \/ HandleSignal
           \/ \E v \in Threads : SendKills(v)
  BY <1>6 DEF LoggerWrites, LoggerHardens, LoggerFails, LoggerStep, HandleSignal, SendKills,
              workers
<1>7. CASE UNCHANGED vars
  BY <1>7 DEF vars, workers
<1> QED
  BY <1>1, <1>2, <1>3, <1>4, <1>5, <1>6, <1>7
     DEF Next, MainStep, LoggerGoesOn, LoggerAnswers, WorkerStep

\* Main starts once and exits once.
LEMMA MainMoves ==
    ASSUME [Next]_vars
    PROVE  \/ mpc' = mpc /\ ~ Start
           \/ Start /\ mpc = "start" /\ mpc' = "check"
           \/ StartFails /\ mpc = "start" /\ mpc' = "exited" /\ ~ Start
           \/ StopLogger /\ mpc = "stopLogger" /\ mpc' = "exited" /\ ~ Start
           \/ Join /\ mpc = "join" /\ mpc' = "flush" /\ ~ Start
           \/ mpc \in {"flush", "flushing"} /\ mpc' \in {"flushing", "stopLogger"} /\ ~ Start
           \/ mpc \notin {"start", "exited"} \cup Reported
              /\ mpc' \notin {"start", "exited"} \cup Reported
<1>1. CASE \/ Start \/ StartFails \/ StopLogger \/ Join \/ Flush \/ FlushReturns
           \/ CheckRunning \/ AcceptInterrupted \/ AcceptFails \/ Push \/ PushNotify
           \/ StopQueue \/ StopNotify \/ \E p \in Peers : AcceptConnection(p)
  BY <1>1 DEF Start, StartFails, StopLogger, Join, Flush, FlushReturns, CheckRunning,
              AcceptInterrupted, AcceptFails, Push, PushNotify, StopQueue, StopNotify,
              AcceptConnection, Goto, Reported
<1>2. ASSUME mpc' = mpc PROVE ~ Start
  BY <1>2 DEF Start, Goto
<1>3. CASE \E w \in Threads : WorkerStep(w) \/ Receive(w) \/ ReceiveFails(w)
                              \/ SpuriousWakeup(w)
  <2>1. ByWorker
    BY <1>3 DEF WorkerStep, PopConnection, PopWaits, SpuriousWakeup, PopEnds, Receive,
                ReceiveFails, SendAnswer, LogRequest, CloseClient
  <2> QED
    BY <1>2, <2>1, ByWorkerFrame
<1>4. CASE LoggerWrites \/ LoggerHardens \/ LoggerFails \/ HandleSignal
           \/ \E v \in Threads : SendKills(v)
  BY <1>2, <1>4 DEF LoggerWrites, LoggerHardens, LoggerFails, LoggerStep, HandleSignal,
                    SendKills, main
<1>5. CASE UNCHANGED vars
  BY <1>2, <1>5 DEF vars, main
<1> QED
  BY <1>1, <1>3, <1>4, <1>5 DEF Next, MainStep, LoggerGoesOn, LoggerAnswers

LEMMA BornNext ==
    ASSUME TypeInv, [Next]_vars, ~ Start
    PROVE  Born' <=> Born
<1>1. \A w \in Threads : wpc'[w] = "unborn" <=> wpc[w] = "unborn"
  BY WorkerMoves
<1>2. Threads' = Threads
  BY ConfigStays
<1> QED
  BY <1>1, <1>2 DEF Born

LEMMA BornInvInit ==
    ASSUME TypeInv, Init, \A c \in Configs : c.worker_count # 0
    PROVE  BornInv
BY SomebodyWorks DEF Init, BornInv, Born, Ran, Reported

LEMMA BornInvNext ==
    ASSUME TypeInv, DrainInv, BornInv, [Next]_vars, \A c \in Configs : c.worker_count # 0
    PROVE  BornInv'
<1>c. Threads' = Threads /\ 1 \in Threads
  BY ConfigStays, SomebodyWorks
<1>t. WorkerTypes /\ DrainInv'
  BY DrainNext DEF TypeInv
<1>1. mpc' # "exited" => (Born' <=> mpc' # "start")
  <2>1. CASE Start
    <3>1. Born' /\ mpc' = "check"
      BY <1>c, <2>1 DEF Start, Born, Goto
    <3> QED
      BY <3>1
  <2>2. CASE ~ Start
    BY <2>2, BornNext, MainMoves DEF BornInv
  <2> QED
    BY <2>1, <2>2
<1>2. ASSUME Ran', NEW w \in Threads PROVE wpc'[w] = "done"
  <2>1. CASE mpc' \in Reported
    BY <1>c, <1>t, <2>1 DEF DrainInv
  <2>2. CASE mpc' = "exited" /\ Born'
    <3>1. ~ Start /\ mpc \in {"exited", "stopLogger", "start"}
      BY <2>2, MainMoves DEF Reported, Start, Goto
    <3>2. Born
      BY <2>2, <3>1, BornNext
    <3>3. mpc # "start"
      BY <1>c, <1>t, <3>2 DEF WorkerTypes, Born
    <3>4. wpc[w] = "done"
      BY <3>1, <3>2, <3>3 DEF BornInv, Ran, DrainInv, Reported
    <3> QED
      BY <3>4, WorkerMoves
  <2> QED
    BY <1>2, <2>1, <2>2 DEF Ran
<1> QED
  BY <1>1, <1>2, <1>c DEF BornInv

\* The report is made in Join.
LEMMA RanNext ==
    ASSUME TypeInv, BornInv, [Next]_vars, \A c \in Configs : c.worker_count # 0
    PROVE  /\ ~ Join => (Ran' <=> Ran)
           /\ Join => ~ Ran /\ Ran'
<1>c. Threads' = Threads /\ 1 \in Threads
  BY ConfigStays, SomebodyWorks
<1>t. WorkerTypes
  BY DEF TypeInv
<1>1. Join => ~ Ran /\ Ran'
  BY DEF Join, Goto, Ran, Reported
<1>2. CASE Start
  BY <1>2, <1>1 DEF Start, Goto, Ran, Reported
<1>3. CASE ~ Start
  <2>1. Born' <=> Born
    BY <1>3, BornNext
  <2>2. mpc = "start" => ~ Born
    BY <1>c, <1>t DEF WorkerTypes, Born
  <2>3. mpc \in Reported => Born
    BY DEF BornInv, Reported
  <2> QED
    BY <1>1, <1>3, <2>1, <2>2, <2>3, MainMoves DEF Ran, Reported
<1> QED
  BY <1>2, <1>3

(***************************************************************************)
(* The lines of the peers.                                                 *)
(***************************************************************************)

LEMMA RecordedStays ==
    ASSUME met' = met,
           \A p \in met, d \in Descriptors :
               ConnectedTo(d, p, {"close"})' <=> ConnectedTo(d, p, {"close"})
    PROVE  Recorded' = Recorded
BY DEF Recorded

\* The handling of a connection reaches its log call only once, and only there the peer's
\* line becomes due; nothing is learnt of a peer after it.
LEMMA RecordedNext ==
    ASSUME TypeInv, EveryDescriptorHasOneHolder, MatchInv, [Next]_vars
    PROVE  /\ (\A w \in Threads : ~ ReceiveFails(w) /\ ~ LogRequest(w)) =>
                 Recorded' = Recorded /\ \A p \in Recorded : asked'[p] = asked[p]
           /\ \A w \in Threads : ReceiveFails(w) \/ LogRequest(w) =>
                 /\ Client(w) \in Peers /\ Client(w) \notin Recorded
                 /\ Recorded' = Recorded \cup {Client(w)} /\ asked' = asked
<1> DEFINE Same == Recorded' = Recorded /\ \A p \in Recorded : asked'[p] = asked[p]
<1>c. Threads' = Threads
  BY ConfigStays
<1>m. OwnerInv /\ AskedInv /\ ServedInv
  BY DEF MatchInv
<1>t. WorkerTypes /\ PeerTypes /\ None \notin Peers /\ None \notin Descriptors
  BY ServiceAssumption DEF TypeInv
<1> USE <1>c
<1>1. ASSUME UNCHANGED <<owner, met, asked, fd>>,
             \A w \in Threads : wpc'[w] = "close" <=> wpc[w] = "close"
      PROVE  Same
  BY <1>1, RecordedStays DEF ConnectedTo
<1>2. ASSUME UNCHANGED <<owner, met, asked, fd, wpc>> PROVE Same
  BY <1>1, <1>2
<1>3. ASSUME NEW p \in Peers, AcceptConnection(p) PROVE Same
  <2>1. PICK d \in Free : owner' = [owner EXCEPT ![d] = p]
    BY <1>3 DEF AcceptConnection
  <2>2. p \notin met /\ met' = met \cup {p} /\ UNCHANGED <<asked, fd, wpc>>
    BY <1>3 DEF AcceptConnection, workers
  <2>3. d \in Descriptors /\ owner[d] = None /\ \A w \in Threads : fd[w] # d
    BY DEF Free, EveryDescriptorHasOneHolder
  <2>4. p \notin Recorded'
    BY <1>t, <2>1, <2>2, <2>3 DEF Recorded, ConnectedTo, PeerTypes
  <2>5. \A u \in met, e \in Descriptors :
            ConnectedTo(e, u, {"close"})' <=> ConnectedTo(e, u, {"close"})
    BY <1>t, <2>1, <2>2, <2>3 DEF ConnectedTo, PeerTypes
  <2> QED
    BY <2>2, <2>4, <2>5 DEF Recorded
<1>4. ASSUME Start \/ PushNotify \/ StopNotify PROVE Same
  <2>1. UNCHANGED <<owner, met, asked, fd>>
    BY <1>4, ByMainFrame DEF Start, PushNotify, StopNotify
  <2>2. \A w \in Threads : wpc'[w] = "close" <=> wpc[w] = "close"
    BY <1>4, <1>t
       DEF Start, PushNotify, StopNotify, WakeOne, WakeAll, Asleep, WorkerTypes, Goto
  <2> QED
    BY <1>1, <2>1, <2>2
<1>5. ASSUME NEW w \in Threads,
             PopWaits(w) \/ SpuriousWakeup(w) \/ PopEnds(w) \/ SendAnswer(w)
      PROVE  Same
  <2>1. UNCHANGED <<owner, met, asked, fd>>
    BY <1>5, ByWorkerFrame DEF PopWaits, SpuriousWakeup, PopEnds, SendAnswer
  <2>2. \A v \in Threads : wpc'[v] = "close" <=> wpc[v] = "close"
    BY <1>5, <1>t DEF PopWaits, SpuriousWakeup, PopEnds, SendAnswer, WGo, WorkerTypes
  <2> QED
    BY <1>1, <2>1, <2>2
<1>6. ASSUME NEW w \in Threads, PopConnection(w) PROVE Same
  <2>1. /\ wpc[w] = "pop" /\ wpc' = [wpc EXCEPT ![w] = "receive"]
        /\ fd' = [fd EXCEPT ![w] = Head(queue)] /\ UNCHANGED <<owner, met, asked>>
    BY <1>6, ByWorkerFrame DEF PopConnection, WGo
  <2>2. \A v \in Threads : /\ wpc'[v] = "close" <=> wpc[v] = "close"
                           /\ wpc[v] = "close" => fd'[v] = fd[v]
    BY <1>t, <2>1 DEF WorkerTypes
  <2> QED
    BY <2>1, <2>2, RecordedStays DEF ConnectedTo
<1>7. ASSUME NEW w \in Threads, Receive(w) PROVE Same
  <2>1. PICK r \in Requests : asked' = [asked EXCEPT ![Client(w)] = r]
    BY <1>7 DEF Receive
  <2>2. wpc[w] = "receive" /\ wpc' = [wpc EXCEPT ![w] = "send"] /\ UNCHANGED <<owner, met, fd>>
    BY <1>7, ByWorkerFrame DEF Receive, WGo
  <2>3. /\ fd[w] \in Descriptors /\ Client(w) \in Peers
        /\ \A v \in Threads : fd[v] = fd[w] => v = w
    BY <2>2, ClientConnected DEF Handling
  <2>4. Client(w) \notin Recorded
    BY <2>2, <2>3 DEF Recorded, ConnectedTo, Client
  <2>5. \A p \in Recorded : asked'[p] = asked[p]
    BY <1>t, <2>1, <2>4 DEF PeerTypes, Recorded
  <2>6. \A v \in Threads : wpc'[v] = "close" <=> wpc[v] = "close"
    BY <1>t, <2>2 DEF WorkerTypes
  <2> QED
    BY <2>2, <2>5, <2>6, RecordedStays DEF ConnectedTo
<1>8. ASSUME NEW w \in Threads, ReceiveFails(w) \/ LogRequest(w)
      PROVE  /\ Client(w) \in Peers /\ Client(w) \notin Recorded
             /\ Recorded' = Recorded \cup {Client(w)} /\ asked' = asked
  <2>1. /\ wpc[w] \in {"receive", "log"} /\ wpc' = [wpc EXCEPT ![w] = "close"]
        /\ UNCHANGED <<owner, met, asked, fd>>
    BY <1>8, ByWorkerFrame DEF ReceiveFails, LogRequest, WGo
  <2>2. /\ fd[w] \in Descriptors /\ Client(w) \in Peers
        /\ \A v \in Threads : fd[v] = fd[w] => v = w
    BY <2>1, ClientConnected DEF Handling
  <2>3. Client(w) \notin Recorded
    BY <2>1, <2>2 DEF Recorded, ConnectedTo, Client
  <2>4. Client(w) \in met /\ \A d \in Descriptors : owner[d] = Client(w) => d = fd[w]
    BY <1>m, <1>t, <2>2 DEF OwnerInv, Client
  <2>5. wpc'[w] = "close" /\ \A v \in Threads : v # w => wpc'[v] = wpc[v]
    BY <1>t, <2>1 DEF WorkerTypes
  <2>6. Client(w) \in Recorded'
    BY <2>1, <2>4, <2>5 DEF Recorded, ConnectedTo
  <2>7. ASSUME NEW p \in met, p # Client(w), NEW d \in Descriptors
        PROVE  ConnectedTo(d, p, {"close"})' <=> ConnectedTo(d, p, {"close"})
    BY <2>1, <2>5, <2>7 DEF ConnectedTo, Client
  <2> QED
    BY <2>1, <2>2, <2>3, <2>4, <2>6, <2>7 DEF Recorded
<1>9. ASSUME NEW w \in Threads, CloseClient(w) PROVE Same
  <2>1. /\ wpc[w] = "close" /\ wpc' = [wpc EXCEPT ![w] = "pop"]
        /\ owner' = [owner EXCEPT ![fd[w]] = None] /\ fd' = [fd EXCEPT ![w] = None]
        /\ UNCHANGED <<met, asked>>
    BY <1>9, ByWorkerFrame DEF CloseClient, WGo
  <2>2. fd[w] \in Descriptors /\ \A v \in Threads : fd[v] = fd[w] => v = w
    BY <2>1, ClientConnected DEF Handling
  <2>3. /\ wpc'[w] = "pop" /\ fd'[w] = None
        /\ \A v \in Threads : v # w => wpc'[v] = wpc[v] /\ fd'[v] = fd[v]
    BY <1>t, <2>1 DEF WorkerTypes
  <2>4. /\ owner'[fd[w]] = None
        /\ \A d \in Descriptors : d # fd[w] => owner'[d] = owner[d]
    BY <1>t, <2>1, <2>2 DEF WorkerTypes, PeerTypes
  <2>5. ASSUME NEW p \in met, NEW d \in Descriptors
        PROVE  ConnectedTo(d, p, {"close"})' <=> ConnectedTo(d, p, {"close"})
    <3>1. p # None
      BY <1>t DEF PeerTypes
    <3>2. CASE d = fd[w]
      BY <2>1, <2>4, <3>1, <3>2 DEF ConnectedTo
    <3>3. CASE d # fd[w]
      <4>1. \A v \in Threads : (fd'[v] = d /\ wpc'[v] = "close") <=> (fd[v] = d /\ wpc[v] = "close")
        BY <1>t, <2>3, <3>3
      <4> QED
        BY <2>4, <3>3, <4>1 DEF ConnectedTo
    <3> QED
      BY <3>2, <3>3
  <2> QED
    BY <2>1, <2>5, RecordedStays
<1>10. ASSUME \/ StartFails \/ CheckRunning \/ AcceptInterrupted \/ AcceptFails \/ Push
              \/ StopQueue \/ Join \/ Flush \/ FlushReturns \/ StopLogger
       PROVE  Same
  BY <1>10, <1>2, ByMainFrame
     DEF StartFails, CheckRunning, AcceptInterrupted, AcceptFails, Push, StopQueue, Join,
         Flush, FlushReturns, StopLogger
<1>11. ASSUME \/ LoggerWrites \/ LoggerHardens \/ LoggerFails \/ HandleSignal
              \/ \E w \in Threads : SendKills(w)
       PROVE  Same
  BY <1>11, <1>2 DEF LoggerWrites, LoggerHardens, LoggerFails, LoggerStep, HandleSignal,
                     SendKills, workers, peers
<1>12. ASSUME UNCHANGED vars PROVE Same
  BY <1>12, <1>2 DEF vars, workers, peers
<1> QED
  BY <1>3, <1>4, <1>5, <1>6, <1>7, <1>8, <1>9, <1>10, <1>11, <1>12
     DEF Next, MainStep, LoggerGoesOn, LoggerAnswers, WorkerStep
(***************************************************************************)
(* The lines that are due.                                                 *)
(***************************************************************************)

\* Lines due for different reasons differ.
LEMMA DueKinds ==
    /\ \A line \in DueStarted : line.kind = "service_started"
    /\ \A line \in DueWarned : line.kind = "accept_failed"
    /\ \A line \in DuePeers : line.kind \in {"recv_error", "request"}
    /\ \A line \in DueWorkers : line.kind = "worker_stopped"
    /\ \A line \in DueReport : line.kind = "service_stopped"
BY DEF DueStarted, DueWarned, DuePeers, DueWorkers, DueReport, LineFor, Info, Warn, Line

\* Every step that logs makes exactly the line it logs due, which was not due before.
LEMMA DueNext ==
    ASSUME TypeInv, EveryDescriptorHasOneHolder, MatchInv, BornInv, [Next]_vars,
           \A c \in Configs : c.worker_count # 0
    PROVE  \/ /\ Due' = Due
              /\ \/ UNCHANGED logger
                 \/ LoggerWrites \/ LoggerHardens \/ LoggerFails \/ Flush \/ FlushReturns
           \/ \E line \in LineType : line \notin Due /\ Due' = Due \cup {line} /\ Logs(line)
<1>c. Threads' = Threads /\ 1 \in Threads
  BY ConfigStays, SomebodyWorks
<1>t. WorkerTypes /\ PeerTypes /\ None \notin Peers /\ warnings \in Nat
  BY ServiceAssumption DEF TypeInv, MainTypes
<1> DEFINE NoClose == \A w \in Threads : wpc'[w] = "close" => wpc[w] = "close"
           NoDone  == \A w \in Threads : wpc'[w] = "done" => wpc[w] = "done"
<1>1. ~ Start => DueStarted' = DueStarted
  BY BornNext DEF DueStarted, Info, Line
<1>2. warnings' = warnings => DueWarned' = DueWarned
  BY DEF DueWarned, Warn, Line
<1>3. NoClose => DuePeers' = DuePeers
  <2> SUFFICES ASSUME NoClose PROVE DuePeers' = DuePeers
    OBVIOUS
  <2>1. \A w \in Threads : ~ ReceiveFails(w) /\ ~ LogRequest(w)
    BY <1>t DEF ReceiveFails, LogRequest, WGo, WorkerTypes
  <2>2. Recorded' = Recorded /\ \A p \in Recorded : asked'[p] = asked[p]
    BY <2>1, RecordedNext
  <2>3. \A p \in Recorded : LineFor(p)' = LineFor(p)
    BY <2>2 DEF LineFor, LevelOf, Line
  <2> QED
    BY <2>2, <2>3 DEF DuePeers
<1>4. NoDone => DueWorkers' = DueWorkers
  <2> SUFFICES ASSUME NoDone PROVE DueWorkers' = DueWorkers
    OBVIOUS
  <2>1. \A w \in Threads : wpc'[w] = "done" <=> wpc[w] = "done"
    BY WorkerMoves
  <2> QED
    BY <1>c, <2>1 DEF DueWorkers, Info, Line
<1>5. ~ Join => DueReport' = DueReport
  BY RanNext DEF DueReport, Info, Line
<1>6. ASSUME ~ Start, ~ Join, warnings' = warnings, NoClose, NoDone PROVE Due' = Due
  BY <1>1, <1>2, <1>3, <1>4, <1>5, <1>6 DEF Due
<1>7. CASE Start
  <2> DEFINE line == Info("service_started", None)
  <2>1. line \in LineType /\ line.kind = "service_started"
    BY DEF Info, Line, LineType, LineKinds
  <2>2. mpc = "start" /\ mpc' = "check" /\ warnings' = warnings /\ Logs(line)
        /\ wpc' = [w \in Threads |-> "pop"]
    BY <1>7 DEF Start, Goto
  <2>3. ~ Born /\ Born' /\ ~ Join /\ NoClose /\ NoDone
    BY <1>c, <1>t, <2>2 DEF WorkerTypes, Born, Join, Goto
  <2>4. DueStarted' = {line} /\ DueStarted = {}
    BY <2>3 DEF DueStarted, Info, Line
  <2>5. Due' = Due \cup {line}
    BY <1>2, <1>3, <1>4, <1>5, <2>2, <2>3, <2>4 DEF Due
  <2>6. line \notin Due
    BY <2>1, <2>4, DueKinds DEF Due
  <2> QED
    BY <2>1, <2>2, <2>5, <2>6
<1>8. CASE Join
  <2> DEFINE line == Info("service_stopped", None)
  <2>1. line \in LineType /\ line.kind = "service_stopped"
    BY DEF Info, Line, LineType, LineKinds
  <2>2. mpc = "join" /\ warnings' = warnings /\ wpc' = wpc /\ Logs(line)
    BY <1>8 DEF Join, Goto
  <2>3. ~ Start /\ NoClose /\ NoDone /\ ~ Ran /\ Ran'
    BY <1>8, <2>2, RanNext DEF Start, Goto
  <2>4. DueReport' = {line} /\ DueReport = {}
    BY <2>3 DEF DueReport, Info, Line
  <2>5. Due' = Due \cup {line}
    BY <1>1, <1>2, <1>3, <1>4, <2>2, <2>3, <2>4 DEF Due
  <2>6. line \notin Due
    BY <2>1, <2>4, DueKinds DEF Due
  <2> QED
    BY <2>1, <2>2, <2>5, <2>6
<1>9. CASE AcceptFails
  <2> DEFINE line == Warn("accept_failed", warnings)
  <2>1. line \in LineType /\ line.kind = "accept_failed" /\ line.about = warnings
    BY <1>t DEF Warn, Line, LineType, LineKinds
  <2>2. mpc = "accept" /\ warnings' = warnings + 1 /\ wpc' = wpc /\ Logs(line)
    BY <1>9 DEF AcceptFails, Goto
  <2>3. ~ Start /\ ~ Join /\ NoClose /\ NoDone
    BY <2>2 DEF Start, Join, Goto
  <2>4. DueWarned' = DueWarned \cup {line}
    <3>1. 0 .. warnings' - 1 = (0 .. warnings - 1) \cup {warnings}
      BY <1>t, <2>2
    <3>2. DueWarned' = { Warn("accept_failed", n) : n \in 0 .. warnings' - 1 }
      BY DEF DueWarned, Warn, Line
    <3> QED
      BY <3>1, <3>2 DEF DueWarned
  <2>5. line \notin DueWarned
    <3>1. \A n \in 0 .. warnings - 1 : n # warnings
      BY <1>t
    <3> QED
      BY <2>1, <3>1 DEF DueWarned, Warn, Line
  <2>6. Due' = Due \cup {line}
    BY <1>1, <1>3, <1>4, <1>5, <2>3, <2>4 DEF Due
  <2>7. line \notin Due
    BY <2>1, <2>5, DueKinds DEF Due
  <2> QED
    BY <2>1, <2>2, <2>6, <2>7
<1>10. ASSUME NEW w \in Threads, PopEnds(w)
       PROVE  \E line \in LineType : line \notin Due /\ Due' = Due \cup {line} /\ Logs(line)
  <2> DEFINE line == Info("worker_stopped", w)
  <2>0. w \in Nat
    BY ServiceAssumption DEF Threads, TypeInv, MainTypes
  <2>1. line \in LineType /\ line.kind = "worker_stopped" /\ line.about = w
    BY <2>0 DEF Info, Line, LineType, LineKinds
  <2>2. /\ wpc[w] = "pop" /\ wpc' = [wpc EXCEPT ![w] = "done"] /\ Logs(line)
        /\ mpc' = mpc /\ warnings' = warnings
    BY <1>10, ByWorkerFrame DEF PopEnds, WGo
  <2>3. ~ Start /\ ~ Join /\ NoClose
    BY <1>t, <2>2 DEF Start, Join, Goto, WorkerTypes
  <2>4. \A v \in Threads : wpc'[v] = "done" <=> wpc[v] = "done" \/ v = w
    BY <1>t, <2>2 DEF WorkerTypes
  <2>5. DueWorkers' = DueWorkers \cup {line}
    BY <1>c, <2>4 DEF DueWorkers, Info, Line
  <2>6. line \notin DueWorkers
    BY <2>1, <2>2 DEF DueWorkers, Info, Line
  <2>7. Due' = Due \cup {line}
    BY <1>1, <1>2, <1>3, <1>5, <2>2, <2>3, <2>5 DEF Due
  <2>8. line \notin Due
    BY <2>1, <2>6, DueKinds DEF Due
  <2> QED
    BY <2>1, <2>2, <2>7, <2>8
<1>11. ASSUME NEW w \in Threads, ReceiveFails(w) \/ LogRequest(w)
       PROVE  \E line \in LineType : line \notin Due /\ Due' = Due \cup {line} /\ Logs(line)
  <2> DEFINE line == LineFor(Client(w))
  <2>1. /\ Client(w) \in Peers /\ Client(w) \notin Recorded
        /\ Recorded' = Recorded \cup {Client(w)} /\ asked' = asked
    BY <1>11, RecordedNext
  <2>2. /\ line \in LineType /\ line.kind \in {"recv_error", "request"}
        /\ line.about = Client(w)
    BY <2>1 DEF LineFor, LevelOf, Line, LineType, LineKinds
  <2>3. /\ wpc[w] \in {"receive", "log"} /\ wpc' = [wpc EXCEPT ![w] = "close"]
        /\ mpc' = mpc /\ warnings' = warnings
    BY <1>11, ByWorkerFrame DEF ReceiveFails, LogRequest, WGo
  <2>4. Logs(line)
    <3>1. CASE ReceiveFails(w)
      <4>1. /\ wpc[w] = "receive" /\ fd[w] \in Descriptors
            /\ \A v \in Threads : fd[v] = fd[w] => v = w
        BY <3>1, ClientConnected DEF ReceiveFails, WGo, Handling
      <4>2. asked[Client(w)] = None
        BY <2>1, <4>1 DEF MatchInv, AskedInv, ConnectedTo, Client
      <4>3. line = Warn("recv_error", Client(w))
        BY <4>2 DEF LineFor, LevelOf, Warn
      <4> QED
        BY <3>1, <4>3 DEF ReceiveFails
    <3>2. CASE LogRequest(w)
      <4>1. wpc[w] = "log"
        BY <3>2 DEF LogRequest, WGo
      <4>2. served[w] = Client(w) /\ asked[Client(w)] # None
        BY <4>1 DEF MatchInv, ServedInv
      <4>3. line = Info("request", served[w])
        BY <4>2 DEF LineFor, LevelOf, Info
      <4> QED
        BY <3>2, <4>3 DEF LogRequest
    <3> QED
      BY <1>11, <3>1, <3>2
  <2>5. ~ Start /\ ~ Join /\ NoDone
    BY <1>t, <2>3 DEF Start, Join, Goto, WorkerTypes
  <2>6. DuePeers' = DuePeers \cup {line}
    <3>1. \A p : LineFor(p)' = LineFor(p)
      BY <2>1 DEF LineFor, LevelOf, Line
    <3> QED
      BY <2>1, <3>1 DEF DuePeers
  <2>7. line \notin DuePeers
    <3>1. \A p \in Recorded : LineFor(p).about = p
      BY DEF LineFor, Line
    <3> QED
      BY <2>1, <2>2, <3>1 DEF DuePeers
  <2>8. Due' = Due \cup {line}
    BY <1>1, <1>2, <1>4, <1>5, <2>3, <2>5, <2>6 DEF Due
  <2>9. line \notin Due
    BY <2>2, <2>7, DueKinds DEF Due
  <2> QED
    BY <2>2, <2>4, <2>8, <2>9
<1>12. CASE \/ StartFails \/ CheckRunning \/ AcceptInterrupted \/ Push \/ PushNotify
            \/ StopQueue \/ StopNotify \/ Flush \/ FlushReturns \/ StopLogger
            \/ \E p \in Peers : AcceptConnection(p)
  <2>1. ~ Start /\ ~ Join /\ warnings' = warnings
    BY <1>12 DEF StartFails, CheckRunning, AcceptInterrupted, Push, PushNotify, StopQueue,
                 StopNotify, Flush, FlushReturns, StopLogger, AcceptConnection, Start, Join, Goto
  <2>2. NoClose /\ NoDone
    <3>1. CASE PushNotify \/ StopNotify
      BY <1>t, <3>1 DEF PushNotify, StopNotify, WakeOne, WakeAll, Asleep, WorkerTypes
    <3>2. CASE wpc' = wpc
      BY <3>2
    <3> QED
      BY <1>12, <3>1, <3>2
         DEF StartFails, CheckRunning, AcceptInterrupted, Push, StopQueue, Flush, FlushReturns,
             StopLogger, AcceptConnection, workers
  <2>3. UNCHANGED logger \/ Flush \/ FlushReturns
    BY <1>12 DEF StartFails, CheckRunning, AcceptInterrupted, Push, PushNotify, StopQueue,
                 StopNotify, StopLogger, AcceptConnection
  <2> QED
    BY <1>6, <2>1, <2>2, <2>3
<1>13. ASSUME NEW w \in Threads,
              \/ PopConnection(w) \/ PopWaits(w) \/ SpuriousWakeup(w) \/ Receive(w)
              \/ SendAnswer(w) \/ CloseClient(w)
       PROVE  Due' = Due /\ UNCHANGED logger
  <2>1. /\ UNCHANGED <<mpc, warnings, logger>>
        /\ \E to \in WorkerPcs \ {"close", "done"} : wpc' = [wpc EXCEPT ![w] = to]
    BY <1>13, ByWorkerFrame
       DEF PopConnection, PopWaits, SpuriousWakeup, Receive, SendAnswer, CloseClient, WGo,
           WorkerPcs
  <2>2. ~ Start /\ ~ Join /\ NoClose /\ NoDone
    BY <1>t, <2>1 DEF Start, Join, Goto, WorkerTypes
  <2> QED
    BY <1>6, <2>1, <2>2
<1>14. CASE \/ LoggerWrites \/ LoggerHardens \/ LoggerFails \/ HandleSignal
            \/ (\E w \in Threads : SendKills(w)) \/ UNCHANGED vars
  <2>1. UNCHANGED <<mpc, warnings, wpc>>
    BY <1>14 DEF LoggerWrites, LoggerHardens, LoggerFails, LoggerStep, HandleSignal, SendKills,
                 vars, main, workers
  <2>2. ~ Start /\ ~ Join
    BY <2>1 DEF Start, Join, Goto
  <2>3. UNCHANGED logger \/ LoggerWrites \/ LoggerHardens \/ LoggerFails
    BY <1>14 DEF HandleSignal, SendKills, vars
  <2> QED
    BY <1>6, <2>1, <2>2, <2>3
<1> QED
  BY <1>7, <1>8, <1>9, <1>10, <1>11, <1>12, <1>13, <1>14
     DEF Next, MainStep, LoggerGoesOn, LoggerAnswers, WorkerStep
(***************************************************************************)
(* The log holds them.                                                     *)
(***************************************************************************)

LEMMA DueInit ==
    ASSUME Init, TypeInv, \A c \in Configs : c.worker_count # 0
    PROVE  DueInv /\ LastInv /\ GoalInv /\ WholeInv
<1>1. pending = <<>> /\ out = <<>> /\ goal = [t \in {"main"} |-> {}] /\ failed = FALSE
  BY DEF Init, Logger!Init
<1>2. 1 \in Threads
  BY SomebodyWorks
<1>3. ~ Born /\ ~ Ran /\ mpc = "start"
  BY <1>2 DEF Init, Born, Ran, Reported
<1>4. Elements(<<>>) = {} /\ Distinct(<<>>)
  BY EmptySeq DEF Elements, Distinct
<1>5. Due = {}
  <2>1. DueStarted = {} /\ DueReport = {}
    BY <1>3 DEF DueStarted, DueReport
  <2>2. 0 .. warnings - 1 = {}
    BY SMT DEF Init
  <2>3. DueWarned = {}
    BY <2>2 DEF DueWarned
  <2>4. DuePeers = {} /\ DueWorkers = {}
    BY DEF DuePeers, Recorded, DueWorkers, Init
  <2> QED
    BY <2>1, <2>3, <2>4 DEF Due
<1>6. DueInv
  BY <1>1, <1>4, <1>5 DEF DueInv, Logged, Passing, Once
<1> QED
  BY <1>1, <1>3, <1>6 DEF LastInv, GoalInv, WholeInv

\* What the logger does with a line.
LEMMA WhatLogsDoes ==
    ASSUME NEW line, Logs(line)
    PROVE  /\ UNCHANGED <<out, durable, failed, goal>>
           /\ pending' = IF ShouldLog(line.level, config.level) /\ ~ failed
                         THEN Append(pending, line) ELSE pending
BY DEF Logs, Logger!Accept, logger

\* A line that is written moves from the pending lines to the log.
LEMMA WriteMoves ==
    ASSUME TypeInv, DueInv, LoggerWrites
    PROVE  /\ ~ failed /\ failed' = failed /\ goal' = goal /\ mpc' = mpc
           /\ mpc # "exited" /\ pending # <<>>
           /\ Logged' = Logged /\ Once'
<1>t. pending \in Seq(LineType) /\ out \in Seq(LineType)
  BY DEF TypeInv, LogTypes
<1>1. /\ ~ failed /\ pending # <<>> /\ pending' = Tail(pending)
      /\ out' = Append(out, Head(pending))
      /\ UNCHANGED <<failed, goal, mpc>> /\ mpc # "exited"
  BY DEF LoggerWrites, LoggerStep, Logger!Write, main
<1>2. Once
  BY <1>1 DEF DueInv
<1>3. /\ Head(pending) \in Elements(pending)
      /\ Elements(pending') = Elements(pending) \ {Head(pending)} /\ Distinct(pending')
  BY <1>t, <1>1, <1>2, ElementsOfTail DEF Once
<1>4. Head(pending) \in LineType /\ Head(pending) \notin Elements(out)
  BY <1>t, <1>1, <1>2, <1>3 DEF Once
<1>5. Elements(out') = Elements(out) \cup {Head(pending)} /\ Distinct(out')
  BY <1>t, <1>1, <1>2, <1>4, ElementsOfAppend DEF Once
<1>6. Logged' = Logged
  BY <1>3, <1>5 DEF Logged
<1>7. Once'
  BY <1>2, <1>3, <1>5 DEF Once
<1> QED
  BY <1>1, <1>6, <1>7

LEMMA DueInvNext ==
    ASSUME TypeInv, EveryDescriptorHasOneHolder, MatchInv, BornInv, DueInv, [Next]_vars,
           \A c \in Configs : c.worker_count # 0
    PROVE  DueInv'
<1>c. config' = config
  BY ConfigStays
<1>t. pending \in Seq(LineType) /\ out \in Seq(LineType) /\ failed \in BOOLEAN
  BY DEF TypeInv, LogTypes
<1>1. Passing(Due)' = Passing(Due')
  BY <1>c DEF Passing
<1>2. ASSUME Due' = Due, pending' = pending, out' = out, failed' = failed \/ failed'
      PROVE  DueInv'
  BY <1>1, <1>2 DEF DueInv, Once, Logged
<1>3. ASSUME Due' = Due, LoggerWrites PROVE DueInv'
  BY <1>1, <1>3, WriteMoves DEF DueInv
<1>4. ASSUME NEW line \in LineType, line \notin Due, Due' = Due \cup {line}, Logs(line)
      PROVE  DueInv'
  <2> SUFFICES ASSUME ~ failed' PROVE Logged' = Passing(Due') /\ Once'
    BY <1>1 DEF DueInv
  <2>1. ~ failed /\ out' = out
    BY <1>4, WhatLogsDoes
  <2>2. Logged = Passing(Due) /\ Once
    BY <2>1 DEF DueInv
  <2>3. CASE ShouldLog(line.level, config.level)
    <3>1. pending' = Append(pending, line)
      BY <1>4, <2>1, <2>3, WhatLogsDoes
    <3>2. line \notin Elements(out) /\ line \notin Elements(pending)
      BY <1>4, <2>2 DEF Logged, Passing
    <3>3. Elements(pending') = Elements(pending) \cup {line} /\ Distinct(pending')
      BY <1>t, <2>2, <3>1, <3>2, ElementsOfAppend DEF Once
    <3>4. Passing(Due') = Passing(Due) \cup {line}
      BY <1>4, <2>3 DEF Passing
    <3> QED
      BY <2>1, <2>2, <3>2, <3>3, <3>4 DEF Logged, Once
  <2>4. CASE ~ ShouldLog(line.level, config.level)
    <3>1. pending' = pending
      BY <1>4, <2>4, WhatLogsDoes
    <3>2. Passing(Due') = Passing(Due)
      BY <1>4, <2>4 DEF Passing
    <3> QED
      BY <2>1, <2>2, <3>1, <3>2 DEF Logged, Once
  <2> QED
    BY <2>3, <2>4
<1>5. ASSUME Due' = Due, LoggerHardens \/ LoggerFails \/ Flush \/ FlushReturns PROVE DueInv'
  BY <1>2, <1>5 DEF LoggerHardens, LoggerFails, LoggerStep, Logger!Harden, Logger!Fail, Flush,
                    FlushReturns, Logger!BeginFlush, Logger!Succeed, logger
<1> QED
  BY <1>2, <1>3, <1>4, <1>5, DueNext DEF logger

\* After the report nothing is logged any more.
LEMMA AfterReport ==
    ASSUME TypeInv, BornInv, Ran, [Next]_vars
    PROVE  \/ UNCHANGED logger /\ (mpc' = mpc \/ StopLogger)
           \/ LoggerWrites \/ LoggerHardens \/ LoggerFails \/ Flush \/ FlushReturns
<1>1. \A w \in Threads : wpc[w] = "done"
  BY DEF BornInv
<1>2. mpc \in Reported \cup {"exited"}
  BY DEF Ran
<1>3. ~ \E w \in Threads : WorkerStep(w) \/ Receive(w) \/ ReceiveFails(w)
                           \/ SpuriousWakeup(w) \/ SendKills(w)
  BY <1>1 DEF WorkerStep, PopConnection, PopWaits, SpuriousWakeup, PopEnds, Receive,
              ReceiveFails, SendAnswer, SendKills, LogRequest, CloseClient, WGo
<1>4. ~ (\/ Start \/ StartFails \/ CheckRunning \/ AcceptInterrupted \/ AcceptFails \/ Push
         \/ PushNotify \/ StopQueue \/ StopNotify \/ Join
         \/ \E p \in Peers : AcceptConnection(p))
  BY <1>2 DEF Reported, Start, StartFails, CheckRunning, AcceptInterrupted, AcceptFails, Push,
              PushNotify, StopQueue, StopNotify, Join, AcceptConnection, Goto
<1> QED
  BY <1>3, <1>4
     DEF Next, MainStep, LoggerGoesOn, LoggerAnswers, StopLogger, HandleSignal, vars, main

\* The last line is the report.
LEMMA LastInvNext ==
    ASSUME TypeInv, BornInv, LastInv, [Next]_vars, \A c \in Configs : c.worker_count # 0
    PROVE  LastInv'
<1>c. config' = config
  BY ConfigStays
<1>t. pending \in Seq(LineType) /\ out \in Seq(LineType)
  BY DEF TypeInv, LogTypes
<1> SUFFICES ASSUME ~ failed', Ran', ShouldLog(LevelNames.info, config.level)
             PROVE  Ends(pending)' \/ (pending' = <<>> /\ Ends(out)')
  BY <1>c DEF LastInv
<1>1. CASE Join
  <2> DEFINE line == Info("service_stopped", None)
  <2>1. Logs(line) /\ line.level = LevelNames.info /\ line.kind = "service_stopped"
    BY <1>1 DEF Join, Info, Line
  <2>2. pending' = Append(pending, line)
    BY <2>1, WhatLogsDoes
  <2>3. /\ Len(pending') = Len(pending) + 1 /\ pending'[Len(pending) + 1] = line
        /\ Len(pending) \in Nat
    BY <1>t, <2>2
  <2>4. pending' # <<>>
    BY <2>3, EmptySeq
  <2> QED
    BY <2>1, <2>3, <2>4 DEF Ends
<1>2. CASE ~ Join
  <2>1. Ran
    BY <1>2, RanNext
  <2>2. ASSUME pending' = pending, out' = out, failed' = failed PROVE Ends(pending)' \/ (pending' = <<>> /\ Ends(out)')
    BY <2>1, <2>2 DEF LastInv, Ends
  <2>3. CASE LoggerWrites
    <3>1. /\ ~ failed /\ pending # <<>> /\ pending' = Tail(pending)
          /\ out' = Append(out, Head(pending))
      BY <2>3 DEF LoggerWrites, LoggerStep, Logger!Write
    <3>2. pending[Len(pending)].kind = "service_stopped"
      BY <2>1, <3>1 DEF LastInv, Ends
    <3>3. /\ Len(pending) \in Nat \ {0} /\ Tail(pending) \in Seq(LineType)
          /\ Len(Tail(pending)) = Len(pending) - 1 /\ Head(pending) = pending[1]
          /\ \A i \in 1 .. Len(pending) - 1 : Tail(pending)[i] = pending[i + 1]
      BY <1>t, <3>1, EmptySeq
    <3>4. CASE Len(pending) = 1
      <4>1. pending' = <<>>
        BY <3>1, <3>3, <3>4, EmptySeq
      <4>2. /\ Len(out') = Len(out) + 1 /\ out'[Len(out) + 1] = Head(pending)
            /\ Len(out) \in Nat
        BY <1>t, <3>1
      <4>3. out' # <<>>
        BY <4>2, EmptySeq
      <4> QED
        BY <3>2, <3>3, <3>4, <4>1, <4>2, <4>3 DEF Ends
    <3>5. CASE Len(pending) # 1
      <4>1. Len(pending) - 1 \in 1 .. Len(pending) - 1
        BY <3>3, <3>5
      <4>2. (Len(pending) - 1) + 1 = Len(pending)
        BY <3>3
      <4>3. pending'[Len(pending')] = pending[Len(pending)]
        BY <3>1, <3>3, <4>1, <4>2
      <4>4. pending' # <<>>
        BY <3>1, <3>3, <3>5, EmptySeq
      <4> QED
        BY <3>2, <4>3, <4>4 DEF Ends
    <3> QED
      BY <3>4, <3>5
  <2>4. CASE LoggerHardens \/ Flush \/ FlushReturns
    BY <2>2, <2>4 DEF LoggerHardens, LoggerStep, Logger!Harden, Flush, FlushReturns,
                      Logger!BeginFlush, Logger!Succeed, logger
  <2>5. CASE LoggerFails
    BY <2>5 DEF LoggerFails, LoggerStep, Logger!Fail
  <2>6. CASE UNCHANGED logger
    BY <2>2, <2>6 DEF logger
  <2> QED
    BY <2>1, <2>3, <2>4, <2>5, <2>6, AfterReport
<1> QED
  BY <1>1, <1>2

\* Main's flush has to cover all that has been logged.
LEMMA GoalInvNext ==
    ASSUME TypeInv, EveryDescriptorHasOneHolder, MatchInv, BornInv, DueInv, GoalInv,
           [Next]_vars, \A c \in Configs : c.worker_count # 0
    PROVE  GoalInv'
<1>1. CASE Flush
  <2>1. goal' = [goal EXCEPT !["main"] = Logged] /\ out' = out /\ pending' = pending
    BY <1>1 DEF Flush, Logger!BeginFlush, Logger!Elements, Logged, Elements
  <2>2. Logged' = Logged
    BY <2>1 DEF Logged
  <2>3. Logged \subseteq LineType
    BY DEF TypeInv, LogTypes, Logged, Elements
  <2> QED
    BY <2>1, <2>2, <2>3 DEF GoalInv
<1>2. CASE ~ Flush
  <2>1. goal' = goal
    <3>1. ASSUME NEW line, Logs(line) PROVE goal' = goal
      BY <3>1, WhatLogsDoes
    <3>2. LoggerWrites => goal' = goal
      BY WriteMoves
    <3> QED
      BY <1>2, <3>1, <3>2, DueNext
         DEF LoggerHardens, LoggerFails, LoggerStep, Logger!Harden, Logger!Fail,
             FlushReturns, Logger!Succeed, logger
  <2>2. ASSUME mpc' = "flushing", ~ failed'
        PROVE  mpc = "flushing" /\ ~ failed /\ Logged' = Logged
    <3>1. ~ FlushReturns /\ ~ StopLogger
      BY <2>2 DEF FlushReturns, StopLogger, Goto
    <3>2. Ran
      BY <2>2, MainMoves DEF Ran, Reported
    <3>3. CASE LoggerWrites
      BY <2>2, <3>3, WriteMoves
    <3>4. CASE LoggerHardens \/ LoggerFails
      BY <2>2, <3>4 DEF LoggerHardens, LoggerFails, LoggerStep, Logger!Harden, Logger!Fail,
                        main, Logged
    <3>5. CASE UNCHANGED logger /\ mpc' = mpc
      BY <2>2, <3>5 DEF logger, Logged
    <3> QED
      BY <1>2, <3>1, <3>2, <3>3, <3>4, <3>5, AfterReport
  <2> QED
    BY <2>1, <2>2 DEF GoalInv
<1> QED
  BY <1>1, <1>2

\* A flush that succeeds leaves nothing pending and nothing that is not durable: a line that
\* is not durable would have to be equal to one that is.
LEMMA FlushIsWhole ==
    ASSUME TypeInv, DueInv, GoalInv, mpc = "flushing", FlushReturns, ~ failed
    PROVE  pending' = <<>> /\ durable' = Len(out')
<1>1. /\ goal["main"] \subseteq { out[i] : i \in 1 .. durable }
      /\ UNCHANGED <<pending, out, durable>>
  BY DEF FlushReturns, Logger!Succeed
<1>2. /\ pending \in Seq(LineType) /\ out \in Seq(LineType) /\ durable \in 0 .. Len(out)
      /\ Len(out) \in Nat
  BY DEF TypeInv, LogTypes
<1>3. goal["main"] = Elements(out) \cup Elements(pending) /\ Once
  BY DEF GoalInv, DueInv, Logged
<1>4. pending = <<>>
  <2> SUFFICES ASSUME pending # <<>> PROVE FALSE
    OBVIOUS
  <2>1. Head(pending) \in Elements(pending)
    BY <1>2, <1>3, ElementsOfTail DEF Once
  <2>2. PICK i \in 1 .. durable : out[i] = Head(pending)
    BY <1>1, <1>3, <2>1
  <2>3. i \in 1 .. Len(out)
    BY <1>2, <2>2
  <2> QED
    BY <1>3, <2>1, <2>2, <2>3 DEF Once, Elements
<1>5. durable = Len(out)
  <2> SUFFICES ASSUME durable # Len(out) PROVE FALSE
    OBVIOUS
  <2>1. durable + 1 \in 1 .. Len(out)
    BY <1>2
  <2>2. out[durable + 1] \in Elements(out)
    BY <2>1 DEF Elements
  <2>3. PICK i \in 1 .. durable : out[i] = out[durable + 1]
    BY <1>1, <1>3, <2>2
  <2>4. i \in 1 .. Len(out) /\ i # durable + 1
    BY <1>2, <2>3
  <2> QED
    BY <1>3, <2>1, <2>3, <2>4 DEF Once, Distinct
<1> QED
  BY <1>1, <1>4, <1>5

LEMMA WholeInvNext ==
    ASSUME TypeInv, BornInv, DueInv, GoalInv, WholeInv, [Next]_vars,
           \A c \in Configs : c.worker_count # 0
    PROVE  WholeInv'
<1> SUFFICES ASSUME ~ failed', Ran', mpc' \in {"stopLogger", "exited"}
             PROVE  pending' = <<>> /\ durable' = Len(out')
  BY DEF WholeInv
<1>1. ~ Join /\ ~ Flush
  BY DEF Join, Flush, Goto
<1>2. Ran
  BY <1>1, RanNext
<1>3. CASE FlushReturns
  <2>1. mpc = "flushing" /\ ~ failed
    BY <1>3 DEF FlushReturns, Goto, Logger!Succeed, logger
  <2> QED
    BY <1>3, <2>1, FlushIsWhole
<1>4. CASE LoggerWrites
  BY <1>2, <1>4, WriteMoves DEF WholeInv
<1>5. CASE LoggerHardens
  BY <1>5 DEF LoggerHardens, LoggerStep, main
<1>6. CASE LoggerFails
  BY <1>6 DEF LoggerFails, LoggerStep, Logger!Fail
<1>7. CASE UNCHANGED logger /\ (mpc' = mpc \/ StopLogger)
  <2>1. mpc \in {"stopLogger", "exited"}
    BY <1>7 DEF StopLogger, Goto
  <2> QED
    BY <1>2, <1>7, <2>1 DEF WholeInv, logger
<1> QED
  BY <1>1, <1>2, <1>3, <1>4, <1>5, <1>6, <1>7, AfterReport

\* The invariant behind the log at exit.
LogInv == ServiceInv /\ BornInv /\ DueInv /\ LastInv /\ GoalInv /\ WholeInv

\* What the log of one connection is, once the service has reported.
LEMMA LineOfPeer ==
    ASSUME LogInv, Ran, ~ failed, pending = <<>>, NEW p \in met,
           \A c \in Configs : c.worker_count # 0
    PROVE  Cardinality(LinesOf(p)) = IF ShouldLog(LevelOf(p), config.level) THEN 1 ELSE 0
<1>0. TypeInv /\ DrainInv /\ EveryDescriptorHasOneHolder /\ BornInv /\ DueInv
  BY DEF LogInv, ServiceInv
<1>1. p \in Recorded /\ p \in Peers
  <2>1. 1 \in Threads /\ \A w \in Threads : wpc[w] = "done"
    BY <1>0, SomebodyWorks DEF BornInv
  <2>2. queue = <<>> /\ hand = None /\ \A w \in Threads : fd[w] = None
    BY <1>0, <2>1 DEF DrainInv, TypeInv, MainTypes, WorkerTypes, Handling, Ran, Reported
  <2>3. Elements(queue) = {}
    BY <2>2, EmptySeq DEF Elements
  <2>4. \A d \in Descriptors : owner[d] = None
    BY <1>0, <2>2, <2>3, ServiceAssumption DEF EveryDescriptorHasOneHolder
  <2>5. p \in Peers /\ p # None
    BY <1>0, ServiceAssumption DEF TypeInv, PeerTypes
  <2> QED
    BY <2>4, <2>5 DEF Recorded, ConnectedTo
<1>2. Elements(out) = Passing(Due) /\ Distinct(out)
  <2>1. Elements(pending) = {}
    BY EmptySeq DEF Elements
  <2> QED
    BY <1>0, <2>1 DEF DueInv, Logged, Once
<1>3. ASSUME NEW i \in LinesOf(p) PROVE i \in 1 .. Len(out) /\ out[i] = LineFor(p) /\ out[i] \in Passing(Due)
  <2>1. /\ i \in 1 .. Len(out) /\ out[i].about = p
        /\ out[i].kind \in {"request", "recv_error"}
    BY <1>3 DEF LinesOf
  <2>2. out[i] \in Passing(Due)
    BY <1>2, <2>1 DEF Elements
  <2>3. out[i] \in DuePeers
    BY <2>1, <2>2, DueKinds DEF Passing, Due
  <2>4. PICK u \in Recorded : out[i] = LineFor(u)
    BY <2>3 DEF DuePeers
  <2>5. u = p
    BY <2>1, <2>4 DEF LineFor, Line
  <2> QED
    BY <2>1, <2>2, <2>4, <2>5
<1>4. LineFor(p) \in Due /\ LineFor(p).level = LevelOf(p) /\ LineFor(p).about = p
      /\ LineFor(p).kind \in {"request", "recv_error"}
  BY <1>1 DEF Due, DuePeers, LineFor, Line
<1>5. CASE ShouldLog(LevelOf(p), config.level)
  <2>1. LineFor(p) \in Elements(out)
    BY <1>2, <1>4, <1>5 DEF Passing
  <2>2. PICK i \in 1 .. Len(out) : out[i] = LineFor(p)
    BY <2>1 DEF Elements
  <2>3. i \in LinesOf(p)
    BY <1>4, <2>2 DEF LinesOf
  <2>4. LinesOf(p) = {i}
    BY <1>2, <1>3, <2>2, <2>3 DEF Distinct
  <2> QED
    BY <1>5, <2>4, FS_Singleton
<1>6. CASE ~ ShouldLog(LevelOf(p), config.level)
  <2>1. LinesOf(p) = {}
    BY <1>3, <1>4, <1>6 DEF Passing
  <2> QED
    BY <1>6, <2>1, FS_EmptySet
<1> QED
  BY <1>5, <1>6

\* With at least one worker, a service that has started and whose logger has not failed exits
\* with its log complete and on disk: one line for each connection the level lets pass, and
\* the report last (main and HandleConnection).
THEOREM LogTheorem ==
    ASSUME \A c \in Configs : c.worker_count # 0
    PROVE  Spec => []LogIsWholeAtExit
<1>1. Init => LogInv
  BY TypeInit, SleepersInit, HolderInit, MatchInit, CountInit, BornInvInit, DueInit
     DEF ServiceInv, LogInv
<1>2. LogInv /\ [Next]_vars => LogInv'
  BY TypeNext, SleepersNext, HolderNext, MatchNext, CountNext, DrainNext, BornInvNext,
     DueInvNext, LastInvNext, GoalInvNext, WholeInvNext
     DEF ServiceInv, LogInv
<1>3. LogInv => LogIsWholeAtExit
  <2> SUFFICES ASSUME LogInv, mpc = "exited", ~ failed, Born PROVE
        /\ pending = <<>> /\ durable = Len(out)
        /\ \A p \in met : Cardinality(LinesOf(p)) =
               IF ShouldLog(LevelOf(p), config.level) THEN 1 ELSE 0
        /\ ShouldLog(LevelNames.info, config.level) => out[Len(out)].kind = "service_stopped"
    BY DEF LogIsWholeAtExit, Born, LevelOf
  <2>1. Ran
    BY DEF Ran
  <2>2. pending = <<>> /\ durable = Len(out)
    BY <2>1 DEF LogInv, WholeInv
  <2>3. \A p \in met : Cardinality(LinesOf(p)) =
            IF ShouldLog(LevelOf(p), config.level) THEN 1 ELSE 0
    BY <2>1, <2>2, LineOfPeer
  <2>4. ShouldLog(LevelNames.info, config.level) => out[Len(out)].kind = "service_stopped"
    BY <2>1, <2>2, EmptySeq DEF LogInv, LastInv, Ends
  <2> QED
    BY <2>2, <2>3, <2>4
<1> QED
  BY <1>1, <1>2, <1>3, PTL DEF Spec
===============================================================================
