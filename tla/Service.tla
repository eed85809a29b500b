-------------------------------- MODULE Service --------------------------------
(***************************************************************************)
(* examples/service_example.cpp: an HTTP service that logs with an         *)
(* AsyncLogger.  main accepts connections and queues them, worker threads  *)
(* answer them, a signal or a limit ends the accept loop, and main then    *)
(* stops the queue, joins the workers, reports, flushes and stops the      *)
(* logger.  The logger is the one LoggerPromise describes.                 *)
(*                                                                         *)
(* The queue's mutex makes each of its critical sections one action; the   *)
(* notifications, which come after them, are actions of their own.         *)
(***************************************************************************)
EXTENDS LoggerConfig, FiniteSets

CONSTANTS Peers,        \* clients, of which each connects once
          Requests,     \* what they may send; "invalid" is what ParseRequest refuses
          Descriptors,  \* file descriptors left to the process for connections
          Configs,      \* what LoadConfig may return
          MaxThreads,   \* bound: the largest worker_count of Configs
          MaxWarnings,  \* bound: failures of accept
          None          \* no peer, descriptor, request or answer

ASSUME ServiceAssumption ==
    /\ Descriptors \subseteq Nat /\ MaxThreads \in Nat /\ MaxWarnings \in Nat
    /\ None \notin Peers \cup Descriptors /\ None \notin Requests
    /\ \A c \in Configs : c.worker_count \in 0 .. MaxThreads /\ c.max_requests \in Nat

VARIABLES
    config,
    running,              \* g_running
    alive,                \* the process has not been killed
    mpc, hand, accepted,  \* main: program counter, client_fd, accepted_requests
    warnings,             \* accept_failed lines so far
    queue, stopped,       \* the ConnectionQueue
    wpc, fd, served,      \* the workers: program counter, connection, client of the request
    total,                \* total_requests
    owner,                \* for each descriptor, the peer it is connected to
    met, asked, answer,   \* the peers: accepted, what they sent, what they got
    pending, out, durable, failed, goal, flushed  \* the logger

process == <<config, alive>>
main    == <<mpc, hand, accepted, warnings>>
workers == <<wpc, fd, served, total>>
connections == <<queue, stopped>>
peers   == <<met, asked, answer>>
logger  == <<pending, out, durable, failed, goal, flushed>>
vars    == <<process, running, main, workers, connections, owner, peers, logger>>

Threads == 1 .. config.worker_count
Logger  == INSTANCE LoggerPromise WITH Callers <- {"main"}, Lines <- {}

Line(level, kind, about) == [level |-> level, kind |-> kind, about |-> about]
Info(kind, about) == Line(LevelNames.info, kind, about)
Warn(kind, about) == Line(LevelNames.warn, kind, about)

Init ==
    /\ config \in Configs
    /\ running = TRUE /\ alive = TRUE
    /\ mpc = "start" /\ hand = None /\ accepted = 0 /\ warnings = 0
    /\ queue = <<>> /\ stopped = FALSE
    /\ wpc = [w \in Threads |-> "unborn"]
    /\ fd = [w \in Threads |-> None] /\ served = [w \in Threads |-> None]
    /\ total = 0
    /\ owner = [d \in Descriptors |-> None]
    /\ met = {} /\ asked = [p \in Peers |-> None] /\ answer = [p \in Peers |-> None]
    /\ Logger!Init

\* Under Block a line that has the level is accepted; the queue of at least 256 lines does
\* not fill up here.  What a failed logger still accepts is never written.
Logs(line) == IF ShouldLog(line.level, config.level) /\ ~ failed
              THEN Logger!Accept(line) ELSE UNCHANGED logger

Goto(from, to)   == mpc = from /\ mpc' = to
WGo(w, from, to) == wpc[w] = from /\ wpc' = [wpc EXCEPT ![w] = to]
Asleep == { w \in Threads : wpc[w] = "asleep" }

\* What a step of main, or of a worker, never touches.
ByMain   == UNCHANGED <<process, running, fd, served, total, peers>>
ByWorker == UNCHANGED <<process, running, main, stopped, met>>

-------------------------------------------------------------------------------
(* main, up to the accept loop.                                            *)

\* socket, bind or listen fails: no thread has been started yet.
StartFails ==
    /\ Goto("start", "exited")
    /\ ByMain /\ UNCHANGED <<hand, accepted, warnings, wpc, connections, owner, logger>>

Start ==
    /\ Goto("start", "check")
    /\ Logs(Info("service_started", None))
    /\ wpc' = [w \in Threads |-> "pop"]
    /\ ByMain /\ UNCHANGED <<hand, accepted, warnings, connections, owner>>

WantsMore == running /\ (config.max_requests = 0 \/ accepted < config.max_requests)

CheckRunning ==
    /\ Goto("check", IF WantsMore THEN "accept" ELSE "stopQueue")
    /\ ByMain /\ UNCHANGED <<hand, accepted, warnings, wpc, connections, owner, logger>>

Free == { d \in Descriptors : owner[d] = None }

\* A peer connects; the system gives the connection the lowest descriptor that is free.
AcceptConnection(p) ==
    /\ p \notin met
    /\ Goto("accept", "push")
    /\ \E d \in Free : /\ \A e \in Free : d <= e
                      /\ hand' = d /\ owner' = [owner EXCEPT ![d] = p]
    /\ met' = met \cup {p}
    /\ UNCHANGED <<process, running, accepted, warnings, workers, connections, asked, answer,
                   logger>>

\* EINTR: only a signal's handler interrupts accept, and the handler has run by then.
AcceptInterrupted ==
    /\ ~ running
    /\ Goto("accept", "check")
    /\ ByMain /\ UNCHANGED <<hand, accepted, warnings, wpc, connections, owner, logger>>

\* Seeded fault: the result of accept is used untested.
AcceptUntested ==
    /\ Free = {} /\ warnings < MaxWarnings
    /\ Goto("accept", "push")
    /\ hand' = -1
    /\ ByMain /\ UNCHANGED <<accepted, warnings, wpc, connections, owner, logger>>

\* No descriptor is left.
AcceptFails ==
    /\ Free = {} /\ warnings < MaxWarnings
    /\ Goto("accept", "check")
    /\ warnings' = warnings + 1
    /\ Logs(Warn("accept_failed", warnings))
    /\ ByMain /\ UNCHANGED <<hand, accepted, wpc, connections, owner>>

-------------------------------------------------------------------------------
(* ConnectionQueue                                                         *)

Push ==
    /\ Goto("push", "notify")
    /\ queue' = Append(queue, hand) /\ hand' = None
    /\ ByMain /\ UNCHANGED <<accepted, warnings, wpc, stopped, owner, logger>>

WakeOne == IF Asleep = {} THEN UNCHANGED wpc
           ELSE \E w \in Asleep : wpc' = [wpc EXCEPT ![w] = "pop"]

WakeAll == wpc' = [w \in Threads |-> IF w \in Asleep THEN "pop" ELSE wpc[w]]

\* Seeded fault: a worker is woken only for the first connection that waits.
NotifyFirst ==
    /\ Goto("notify", "check")
    /\ IF Len(queue) = 1 THEN WakeOne ELSE UNCHANGED wpc
    /\ accepted' = accepted + 1
    /\ ByMain /\ UNCHANGED <<hand, warnings, connections, owner, logger>>

\* notify_one, and main counts the connection.
PushNotify ==
    /\ Goto("notify", "check")
    /\ WakeOne
    /\ accepted' = accepted + 1
    /\ ByMain /\ UNCHANGED <<hand, warnings, connections, owner, logger>>

StopQueue ==
    /\ Goto("stopQueue", "notifyAll")
    /\ stopped' = TRUE
    /\ ByMain /\ UNCHANGED <<hand, accepted, warnings, wpc, queue, owner, logger>>

StopNotify ==
    /\ Goto("notifyAll", "join")
    /\ WakeAll
    /\ ByMain /\ UNCHANGED <<hand, accepted, warnings, connections, owner, logger>>

PopConnection(w) ==
    /\ queue # <<>>
    /\ WGo(w, "pop", "receive")
    /\ fd' = [fd EXCEPT ![w] = Head(queue)] /\ queue' = Tail(queue)
    /\ ByWorker /\ UNCHANGED <<served, total, owner, asked, answer, logger>>

PopWaits(w) ==
    /\ queue = <<>> /\ ~ stopped
    /\ WGo(w, "pop", "asleep")
    /\ ByWorker /\ UNCHANGED <<fd, served, total, queue, owner, asked, answer, logger>>

SpuriousWakeup(w) ==
    /\ WGo(w, "asleep", "pop")
    /\ ByWorker /\ UNCHANGED <<fd, served, total, queue, owner, asked, answer, logger>>

\* Seeded fault: a stopped queue is taken for an empty one.
PopEndsAtStop(w) ==
    /\ stopped
    /\ WGo(w, "pop", "done")
    /\ Logs(Info("worker_stopped", w))
    /\ ByWorker /\ UNCHANGED <<fd, served, total, queue, owner, asked, answer>>

\* Pop returns false, and the worker logs that it stops.
PopEnds(w) ==
    /\ queue = <<>> /\ stopped
    /\ WGo(w, "pop", "done")
    /\ Logs(Info("worker_stopped", w))
    /\ ByWorker /\ UNCHANGED <<fd, served, total, queue, owner, asked, answer>>

-------------------------------------------------------------------------------
(* HandleConnection                                                        *)

Client(w) == owner[fd[w]]    \* whoever the worker's descriptor leads to

\* Seeded fault: the early return forgets the descriptor.
ReceiveLeaks(w) ==
    /\ WGo(w, "receive", "pop")
    /\ Logs(Warn("recv_error", Client(w)))
    /\ fd' = [fd EXCEPT ![w] = None]
    /\ ByWorker /\ UNCHANGED <<served, total, queue, owner, asked, answer>>

\* recv fails or finds the connection closed.
ReceiveFails(w) ==
    /\ WGo(w, "receive", "close")
    /\ Logs(Warn("recv_error", Client(w)))
    /\ ByWorker /\ UNCHANGED <<fd, served, total, queue, owner, asked, answer>>

\* Seeded fault: the descriptor is closed as soon as the request has been read.
ReceiveAndClose(w) ==
    /\ WGo(w, "receive", "send")
    /\ \E r \in Requests : asked' = [asked EXCEPT ![Client(w)] = r]
    /\ served' = [served EXCEPT ![w] = Client(w)]
    /\ total' = total + 1
    /\ owner' = [owner EXCEPT ![fd[w]] = None]
    /\ ByWorker /\ UNCHANGED <<fd, queue, answer, logger>>

\* recv returns what the peer has sent by then, and the request is counted.
Receive(w) ==
    /\ WGo(w, "receive", "send")
    /\ \E r \in Requests : asked' = [asked EXCEPT ![Client(w)] = r]
    /\ served' = [served EXCEPT ![w] = Client(w)]
    /\ total' = total + 1
    /\ ByWorker /\ UNCHANGED <<fd, queue, owner, answer, logger>>

\* ParseRequest does not find two blanks in the first line.
Refused(request) == request = "invalid"

\* The answer to a request; that to /metrics shows total_requests.
Answer(request, count) ==
    [status |-> IF Refused(request) THEN 400 ELSE 200,
     body   |-> IF request = "metrics" THEN count ELSE 0]

\* SendAll returns early if the peer has gone, and the answer is lost.
SendAnswer(w) ==
    /\ WGo(w, "send", "log")
    /\ \/ answer' = [p \in Peers |-> IF p = Client(w) THEN Answer(asked[served[w]], total)
                                                   ELSE answer[p]]
       \/ UNCHANGED answer
    /\ ByWorker /\ UNCHANGED <<fd, served, total, queue, owner, asked, logger>>

\* Or it raises SIGPIPE, which nothing handles.
SendKills(w) ==
    /\ wpc[w] = "send"
    /\ alive' = FALSE
    /\ UNCHANGED <<config, running, main, workers, connections, owner, peers, logger>>

LogRequest(w) ==
    /\ WGo(w, "log", "close")
    /\ Logs(Info("request", served[w]))
    /\ ByWorker /\ UNCHANGED <<fd, served, total, queue, owner, asked, answer>>

\* ~FileDescriptor.
CloseClient(w) ==
    /\ WGo(w, "close", "pop")
    /\ owner' = [owner EXCEPT ![fd[w]] = None]
    /\ fd' = [fd EXCEPT ![w] = None] /\ served' = [served EXCEPT ![w] = None]
    /\ ByWorker /\ UNCHANGED <<total, queue, asked, answer, logger>>

-------------------------------------------------------------------------------
(* main, after the accept loop.                                            *)

Join ==
    /\ \A w \in Threads : wpc[w] = "done"
    /\ Goto("join", "flush")
    /\ Logs(Info("service_stopped", None))
    /\ ByMain /\ UNCHANGED <<hand, accepted, warnings, wpc, connections, owner>>

\* Seeded fault: main leaves it to Stop to write what is pending.
FlushSkipped ==
    /\ Goto("flush", "stopLogger")
    /\ ByMain /\ UNCHANGED <<hand, accepted, warnings, wpc, connections, owner, logger>>

Flush ==
    /\ Goto("flush", "flushing")
    /\ Logger!BeginFlush("main")
    /\ ByMain /\ UNCHANGED <<hand, accepted, warnings, wpc, connections, owner>>

\* Flush returns true, or false because the logger has failed.
FlushReturns ==
    /\ Goto("flushing", "stopLogger")
    /\ Logger!Succeed("main") \/ (failed /\ UNCHANGED logger)
    /\ ByMain /\ UNCHANGED <<hand, accepted, warnings, wpc, connections, owner>>

\* Stop returns once the logger's worker is gone, whatever it has written by then.
StopLogger ==
    /\ Goto("stopLogger", "exited")
    /\ ByMain /\ UNCHANGED <<hand, accepted, warnings, wpc, connections, owner, logger>>

-------------------------------------------------------------------------------
(* The logger's worker and the signals.                                    *)

LoggerStep(step) ==
    /\ mpc \notin {"start", "exited"}
    /\ step
    /\ UNCHANGED <<process, running, main, workers, connections, owner, peers>>

LoggerWrites  == LoggerStep(Logger!Write)
LoggerHardens == mpc = "flushing" /\ LoggerStep(Logger!Harden)  \* earlier, nobody can tell
LoggerFails   == LoggerStep(Logger!Fail)

HandleSignal ==
    /\ running' = FALSE
    /\ UNCHANGED <<process, main, workers, connections, owner, peers, logger>>

-------------------------------------------------------------------------------

\* What main does without the help of a peer or of the logger's worker: accept may block
\* for ever.
MainStep ==
    \/ Start \/ CheckRunning \/ AcceptFails
    \/ Push \/ PushNotify \/ StopQueue \/ StopNotify
    \/ Join \/ Flush

\* Where main waits for the logger's worker.
LoggerAnswers == FlushReturns \/ StopLogger

\* What the logger's worker does, and the return of the calls that wait for it.
LoggerGoesOn == LoggerWrites \/ LoggerHardens \/ LoggerAnswers

\* What a worker does without a peer's help: recv may block for ever.
WorkerStep(w) ==
    \/ PopConnection(w) \/ PopWaits(w) \/ PopEnds(w)
    \/ SendAnswer(w) \/ LogRequest(w) \/ CloseClient(w)

Next ==
    /\ alive
    /\ \/ MainStep \/ LoggerGoesOn \/ StartFails \/ AcceptInterrupted
       \/ \E w \in Threads : \/ WorkerStep(w) \/ Receive(w) \/ ReceiveFails(w)
                            \/ SpuriousWakeup(w) \/ SendKills(w)
       \/ LoggerFails
       \/ \E p \in Peers : AcceptConnection(p)
       \/ HandleSignal

Spec == Init /\ [][Next]_vars

\* The service's threads are scheduled when they can go on, and a logger that has failed
\* releases its callers.  A logger that has not failed owes nothing: its worker may have
\* missed a notification, and then neither writes nor lets Flush or Stop return.
FairSpec ==
    /\ Spec
    /\ WF_vars(alive /\ MainStep)
    /\ \A w \in 1 .. MaxThreads : WF_vars(alive /\ w \in Threads /\ WorkerStep(w))
    /\ WF_vars(alive /\ failed /\ LoggerAnswers)
===============================================================================
