--------------------------- MODULE ServiceProperties ---------------------------
(***************************************************************************)
(* What the service must guarantee, whatever its threads, its peers and    *)
(* the signals do.                                                         *)
(***************************************************************************)
EXTENDS Service

MainPcs == {"start", "check", "accept", "push", "notify", "stopQueue", "notifyAll", "join",
            "flush", "flushing", "stopLogger", "exited"}
WorkerPcs == {"unborn", "pop", "asleep", "receive", "send", "log", "close", "done"}
LineKinds == {"service_started", "worker_stopped", "accept_failed", "recv_error", "request",
              "service_stopped"}
LineType == [level : {LevelNames.info, LevelNames.warn}, kind : LineKinds,
             about : Peers \cup Nat \cup {None}]
AnswerType == [status : {200, 400}, body : Nat]

\* Every variable stays in its domain.
TypeOK ==
    /\ config \in Configs /\ running \in BOOLEAN /\ alive \in BOOLEAN
    /\ mpc \in MainPcs /\ hand \in Descriptors \cup {None}
    /\ accepted \in Nat /\ warnings \in 0 .. MaxWarnings
    /\ queue \in Seq(Descriptors) /\ stopped \in BOOLEAN
    /\ wpc \in [Threads -> WorkerPcs]
    /\ fd \in [Threads -> Descriptors \cup {None}]
    /\ served \in [Threads -> Peers \cup {None}]
    /\ total \in Nat
    /\ owner \in [Descriptors -> Peers \cup {None}]
    /\ met \subseteq Peers
    /\ asked \in [Peers -> Requests \cup {None}]
    /\ \A p \in Peers : answer[p] = None \/ answer[p] \in AnswerType
    /\ pending \in Seq(LineType) /\ out \in Seq(LineType)
    /\ durable \in 0 .. Len(out) /\ failed \in BOOLEAN

Handling == {"receive", "send", "log", "close"}
Elements(s) == { s[i] : i \in 1 .. Len(s) }

\* notify_one and notify_all come after the unlock, so a worker may go to sleep between
\* the two.  No connection is left to a sleeper all the same: while somebody sleeps there
\* is an awake worker, or a notification to come, for every connection that waits, and
\* once the queue has been stopped nobody sleeps through the end of Stop.
SleepersHaveNoWork ==
    Asleep # {} =>
        /\ Len(queue) <= Cardinality({ w \in Threads : wpc[w] = "pop" })
                         + (IF mpc = "notify" THEN 1 ELSE 0)
        /\ stopped => mpc = "notifyAll"

\* A descriptor travels as a plain int from accept through the queue to the worker that
\* wraps it.  Exactly the open ones are held, each by one holder: none leaks, none is
\* closed twice or used after its number has been given to another connection.
EveryDescriptorHasOneHolder ==
    /\ \A d \in Descriptors :
        owner[d] # None <=> \/ d = hand \/ d \in Elements(queue)
                            \/ \E w \in Threads : fd[w] = d
    /\ \A i, j \in 1 .. Len(queue) : i # j => queue[i] # queue[j]
    /\ hand \notin Elements(queue)
    /\ \A w \in Threads :
        fd[w] # None => /\ fd[w] # hand /\ fd[w] \notin Elements(queue)
                        /\ \A v \in Threads : v # w => fd[v] # fd[w]

\* Nobody gets an answer to a request of somebody else, although descriptor numbers are
\* used again at once; a count in an answer to /metrics is one the service had reached.
AnswersMatchRequests ==
    \A p \in Peers : answer[p] # None =>
        /\ asked[p] # None
        /\ answer[p] = Answer(asked[p], answer[p].body)
        /\ asked[p] = "metrics" => answer[p].body \in 1 .. total

\* The counts main reports in service_stopped are final and agree: every connection was
\* accepted, given to a worker and closed, and the processed ones are those that sent a
\* request - also the connections that were still queued when the queue was stopped.
ReportIsExact ==
    mpc \in {"flush", "flushing", "stopLogger"} =>
        /\ accepted = Cardinality(met)
        /\ total = Cardinality({ p \in met : asked[p] # None })
        /\ \A d \in Descriptors : owner[d] = None

LinesOf(p) == { i \in 1 .. Len(out) : /\ out[i].about = p
                                      /\ out[i].kind \in {"request", "recv_error"} }

\* A service that has started exits with its log complete and on disk, unless the logger
\* failed: main flushes before it stops the logger, whose Stop alone would not do.  There
\* is one line for each connection, if the level lets it pass, and the report comes last.
LogIsWholeAtExit ==
    mpc = "exited" /\ ~ failed /\ (\A w \in Threads : wpc[w] # "unborn") =>
        /\ pending = <<>> /\ durable = Len(out)
        /\ \A p \in met :
            Cardinality(LinesOf(p)) =
                IF ShouldLog(IF asked[p] = None THEN LevelNames.warn ELSE LevelNames.info,
                             config.level)
                THEN 1 ELSE 0
        /\ ShouldLog(LevelNames.info, config.level) => out[Len(out)].kind = "service_stopped"

-------------------------------------------------------------------------------
(* Liveness, under FairSpec.                                               *)

\* Every connection a worker listens to gets a request, is closed or fails.
PeersSpeak ==
    \A w \in 1 .. MaxThreads : []<> ~ (w \in Threads /\ wpc[w] = "receive")

\* The logger's worker does not sleep for good while it has something to do: the calls that
\* wait for it return in the end.  AsyncLogger shows that this may fail (WorkerWakes).
LoggerWakes == WF_vars(alive /\ LoggerGoesOn)

\* Once main has left the accept loop, and if the peers already connected speak, every
\* worker leaves Pop and is joined; and the service exits if the logger's worker wakes, or
\* has failed.
ServiceEnds ==
    PeersSpeak =>
        /\ mpc = "stopQueue" ~> (mpc = "flush" \/ ~ alive)
        /\ LoggerWakes \/ <>failed => (mpc = "stopQueue" ~> (mpc = "exited" \/ ~ alive))

\* Every connection that was accepted is served and closed, if the peers connected speak,
\* whenever the stop comes and whatever the environment said of the number of workers.
EveryConnectionIsServed ==
    PeersSpeak =>
        \A p \in Peers : p \in met ~> ((\A d \in Descriptors : owner[d] # p) \/ ~ alive)
===============================================================================
