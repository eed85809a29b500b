------------------------------- MODULE MCService -------------------------------
(* Service with two peers, started from a few environments, for TLC.       *)
EXTENDS ServiceProperties

Environment(threads, requests, level, path) ==
    [HLOG_PORT |-> Number(70000), HLOG_WORKERS |-> threads,
     HLOG_MAX_REQUESTS |-> requests, HLOG_QUEUE_SIZE |-> Number(1),
     HLOG_LEVEL |-> level, HLOG_FLUSH_LEVEL |-> Absent, HLOG_LOG_PATH |-> path,
     HLOG_ROTATE_BYTES |-> Absent, HLOG_ROTATE_FILES |-> Number(-1),
     HLOG_BATCH_BYTES |-> Absent, HLOG_FLUSH_MS |-> Word("soon")]

\* Two workers that log warnings only; two that log all, for one request; and one, from
\* values that are refused, that log all, for two requests and to the console alone.
Environments ==
    { Environment(Number(2), Absent, Word("warning"), Absent),
      Environment(Number(2), Number(1), Absent, Absent),
      Environment(Number(0), Number(2), Word("loud"), Word("")) }

MCConfigs == { LoadConfig(env) : env \in Environments }
===============================================================================
