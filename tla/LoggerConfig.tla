------------------------------ MODULE LoggerConfig ------------------------------
(***************************************************************************)
(* How a logger is configured: levels by name (include/hlog/log_level.h),  *)
(* sinks from their descriptions (src/config/logger_config.cpp) and the    *)
(* service's environment variables (LoadConfig in examples/                *)
(* service_example.cpp).  A text is absent, a number, or a word in lower   *)
(* case: only whole numbers are parsed, and case is ignored in words.      *)
(***************************************************************************)
EXTENDS Integers, Sequences

LevelNames == [trace |-> 0, debug |-> 1, info |-> 2, warn |-> 3, warning |-> 3,
               error |-> 4, critical |-> 5, off |-> 6]

Absent    == [kind |-> "absent"]
Number(n) == [kind |-> "number", number |-> n]
Word(w)   == [kind |-> "word", word |-> w]

ParseLogLevel(text, fallback) ==
    IF text.kind = "word" /\ text.word \in DOMAIN LevelNames
    THEN LevelNames[text.word] ELSE fallback

ShouldLog(messageLevel, configuredLevel) ==
    /\ configuredLevel # LevelNames.off /\ messageLevel # LevelNames.off
    /\ messageLevel >= configuredLevel

\* std::from_chars refuses what does not fit the type.
ParseInteger(text, type, fallback) ==
    IF text.kind = "number" /\ text.number \in type THEN text.number ELSE fallback

Uint16 == 0 .. 65535
Int32  == { n \in Int : -2147483647 - 1 <= n /\ n <= 2147483647 }

AtLeast(least, n) == IF n < least THEN least ELSE n   \* std::max

\* One sink for one description, a MultiSink for several, and none for none: it throws.
CreateSink(configs) ==
    CASE Len(configs) = 0 -> [type |-> "invalid_argument"]
      [] Len(configs) = 1 -> configs[1]
      [] OTHER            -> [type |-> "MultiSink", children |-> configs]

ConsoleSinkConfig == [type |-> "ConsoleSink"]

RotatingFileSinkConfig(env) ==
    [type           |-> "RotatingFileSink",
     max_file_size  |-> AtLeast(1024, ParseInteger(env.HLOG_ROTATE_BYTES, Int32, 10485760)),
     max_files      |-> AtLeast(1, ParseInteger(env.HLOG_ROTATE_FILES, Int32, 5)),
     max_batch_size |-> AtLeast(1, ParseInteger(env.HLOG_BATCH_BYTES, Int32, 65536)),
     flush_interval |-> AtLeast(0, ParseInteger(env.HLOG_FLUSH_MS, Int32, 250))]

\* Seeded fault: the number of workers is taken as it is given.
LoadConfigUnclamped(env) ==
    [worker_count |-> ParseInteger(env.HLOG_WORKERS, Int32, 4),
     max_requests |-> AtLeast(0, ParseInteger(env.HLOG_MAX_REQUESTS, Int32, 0)),
     level        |-> ParseLogLevel(env.HLOG_LEVEL, LevelNames.info)]

\* An empty HLOG_LOG_PATH leaves only the console.
LoadConfig(env) ==
    [port         |-> ParseInteger(env.HLOG_PORT, Uint16, 8080),
     worker_count |-> AtLeast(1, ParseInteger(env.HLOG_WORKERS, Int32, 4)),
     max_requests |-> AtLeast(0, ParseInteger(env.HLOG_MAX_REQUESTS, Int32, 0)),
     queue_size   |-> AtLeast(256, ParseInteger(env.HLOG_QUEUE_SIZE, Int32, 8192)),
     level        |-> ParseLogLevel(env.HLOG_LEVEL, LevelNames.info),
     flush_level  |-> ParseLogLevel(env.HLOG_FLUSH_LEVEL, LevelNames.error),
     sink         |-> CreateSink(<<ConsoleSinkConfig>> \o
                          IF env.HLOG_LOG_PATH = Word("") THEN <<>>
                          ELSE <<RotatingFileSinkConfig(env)>>)]
===============================================================================
