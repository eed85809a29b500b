--------------------------- MODULE RotatingFileSink ---------------------------
(***************************************************************************)
(* hlog::RotatingFileSink (src/sinks/rotating_file_sink.cpp): a log file   *)
(* that is renamed to an archive when the next line would not fit.  The    *)
(* steps of a rotation and of the reset at startup are actions of their    *)
(* own: the process may be killed between any two, and each may fail.  It  *)
(* may then be started again, with other options.                          *)
(*                                                                         *)
(* The clock is left out: whether the flush interval has passed is a free  *)
(* choice.  MultiSink models the deadlines, which this sink shares with    *)
(* FileSink.                                                               *)
(***************************************************************************)
EXTENDS OutputStream

CONSTANTS MaxFileSizes, FileCounts, Truncations,  \* what the options are chosen from
          MaxBatchSize,
          Sizes,         \* sizes of lines; every one ends with a newline
          MaxLines,      \* bound: lines written by all processes together
          MaxRestarts,   \* bound: restarts of the process
          Absent         \* a file that does not exist

ASSUME RotatingAssumption ==
    /\ MaxFileSizes \subseteq Nat /\ FileCounts \subseteq Nat /\ Sizes \subseteq Nat \ {0}
    /\ {MaxBatchSize, MaxLines, MaxRestarts} \subseteq Nat
    /\ Truncations \subseteq BOOLEAN
    /\ \A S \in {MaxFileSizes, FileCounts} : \E n \in S : \A m \in S : m <= n

Line == [number : Nat, size : Sizes, era : Nat]

ASSUME AbsentAssumption == Absent \notin Line \cup Seq(Line)

Options == [maxFileSize : MaxFileSizes, maxFiles : FileCounts, truncateOnOpen : Truncations]

VARIABLES
    options,
    files,          \* files[0] is path_, files[i] is archive i
    stream,         \* lines in the buffer of output_
    staging,        \* staging_buffer_
    currentSize,    \* current_size_
    pc,             \* the step the sink is at; "failed" after a throw, "down" without process
    index,          \* of the loops over the archives
    line,           \* the line Write has formatted
    restarts,
    given,          \* history: lines passed to Write, by all processes
    staged,         \* history: lines this process has staged
    flushed,        \* history: how many of them had been when Flush last returned
    disk,           \* history: lines that reached path_
    earlier,        \* history: how many of them had when this process began
    removed,        \* history: those that a truncating start has removed since
    rotations,      \* history: rotations begun
    fewest          \* history: the least max_files so far

control == <<pc, index, line>>
history == <<restarts, given, staged, flushed, disk, earlier, removed, rotations, fewest>>
vars == <<options, files, stream, staging, currentSize, control, history>>

MaxCount == CHOOSE n \in FileCounts : \A m \in FileCounts : m <= n
Archives == 0 .. MaxCount

NormalizeSize(value) == IF value = 0 THEN 1 ELSE value

Contents(i) == IF files[i] = Absent THEN <<>> ELSE files[i]

\* Lines go from the stream to path_.
Reach(lines) == /\ files' = [files EXCEPT ![0] = @ \o lines]
                /\ disk' = disk \o lines

\* The first process finds no files.
Init == /\ options \in Options
        /\ files = [i \in Archives |-> Absent]
        /\ stream = <<>> /\ staging = <<>> /\ currentSize = 0
        /\ pc = "start" /\ index = 0 /\ line = Absent
        /\ restarts = 0 /\ given = 0 /\ staged = <<>> /\ flushed = 0
        /\ disk = <<>> /\ earlier = 0 /\ removed = {} /\ rotations = 0 /\ fewest = options.maxFiles

Goto(to) == pc' = to /\ UNCHANGED <<index, line>>

\* Any operation on the file system may fail; the sink throws and is used no more.
FileSystemFails ==
    /\ pc \in {"start", "reset", "openApp", "remove", "rename", "openTrunc"}
    /\ Goto("failed")
    /\ UNCHANGED <<options, files, stream, staging, currentSize, history>>

-------------------------------------------------------------------------------
(* ResetOnStartup                                                          *)

Start == /\ pc = "start"
         /\ index' = 0 /\ line' = Absent
         /\ IF options.truncateOnOpen THEN pc' = "reset" /\ UNCHANGED currentSize
            ELSE pc' = "openApp" /\ currentSize' = SizeOf(Contents(0))
         /\ UNCHANGED <<options, files, stream, staging, history>>

\* The log file goes first, then the archives upwards.
ResetRemove ==
    /\ pc = "reset"
    /\ files' = [files EXCEPT ![index] = Absent]
    /\ removed' = removed \cup ToSet(Contents(index))
    /\ IF index < options.maxFiles
       THEN index' = index + 1 /\ UNCHANGED <<pc, line, currentSize>>
       ELSE Goto("openTrunc") /\ currentSize' = 0
    /\ UNCHANGED <<options, stream, staging,
                   restarts, given, staged, flushed, disk, earlier, rotations, fewest>>

\* Seeded fault: opened without std::ios::app, the file is emptied.
OpenAppendEmpties ==
    /\ pc = "openApp"
    /\ files' = [files EXCEPT ![0] = <<>>]
    /\ Goto("idle")
    /\ UNCHANGED <<options, stream, staging, currentSize, history>>

OpenAppend == /\ pc = "openApp"
              /\ files' = [files EXCEPT ![0] = Contents(0)]
              /\ Goto("idle")
              /\ UNCHANGED <<options, stream, staging, currentSize, history>>

\* Open(trunc) ends a reset and a rotation; the latter goes on to stage its line.
OpenTruncate ==
    /\ pc = "openTrunc"
    /\ files' = [files EXCEPT ![0] = <<>>]
    /\ Goto(IF line = Absent THEN "idle" ELSE "stage")
    /\ UNCHANGED <<options, stream, staging, currentSize, history>>

-------------------------------------------------------------------------------
(* Writing                                                                 *)

\* DrainStagingBuffer: to is the next step.  A write that throws leaves current_size_
\* and the staging buffer as they are; a flush that throws, all of them behind it.
DrainStagingBuffer(flushStream, to) ==
    \E p \in PassedOn(stream \o staging), throws \in {"nowhere", "write", "flush"} :
       /\ throws = "write" => staging # <<>>
       /\ throws = "flush" => flushStream
       /\ flushStream /\ throws = "nowhere" => p.kept = <<>>
       /\ Reach(p.reached)
       /\ stream' = p.kept
       /\ IF throws = "write" THEN UNCHANGED <<staging, currentSize>>
          ELSE staging' = <<>> /\ currentSize' = currentSize + SizeOf(staging)
       /\ pc' = IF throws = "nowhere" THEN to ELSE "failed"

\* Seeded fault: the staged lines are not counted.
MustRotateForgetsStaging(size) ==
    /\ currentSize + size > NormalizeSize(options.maxFileSize)
    /\ currentSize > 0

MustRotate(size) ==
    /\ currentSize + SizeOf(staging) + size > NormalizeSize(options.maxFileSize)
    /\ currentSize + SizeOf(staging) > 0

BeginWrite ==
    /\ pc = "idle" /\ given < MaxLines
    /\ \E size \in Sizes :
          /\ line' = [number |-> given + 1, size |-> size, era |-> 0]
          /\ pc' = IF MustRotate(size) THEN "drain" ELSE "stage"
    /\ given' = given + 1
    /\ UNCHANGED <<options, files, stream, staging, currentSize, index,
                   restarts, staged, flushed, disk, earlier, removed, rotations, fewest>>

DrainToRotate == /\ pc = "drain"
                 /\ DrainStagingBuffer(TRUE, "close")
                 /\ UNCHANGED <<options, index, line,
                                restarts, given, staged, flushed, earlier, removed,
                                rotations, fewest>>

\* Seeded fault: only the log file moves.
FirstArchiveIsOne == 1

\* The archives move up from the oldest; without any the log file is truncated.
FirstArchive == options.maxFiles

\* close() passes on what the stream keeps, or loses it: its result is not looked at.
RotateClose ==
    /\ pc = "close"
    /\ \E p \in PassedOn(stream) : Reach(p.reached)
    /\ stream' = <<>>
    /\ index' = FirstArchive
    /\ IF options.maxFiles = 0 THEN pc' = "openTrunc" /\ currentSize' = 0
       ELSE pc' = "remove" /\ UNCHANGED currentSize
    /\ rotations' = rotations + 1
    /\ UNCHANGED <<options, staging, line,
                   restarts, given, staged, flushed, earlier, removed, fewest>>

\* Seeded fault: the loop ends one archive early, and path_ is truncated where it is.
NextArchiveStopsEarly ==
    IF index <= 2 THEN pc' = "openTrunc" /\ currentSize' = 0 /\ UNCHANGED <<index, line>>
    ELSE pc' = "remove" /\ index' = index - 1 /\ UNCHANGED <<line, currentSize>>

\* The loop over the archives, and after it the reset of current_size_.
NextArchive == IF index = 1
               THEN pc' = "openTrunc" /\ currentSize' = 0 /\ UNCHANGED <<index, line>>
               ELSE pc' = "remove" /\ index' = index - 1 /\ UNCHANGED <<line, currentSize>>

\* RenameIfExists(index - 1, index), in two steps.
RemoveDestination ==
    /\ pc = "remove"
    /\ IF files[index - 1] = Absent THEN NextArchive /\ UNCHANGED files
       ELSE /\ files' = [files EXCEPT ![index] = Absent]
            /\ Goto("rename") /\ UNCHANGED currentSize
    /\ UNCHANGED <<options, stream, staging, history>>

Rename == /\ pc = "rename"
          /\ files' = [files EXCEPT ![index] = files[index - 1], ![index - 1] = Absent]
          /\ NextArchive
          /\ UNCHANGED <<options, stream, staging, history>>

\* The line is staged; a full batch, or the interval, drains the buffer.
Stage == /\ pc = "stage"
         /\ LET l == [line EXCEPT !.era = rotations] IN
            staging' = Append(staging, l) /\ staged' = Append(staged, l)
         /\ \E flushForInterval \in BOOLEAN :
               pc' = IF flushForInterval THEN "drainFlush"
                     ELSE IF SizeOf(staging') >= NormalizeSize(MaxBatchSize) THEN "drainOnly"
                     ELSE "idle"
         /\ line' = Absent
         /\ UNCHANGED <<options, files, stream, currentSize, index,
                        restarts, given, flushed, disk, earlier, removed, rotations, fewest>>

DrainBatch == /\ pc \in {"drainFlush", "drainOnly"}
              /\ DrainStagingBuffer(pc = "drainFlush", "idle")
              /\ UNCHANGED <<options, index, line,
                             restarts, given, staged, flushed, earlier, removed,
                             rotations, fewest>>

\* Seeded fault: Flush leaves the stream to itself.
FlushesStreamNot == FALSE

FlushesStream == TRUE

\* Flush, and a FlushIfDue that is due.
Flush == /\ pc = "idle"
         /\ DrainStagingBuffer(FlushesStream, "idle")
         /\ flushed' = IF pc' = "idle" THEN Len(staged) ELSE flushed
         /\ UNCHANGED <<options, index, line,
                        restarts, given, staged, earlier, removed, rotations, fewest>>

-------------------------------------------------------------------------------
(* The process                                                             *)

Down == /\ pc' = "down" /\ line' = Absent /\ index' = 0
        /\ stream' = <<>> /\ staging' = <<>>

Crash == /\ pc # "down"
         /\ Down
         /\ UNCHANGED <<options, files, currentSize, history>>

\* ~RotatingFileSink: the stream is closed with what it keeps, the staging buffer is lost.
Destroy == /\ pc \in {"idle", "failed"} /\ files[0] # Absent
           /\ \E p \in PassedOn(stream) : /\ pc = "idle" => p.kept = <<>>
                                          /\ Reach(p.reached)
           /\ Down
           /\ UNCHANGED <<options, currentSize,
                          restarts, given, staged, flushed, earlier, removed,
                          rotations, fewest>>

Restart == /\ pc = "down" /\ restarts < MaxRestarts
           /\ restarts' = restarts + 1
           /\ options' \in Options
           /\ fewest' = IF options'.maxFiles < fewest THEN options'.maxFiles ELSE fewest
           /\ Goto("start")
           /\ staged' = <<>> /\ flushed' = 0 /\ earlier' = Len(disk)
           /\ UNCHANGED <<files, stream, staging, currentSize, given, disk, removed, rotations>>

Next == \/ FileSystemFails \/ Start \/ ResetRemove \/ OpenAppend \/ OpenTruncate
        \/ BeginWrite \/ DrainToRotate \/ RotateClose \/ RemoveDestination \/ Rename
        \/ Stage \/ DrainBatch \/ Flush
        \/ Crash \/ Destroy \/ Restart

Spec == Init /\ [][Next]_vars

-------------------------------------------------------------------------------
(* Properties                                                              *)

\* The lines in files 0 to n.
Held(n) == UNION { ToSet(Contents(i)) : i \in 0 .. n }

\* The numbers along a sequence of lines.
Rising(lines) == \A i, j \in 1 .. Len(lines) : i < j => lines[i].number < lines[j].number

\* At every moment, in the middle of a rotation, after a crash there, a failing rename or
\* a restart with another max_files, the files hold the newest of the lines that reached
\* the disk, without a gap; archives of an older, larger max_files come before them.
\* Each line is in one file, once, and in order: the oldest in the last archive.
RetainedIsNewest ==
    /\ Held(MaxCount) \subseteq ToSet(disk) \ removed
    /\ \A m \in Held(fewest), l \in ToSet(disk) \ removed :
           m.number <= l.number => l \in Held(fewest)
    /\ Rising(disk)
    /\ \A i \in Archives : /\ Rising(Contents(i))
                           /\ \A j \in i + 1 .. MaxCount :
                                 \A l \in ToSet(Contents(i)), m \in ToSet(Contents(j)) :
                                    m.number < l.number

\* A line stays on the disk until max_files more rotations than the one that archived its
\* file have begun: neither a crash nor a failure costs an archive.
ArchivesAreKept ==
    \A l \in ToSet(disk) \ removed : l.era + fewest >= rotations => l \in Held(MaxCount)

LargestSize == CHOOSE m \in MaxFileSizes : \A n \in MaxFileSizes : n <= m

\* A file is larger than max_file_size only if it holds one line that is; restarts that
\* append to it included.
FilesRespectMaxSize ==
    \A i \in Archives :
        SizeOf(Contents(i)) > NormalizeSize(LargestSize) => Len(files[i]) = 1

\* While the sink works, the lines of this process have reached path_, or are in the stream
\* or in the staging buffer, each once and in order, rotations notwithstanding.  Those that a
\* returned Flush covers are in the log file or an archive, through failures and crashes,
\* until max_files more rotations than the one that archives their file have begun: with
\* no archives, until the next one truncates the log file.
NoLineIsLostInRotation ==
    LET reached == SubSeq(disk, earlier + 1, Len(disk)) IN
    /\ pc \notin {"failed", "down"} => reached \o stream \o staging = staged
    /\ IsPrefix(reached, staged)
    /\ \A k \in 1 .. flushed :
          staged[k].era + fewest >= rotations => staged[k] \in Held(MaxCount)

Promise == INSTANCE SinkPromise
               WITH taken <- staged, durable <- flushed,
                    reached <- << SubSeq(disk, earlier + 1, Len(disk)) >>,
                    state <- CASE pc = "failed" -> "failed"
                               [] pc = "down"   -> "gone"
                               [] OTHER         -> "running"

\* Rotation cannot be seen from outside: lines reach the disk in order, once, by rotating
\* and after a failed rotation as well, and a Flush that returns has left none behind.
KeepsSinkPromise == Promise!Spec
===============================================================================
