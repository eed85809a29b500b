------------------------------ MODULE MCMultiSink ------------------------------
(* MultiSink over one or two sinks, for TLC.                               *)
EXTENDS MultiSink

Option(batch, interval, truncate, mayFail) ==
    [maxBatchSize |-> batch, flushInterval |-> interval, truncate |-> truncate,
     mayFail |-> mayFail]

Console(flush) == [autoFlush |-> flush]

\* Two files with different batches and intervals, one of them failing; a console before a
\* failing file that is truncated when it is opened, with batches of one line; and a console
\* that flushes every line before a failing file without interval.
TwoSinks == { <<Option(3, 1, FALSE, FALSE), Option(4, 2, FALSE, TRUE)>>,
              <<Console(FALSE), Option(0, 2, TRUE, TRUE)>>,
              <<Console(TRUE), Option(2, 0, FALSE, TRUE)>> }

OneFile == { <<Option(2, 1, FALSE, FALSE)>> }
===============================================================================
