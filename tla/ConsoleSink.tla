------------------------------ MODULE ConsoleSink ------------------------------
(***************************************************************************)
(* hlog::ConsoleSink (src/sinks/console_sink.cpp) on the sink values of    *)
(* FileSink: nothing is staged and, as Sink has it, nothing is ever due;   *)
(* the file is what the terminal has got.                                  *)
(***************************************************************************)
EXTENDS OutputStream

ConsoleOptions == [autoFlush : BOOLEAN]

\* The state of the stream is not looked at, so nothing is thrown.
ConsoleWrite(s, o, line) ==
    { Outcome(IF o.autoFlush THEN Flushed(w) ELSE w, FALSE) : w \in Streamed(s, <<line>>) }

ConsoleFlush(s) == {Outcome(Flushed(s), FALSE)}
===============================================================================
