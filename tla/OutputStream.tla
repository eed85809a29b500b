----------------------------- MODULE OutputStream -----------------------------
(* A std::ostream as the sinks use it: the lines put into it reach the     *)
(* file in order, at any time up to the next flush or close.               *)
EXTENDS Naturals, Sequences, SequencesExt

SizeOf(lines) ==
    LET size[i \in 0 .. Len(lines)] == IF i = 0 THEN 0 ELSE size[i - 1] + lines[i].size
    IN  size[Len(lines)]

\* The ways to pass a beginning of these lines on to the file, and to keep the rest.
PassedOn(lines) ==
    { [reached |-> SubSeq(lines, 1, n), kept |-> SubSeq(lines, n + 1, Len(lines))]
        : n \in 0 .. Len(lines) }

\* What a sink's operation ends in.
Outcome(s, t) == [sink |-> s, thrown |-> t]

\* The stream of a sink takes more lines, and is flushed.
Streamed(s, lines) ==
    { [s EXCEPT !.file = @ \o p.reached, !.stream = p.kept]
        : p \in PassedOn(s.stream \o lines) }

Flushed(s) == [s EXCEPT !.file = @ \o s.stream, !.stream = <<>>]
===============================================================================
