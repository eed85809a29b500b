----------------------------- MODULE LoggerPromise -----------------------------
(***************************************************************************)
(* What a program that uses an AsyncLogger may rely on, whatever happens   *)
(* inside: lines are written in the order in which they found their place, *)
(* none is lost, repeated or invented while the worker lives, and a Flush  *)
(* that succeeds has made durable every line that had its place before.    *)
(* It does not promise that Stop writes what is still pending.             *)
(***************************************************************************)
EXTENDS Naturals, Sequences

CONSTANTS Callers, Lines

VARIABLES pending,   \* lines accepted and not yet written, oldest first
          out,       \* lines given to the sink
          durable,   \* how many of them are durable
          failed,    \* the worker has failed
          goal,      \* for each caller inside Flush, the lines its flush must cover
          flushed    \* callers whose Flush has succeeded

Elements(seq) == { seq[i] : i \in 1 .. Len(seq) }

Init ==
    /\ pending = <<>> /\ out = <<>> /\ durable = 0
    /\ failed = FALSE
    /\ goal = [t \in Callers |-> {}]
    /\ flushed = [t \in Callers |-> FALSE]

\* A log that is not accepted (gate closed, level, failure, full queue) changes nothing.
Accept(line) ==
    /\ pending' = Append(pending, line)
    /\ UNCHANGED <<out, durable, failed, goal, flushed>>

Write ==
    /\ ~ failed /\ pending # <<>>
    /\ out' = Append(out, Head(pending))
    /\ pending' = Tail(pending)
    /\ UNCHANGED <<durable, failed, goal, flushed>>

\* The sink is flushed: for a caller, for a line's level, or when its interval is over.
Harden ==
    /\ ~ failed
    /\ durable' = Len(out)
    /\ UNCHANGED <<pending, out, failed, goal, flushed>>

Fail ==
    /\ failed' = TRUE
    /\ UNCHANGED <<pending, out, durable, goal, flushed>>

BeginFlush(t) ==
    /\ goal' = [goal EXCEPT ![t] = Elements(out) \cup Elements(pending)]
    /\ UNCHANGED <<pending, out, durable, failed, flushed>>

\* Flush returns true; one that returns false promises nothing.
Succeed(t) ==
    /\ ~ failed
    /\ goal[t] \subseteq { out[i] : i \in 1 .. durable }
    /\ flushed' = [flushed EXCEPT ![t] = TRUE]
    /\ UNCHANGED <<pending, out, durable, failed, goal>>

EndCall(t) ==
    /\ goal' = [goal EXCEPT ![t] = {}]
    /\ flushed' = [flushed EXCEPT ![t] = FALSE]
    /\ UNCHANGED <<pending, out, durable, failed>>

Next == \/ \E line \in Lines : Accept(line)
        \/ Write \/ Harden \/ Fail
        \/ \E t \in Callers : BeginFlush(t) \/ Succeed(t) \/ EndCall(t)

Spec == Init /\ [][Next]_<<pending, out, durable, failed, goal, flushed>>
===============================================================================
