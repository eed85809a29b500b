------------------------------ MODULE SinkPromise ------------------------------
(***************************************************************************)
(* What the logger and its users rely on in a sink, file or composite: it  *)
(* takes lines one by one; each of its outputs holds a beginning of them,  *)
(* which only grows; a Flush that returns leaves every line in every       *)
(* output; and a sink that has thrown is used no more.  It promises        *)
(* nothing for lines that no Flush has covered.                            *)
(***************************************************************************)
EXTENDS Naturals, Sequences, SequencesExt

VARIABLES taken,     \* lines taken since the sink was opened
          reached,   \* for each output, the lines of this session that have reached it
          durable,   \* how many lines the last Flush to return has covered
          state      \* "running", "failed" (it threw) or "gone"

\* The outputs catch up with the lines taken, as far as they like.
Progress == /\ DOMAIN reached' = DOMAIN reached
            /\ \A o \in DOMAIN reached : /\ IsPrefix(reached[o], reached'[o])
                                         /\ IsPrefix(reached'[o], taken)

Init == /\ taken = <<>> /\ durable = 0 /\ state = "running"
        /\ \A o \in DOMAIN reached : reached[o] = <<>>

Take == /\ state = "running"
        /\ Len(taken') = Len(taken) + 1 /\ IsPrefix(taken, taken')
        /\ UNCHANGED <<reached, durable, state>>

Reach == /\ state = "running"
         /\ UNCHANGED <<taken, durable, state>>
         /\ Progress

\* Flush returns.
Harden == /\ state = "running"
          /\ durable' = Len(taken)
          /\ UNCHANGED <<taken, state>>
          /\ Progress /\ \A o \in DOMAIN reached : reached'[o] = taken

\* Any operation may throw half way.
Fail == /\ state = "running" /\ state' = "failed"
        /\ UNCHANGED <<taken, durable>>
        /\ Progress

\* The sink is destroyed, or the process is killed.
End == /\ state # "gone" /\ state' = "gone"
       /\ UNCHANGED <<taken, durable>>
       /\ Progress

\* The next process opens its sinks; what they find there is not of this session.
Reopen == /\ state = "gone" /\ state' = "running"
          /\ taken' = <<>> /\ durable' = 0
          /\ DOMAIN reached' = DOMAIN reached
          /\ \A o \in DOMAIN reached : reached'[o] = <<>>

Next == Take \/ Reach \/ Harden \/ Fail \/ End \/ Reopen

Spec == Init /\ [][Next]_<<taken, reached, durable, state>>
===============================================================================
