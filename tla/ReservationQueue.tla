--------------------------- MODULE ReservationQueue ---------------------------
(***************************************************************************)
(* What LockFreeRingBuffer promises its callers, without cells, sequence   *)
(* numbers or positions: a bounded FIFO of slots.  A producer first        *)
(* reserves the next slot (the moment its compare-and-swap on enqueue_pos_ *)
(* succeeds) and later publishes it; a consumer takes the oldest slot, if  *)
(* and only if that slot is published, and later releases it.  A slot      *)
(* counts against the capacity until it and every older slot is released.  *)
(*                                                                         *)
(* slots holds the window from the oldest unreleased slot to the youngest  *)
(* reserved one.  RingBuffer implements this module, and the queue of      *)
(* AsyncLogger is an instance of it with one consumer.                     *)
(***************************************************************************)
EXTENDS Naturals, Sequences

CONSTANTS Capacity,   \* capacity() of the ring buffer
          Values,     \* what producers enqueue
          NoValue     \* the content of a released slot

VARIABLE slots

SlotStates == {"reserved", "ready", "taken", "released"}

Slot(v, s) == [val |-> v, state |-> s]

HasRoom == Len(slots) < Capacity

\* The next slot a consumer may take is i: all older ones are already taken.
IsHead(i) == /\ i \in 1 .. Len(slots)
             /\ slots[i].state \in {"reserved", "ready"}
             /\ \A j \in 1 .. i - 1 : slots[j].state \in {"taken", "released"}

HeadReady == \E i \in 1 .. Len(slots) : IsHead(i) /\ slots[i].state = "ready"

-------------------------------------------------------------------------------

QInit == slots = <<>>

\* TryEnqueue claims a position for v.
QReserve(v) == /\ HasRoom
               /\ slots' = Append(slots, Slot(v, "reserved"))

\* TryEnqueue makes the claimed slot visible.
QPublish(i) == /\ slots[i].state = "reserved"
               /\ slots' = [slots EXCEPT ![i].state = "ready"]

\* TryDequeue claims the oldest slot no consumer has claimed.
QTake(i) == /\ IsHead(i)
            /\ slots[i].state = "ready"
            /\ slots' = [slots EXCEPT ![i].state = "taken"]

\* The slots left when the released ones at the front have given their room back.
Trimmed(q) ==
    LET live == { i \in 1 .. Len(q) : q[i].state # "released" }
    IN  IF live = {} THEN <<>>
        ELSE SubSeq(q, CHOOSE i \in live : \A j \in live : i <= j, Len(q))

\* TryDequeue hands the slot back to the producers.
QRelease(i) == /\ slots[i].state = "taken"
               /\ slots' = Trimmed([slots EXCEPT ![i] = Slot(NoValue, "released")])

QNext == \/ \E v \in Values : QReserve(v)
         \/ \E i \in 1 .. Len(slots) : QPublish(i) \/ QTake(i) \/ QRelease(i)

QSpec == QInit /\ [][QNext]_slots
===============================================================================
