------------------------------ MODULE RingBuffer ------------------------------
(***************************************************************************)
(* LockFreeRingBuffer (include/hlog/detail/lock_free_ring_buffer.h), one   *)
(* action per access to shared memory: the two positions, the sequence     *)
(* number of a cell and the value of a cell.  Accesses interleave in a     *)
(* sequentially consistent order.  std::size_t positions do not wrap here. *)
(***************************************************************************)
EXTENDS Naturals, Sequences, RingCapacity

CONSTANTS Producers, Consumers,  \* threads calling TryEnqueue, TryDequeue
          Capacity,              \* capacity_, mask_ + 1
          MaxEnqueues,           \* bound: TryEnqueue calls one producer makes
          MaxDequeues,           \* bound: TryDequeue calls one consumer makes
          NoValue                \* a moved-from or never written value

ASSUME RingAssumption == /\ Capacity \in Nat /\ Capacity >= 2
                         /\ MaxEnqueues \in Nat /\ MaxDequeues \in Nat
                         /\ Producers \cap Consumers = {}

Threads == Producers \cup Consumers
Values  == Producers \X (1 .. MaxEnqueues)   \* the n-th value thread t enqueues

ASSUME NoValueAssumption == NoValue \notin Values

VARIABLES enqueuePos, dequeuePos,  \* enqueue_pos_, dequeue_pos_
          sequence, value,         \* the atomics and the payloads of the cells
          pc, position, item,      \* locals of each thread: item is the argument
          calls                    \* calls each thread has started

vars == <<enqueuePos, dequeuePos, sequence, value, pc, position, item, calls>>
cells == <<sequence, value>>

Cell(p) == p % Capacity             \* position & mask_

Init == /\ enqueuePos = 0 /\ dequeuePos = 0
        /\ sequence = [c \in 0 .. Capacity - 1 |-> c]
        /\ value = [c \in 0 .. Capacity - 1 |-> NoValue]
        /\ pc = [t \in Threads |-> "idle"]
        /\ position = [t \in Threads |-> 0]
        /\ item = [t \in Threads |-> NoValue]
        /\ calls = [t \in Threads |-> 0]

Goto(t, from, to) == pc[t] = from /\ pc' = [pc EXCEPT ![t] = to]

-------------------------------------------------------------------------------
(* TryEnqueue                                                              *)

EnqCall(t) == /\ calls[t] < MaxEnqueues
              /\ Goto(t, "idle", "enqSequence")
              /\ calls' = [calls EXCEPT ![t] = @ + 1]
              /\ item' = [item EXCEPT ![t] = <<t, calls[t] + 1>>]
              /\ position' = [position EXCEPT ![t] = enqueuePos]
              /\ UNCHANGED <<enqueuePos, dequeuePos, cells>>

\* The three outcomes of comparing the cell's sequence with the position.
EnqFree(t) == /\ sequence[Cell(position[t])] = position[t]
              /\ Goto(t, "enqSequence", "enqClaim")
              /\ UNCHANGED <<enqueuePos, dequeuePos, cells, position, item, calls>>

\* Seeded fault: any sequence other than the expected one is read as a full queue.
EnqRefusedIfNotFree(t) ==
    /\ sequence[Cell(position[t])] # position[t]
    /\ Goto(t, "enqSequence", "idle")
    /\ UNCHANGED <<enqueuePos, dequeuePos, cells, position, item, calls>>

EnqRefused(t) == /\ sequence[Cell(position[t])] < position[t]
                 /\ Goto(t, "enqSequence", "idle")
                 /\ UNCHANGED <<enqueuePos, dequeuePos, cells, position, item, calls>>

EnqBehind(t) == /\ sequence[Cell(position[t])] > position[t]
                /\ Goto(t, "enqSequence", "enqReload")
                /\ UNCHANGED <<enqueuePos, dequeuePos, cells, position, item, calls>>

EnqReload(t) == /\ Goto(t, "enqReload", "enqSequence")
                /\ position' = [position EXCEPT ![t] = enqueuePos]
                /\ UNCHANGED <<enqueuePos, dequeuePos, cells, item, calls>>

\* Seeded fault: the position is stored without compare-and-swap.
EnqClaimStores(t) == /\ Goto(t, "enqClaim", "enqMove")
                     /\ enqueuePos' = position[t] + 1
                     /\ UNCHANGED <<dequeuePos, cells, position, item, calls>>

EnqClaim(t) == /\ enqueuePos = position[t]
               /\ Goto(t, "enqClaim", "enqMove")
               /\ enqueuePos' = enqueuePos + 1
               /\ UNCHANGED <<dequeuePos, cells, position, item, calls>>

\* compare_exchange_weak fails, for a changed position or spuriously, and reloads.
EnqClaimFails(t) == /\ Goto(t, "enqClaim", "enqSequence")
                    /\ position' = [position EXCEPT ![t] = enqueuePos]
                    /\ UNCHANGED <<enqueuePos, dequeuePos, cells, item, calls>>

EnqMove(t) == /\ Goto(t, "enqMove", "enqPublish")
              /\ value' = [value EXCEPT ![Cell(position[t])] = item[t]]
              /\ UNCHANGED <<enqueuePos, dequeuePos, sequence, position, item, calls>>

EnqPublish(t) == /\ Goto(t, "enqPublish", "idle")
                 /\ sequence' = [sequence EXCEPT ![Cell(position[t])] = position[t] + 1]
                 /\ UNCHANGED <<enqueuePos, dequeuePos, value, position, item, calls>>

-------------------------------------------------------------------------------
(* TryDequeue                                                              *)

DeqCall(t) == /\ calls[t] < MaxDequeues
              /\ Goto(t, "idle", "deqSequence")
              /\ calls' = [calls EXCEPT ![t] = @ + 1]
              /\ position' = [position EXCEPT ![t] = dequeuePos]
              /\ UNCHANGED <<enqueuePos, dequeuePos, cells, item>>

DeqReady(t) == /\ sequence[Cell(position[t])] = position[t] + 1
               /\ Goto(t, "deqSequence", "deqClaim")
               /\ UNCHANGED <<enqueuePos, dequeuePos, cells, position, item, calls>>

DeqRefused(t) == /\ sequence[Cell(position[t])] < position[t] + 1
                 /\ Goto(t, "deqSequence", "idle")
                 /\ UNCHANGED <<enqueuePos, dequeuePos, cells, position, item, calls>>

DeqBehind(t) == /\ sequence[Cell(position[t])] > position[t] + 1
                /\ Goto(t, "deqSequence", "deqReload")
                /\ UNCHANGED <<enqueuePos, dequeuePos, cells, position, item, calls>>

DeqReload(t) == /\ Goto(t, "deqReload", "deqSequence")
                /\ position' = [position EXCEPT ![t] = dequeuePos]
                /\ UNCHANGED <<enqueuePos, dequeuePos, cells, item, calls>>

\* Seeded fault: the position is stored without compare-and-swap.
DeqClaimStores(t) == /\ Goto(t, "deqClaim", "deqMove")
                     /\ dequeuePos' = position[t] + 1
                     /\ UNCHANGED <<enqueuePos, cells, position, item, calls>>

DeqClaim(t) == /\ dequeuePos = position[t]
               /\ Goto(t, "deqClaim", "deqMove")
               /\ dequeuePos' = dequeuePos + 1
               /\ UNCHANGED <<enqueuePos, cells, position, item, calls>>

DeqClaimFails(t) == /\ Goto(t, "deqClaim", "deqSequence")
                    /\ position' = [position EXCEPT ![t] = dequeuePos]
                    /\ UNCHANGED <<enqueuePos, dequeuePos, cells, item, calls>>

DeqMove(t) == /\ Goto(t, "deqMove", "deqRelease")
              /\ item' = [item EXCEPT ![t] = value[Cell(position[t])]]
              /\ value' = [value EXCEPT ![Cell(position[t])] = NoValue]
              /\ UNCHANGED <<enqueuePos, dequeuePos, sequence, position, calls>>

\* Seeded fault: the lap is subtracted, and the unsigned sequence wraps below zero.
DeqReleaseSubtractsLap(t) ==
    /\ Goto(t, "deqRelease", "idle")
    /\ sequence' = [sequence EXCEPT ![Cell(position[t])] = position[t] - Capacity]
    /\ UNCHANGED <<enqueuePos, dequeuePos, value, position, item, calls>>

DeqRelease(t) ==
    /\ Goto(t, "deqRelease", "idle")
    /\ sequence' = [sequence EXCEPT ![Cell(position[t])] = position[t] + Capacity]
    /\ UNCHANGED <<enqueuePos, dequeuePos, value, position, item, calls>>

TryEnqueue(t) == \/ EnqCall(t) \/ EnqFree(t) \/ EnqRefused(t) \/ EnqBehind(t)
                 \/ EnqReload(t) \/ EnqClaim(t) \/ EnqClaimFails(t)
                 \/ EnqMove(t) \/ EnqPublish(t)

TryDequeue(t) == \/ DeqCall(t) \/ DeqReady(t) \/ DeqRefused(t) \/ DeqBehind(t)
                 \/ DeqReload(t) \/ DeqClaim(t) \/ DeqClaimFails(t)
                 \/ DeqMove(t) \/ DeqRelease(t)

Next == \/ \E t \in Producers : TryEnqueue(t)
        \/ \E t \in Consumers : TryDequeue(t)

Spec == Init /\ [][Next]_vars

-------------------------------------------------------------------------------
(* Properties                                                              *)

EnqPcs == {"enqSequence", "enqReload", "enqClaim", "enqMove", "enqPublish"}
DeqPcs == {"deqSequence", "deqReload", "deqClaim", "deqMove", "deqRelease"}

\* Every variable stays in its domain; producers only enqueue and consumers only
\* dequeue.
TypeOK ==
    /\ enqueuePos \in Nat /\ dequeuePos \in Nat
    /\ sequence \in [0 .. Capacity - 1 -> Nat]
    /\ value \in [0 .. Capacity - 1 -> Values \cup {NoValue}]
    /\ pc \in [Threads -> {"idle"} \cup EnqPcs \cup DeqPcs]
    /\ \A t \in Producers : pc[t] \notin DeqPcs
    /\ \A t \in Consumers : pc[t] \notin EnqPcs
    /\ position \in [Threads -> Nat]
    /\ item \in [Threads -> Values \cup {NoValue}]
    /\ calls \in [Threads -> Nat]
    /\ \A t \in Producers : calls[t] <= MaxEnqueues
    /\ \A t \in Consumers : calls[t] <= MaxDequeues

\* No two threads are ever about to access the non-atomic value of the same cell
\* (the move assignments of lock_free_ring_buffer.h:39 and :64 need no lock).
NoDataRace ==
    \A t, u \in Threads :
        /\ t # u
        /\ pc[t] \in {"enqMove", "deqMove"}
        /\ pc[u] \in {"enqMove", "deqMove"}
        => Cell(position[t]) # Cell(position[u])

\* The slots of ReservationQueue as the cells and the threads represent them: a
\* position a thread has claimed and not handed over belongs to that thread.
ClaimedBy(p, pcs) == { t \in Threads : pc[t] \in pcs /\ position[t] = p }

Released(p) == p < dequeuePos /\ ClaimedBy(p, {"deqMove", "deqRelease"}) = {}

SlotAt(p) ==
    LET producing == ClaimedBy(p, {"enqMove", "enqPublish"})
        moving    == ClaimedBy(p, {"deqMove"})
        releasing == ClaimedBy(p, {"deqRelease"})
        HeldBy(ts) == item[CHOOSE t \in ts : TRUE]
    IN  CASE producing # {} -> [val |-> HeldBy(producing), state |-> "reserved"]
          [] moving # {}    -> [val |-> value[Cell(p)], state |-> "taken"]
          [] releasing # {} -> [val |-> HeldBy(releasing), state |-> "taken"]
          [] Released(p)    -> [val |-> NoValue, state |-> "released"]
          [] OTHER          -> [val |-> value[Cell(p)], state |-> "ready"]

OldestUnreleased ==
    CHOOSE p \in 0 .. enqueuePos :
        /\ p = enqueuePos \/ ~ Released(p)
        /\ \A q \in 0 .. p - 1 : Released(q)

slotWindow == [i \in 1 .. enqueuePos - OldestUnreleased |->
                    SlotAt(OldestUnreleased + i - 1)]

RQ == INSTANCE ReservationQueue WITH slots <- slotWindow

\* The ring buffer is a bounded FIFO of reserved slots: every step reserves,
\* publishes, takes or releases one slot as ReservationQueue allows, or leaves the
\* slots alone.  So no value is lost, duplicated, overtaken or taken half written.
ImplementsReservationQueue == RQ!QSpec

\* TryEnqueue returns false only at an instant at which the queue has no room, and
\* TryDequeue only at one at which the oldest slot is not published: a caller that
\* drops a log, or stops draining, on a refusal is never misled by a stale position.
RefusalsAreTrue ==
    [][ \A t \in Threads :
          /\ EnqRefused(t) => ~ RQ!HasRoom
          /\ DeqRefused(t) => ~ RQ!HeadReady ]_vars

\* The mask of a ring is right only for a power of two.  Every size up to the largest
\* power gets the least one that holds it, at least 2; a larger size wraps around to 0,
\* a ring without cells.  (It is the constructor that rounds: no thread has called yet.)
CapacityFits == (\A t \in Threads : calls[t] = 0) => Misfits = {}
===============================================================================
