---------------------------- MODULE RingBufferProofs ----------------------------
(***************************************************************************)
(* Safety of RingBuffer for every capacity and any number of producers and *)
(* consumers.  The argument is the protocol's own: whoever has claimed a   *)
(* position finds the cell's sequence at the value it compared with, and a *)
(* cell has one sequence, so a cell has one claimant.                      *)
(***************************************************************************)
EXTENDS RingBuffer, TLAPS, WellFoundedInduction

\* Two positions in a row fall into different cells.
LEMMA CellProperties ==
    ASSUME NEW p \in Nat
    PROVE  Cell(p) \in 0 .. Capacity - 1 /\ Cell(p) # Cell(p + 1)
<1>1. Capacity \in Nat /\ Capacity >= 2
  BY RingAssumption
<1>2. Cell(p) \in 0 .. Capacity - 1
  BY <1>1 DEF Cell
<1>3. PICK a \in Nat, b \in Nat : /\ p + 1 = Capacity * a + Cell(p + 1)
                                  /\ p = Capacity * b + Cell(p)
  <2>1. /\ p = Capacity * (p \div Capacity) + Cell(p)
        /\ p + 1 = Capacity * ((p + 1) \div Capacity) + Cell(p + 1)
        /\ p \div Capacity \in Nat /\ (p + 1) \div Capacity \in Nat
    BY <1>1 DEF Cell
  <2> QED
    BY <2>1
<1>4. \A k \in Nat : Capacity * k \in Nat
  BY <1>1
<1>5. Capacity * a # Capacity * b + 1
  <2>1. CASE a <= b
    <3>1. PICK k \in Nat : b = a + k
      BY <2>1
    <3>2. Capacity * b = Capacity * a + Capacity * k
      BY <1>1, <3>1
    <3> QED
      BY <1>1, <1>4, <3>2
  <2>2. CASE b < a
    <3>1. PICK k \in Nat : a = b + 1 + k
      BY <2>2
    <3>2. Capacity * a = Capacity * b + Capacity + Capacity * k
      BY <1>1, <3>1
    <3> QED
      BY <1>1, <1>4, <3>2
  <2> QED
    BY <2>1, <2>2
<1>6. Capacity * a \in Nat /\ Capacity * b \in Nat
  BY <1>4
<1>7. ASSUME Cell(p) = Cell(p + 1) PROVE FALSE
  <2>1. Cell(p) \in Nat /\ Cell(p + 1) \in Nat
    BY <1>1, <1>2, <1>7
  <2> QED
    BY <1>3, <1>5, <1>6, <1>7, <2>1
<1> QED
  BY <1>2, <1>7

Producing == {"enqMove", "enqPublish"}
Consuming == {"deqMove", "deqRelease"}

\* A producer that has read a free cell, or a consumer that has read a full one, can still
\* rely on it as long as the position has not moved on.
SeenInv ==
    \A t \in Threads :
        /\ pc[t] \in {"enqSequence", "enqClaim"} => position[t] <= enqueuePos
        /\ pc[t] = "enqClaim" /\ position[t] = enqueuePos =>
              sequence[Cell(position[t])] = position[t]
        /\ pc[t] \in {"deqSequence", "deqClaim"} => position[t] <= dequeuePos
        /\ pc[t] = "deqClaim" /\ position[t] = dequeuePos =>
              sequence[Cell(position[t])] = position[t] + 1

\* Whoever has claimed a position has it to itself until it hands the cell over.
ClaimInv ==
    /\ \A t \in Threads :
        /\ pc[t] \in Producing =>
              position[t] < enqueuePos /\ sequence[Cell(position[t])] = position[t]
        /\ pc[t] \in Consuming =>
              position[t] < dequeuePos /\ sequence[Cell(position[t])] = position[t] + 1
    /\ \A t, u \in Threads :
        t # u /\ (\/ {pc[t], pc[u]} \subseteq Producing \/ {pc[t], pc[u]} \subseteq Consuming)
        => position[t] # position[u]

RingInv == TypeOK /\ SeenInv /\ ClaimInv

LEMMA RingInit == Init => RingInv
<1> SUFFICES ASSUME Init PROVE RingInv
  OBVIOUS
<1>1. TypeOK
  <2>1. sequence \in [0 .. Capacity - 1 -> Nat]
    BY RingAssumption DEF Init
  <2>2. pc \in [Threads -> {"idle"} \cup EnqPcs \cup DeqPcs]
    BY DEF Init
  <2> QED
    BY <2>1, <2>2, RingAssumption DEF Init, TypeOK, EnqPcs, DeqPcs, Threads
<1> QED
  BY <1>1 DEF Init, RingInv, SeenInv, ClaimInv, Producing, Consuming

LEMMA TypesNext == TypeOK /\ [Next]_vars => TypeOK'
<1> SUFFICES ASSUME TypeOK, [Next]_vars PROVE TypeOK'
  OBVIOUS
<1> USE RingAssumption DEF TypeOK, EnqPcs, DeqPcs, Goto, cells, Threads
<1>1. CASE UNCHANGED vars
  BY <1>1 DEF vars
<1>2. ASSUME NEW t \in Producers, EnqCall(t) PROVE TypeOK'
  <2>1. <<t, calls[t] + 1>> \in Values
    BY <1>2 DEF EnqCall, Values
  <2>2. /\ pc' = [pc EXCEPT ![t] = "enqSequence"]
        /\ item' = [item EXCEPT ![t] = <<t, calls[t] + 1>>]
        /\ calls' = [calls EXCEPT ![t] = calls[t] + 1]
        /\ position' = [position EXCEPT ![t] = enqueuePos]
        /\ UNCHANGED <<enqueuePos, dequeuePos, sequence, value>>
        /\ calls[t] < MaxEnqueues /\ calls[t] \in Nat /\ t \notin Consumers
    BY <1>2 DEF EnqCall
  <2>3. /\ calls' \in [Threads -> Nat]
        /\ \A u \in Producers : calls'[u] <= MaxEnqueues
        /\ \A u \in Consumers : calls'[u] <= MaxDequeues
    BY <2>2
  <2>4. /\ pc' \in [Threads -> {"idle"} \cup EnqPcs \cup DeqPcs]
        /\ \A u \in Producers : pc'[u] \notin DeqPcs
        /\ \A u \in Consumers : pc'[u] \notin EnqPcs
    BY <2>2
  <2>5. item' \in [Threads -> Values \cup {NoValue}] /\ position' \in [Threads -> Nat]
    BY <2>1, <2>2
  <2> QED
    BY <2>2, <2>3, <2>4, <2>5
<1>3. ASSUME NEW t \in Producers,
             EnqFree(t) \/ EnqRefused(t) \/ EnqBehind(t) \/ EnqReload(t)
      PROVE  TypeOK'
  <2>1. CASE EnqFree(t) \/ EnqRefused(t)
    BY <2>1 DEF EnqFree, EnqRefused
  <2>2. CASE EnqBehind(t)
    BY <2>2 DEF EnqBehind
  <2>3. CASE EnqReload(t)
    BY <2>3 DEF EnqReload
  <2> QED
    BY <1>3, <2>1, <2>2, <2>3
<1>4. ASSUME NEW t \in Producers, EnqClaim(t) \/ EnqClaimFails(t) PROVE TypeOK'
  <2>1. enqueuePos + 1 \in Nat /\ [position EXCEPT ![t] = enqueuePos] \in [Threads -> Nat]
    OBVIOUS
  <2> QED
    BY <1>4, <2>1 DEF EnqClaim, EnqClaimFails
<1>5. ASSUME NEW t \in Producers, EnqMove(t) PROVE TypeOK'
  BY <1>5 DEF EnqMove
<1>6. ASSUME NEW t \in Producers, EnqPublish(t) PROVE TypeOK'
  <2>1. position[t] + 1 \in Nat
    OBVIOUS
  <2>2. sequence' \in [0 .. Capacity - 1 -> Nat]
    BY <1>6, <2>1 DEF EnqPublish
  <2>3. /\ pc' = [pc EXCEPT ![t] = "idle"]
        /\ UNCHANGED <<enqueuePos, dequeuePos, value, position, item, calls>>
    BY <1>6 DEF EnqPublish
  <2>4. /\ pc' \in [Threads -> {"idle"} \cup EnqPcs \cup DeqPcs]
        /\ \A u \in Producers : pc'[u] \notin DeqPcs
        /\ \A u \in Consumers : pc'[u] \notin EnqPcs
    BY <2>3
  <2> QED
    BY <2>2, <2>3, <2>4
<1>7. ASSUME NEW t \in Consumers, DeqCall(t) PROVE TypeOK'
  BY <1>7 DEF DeqCall
<1>8. ASSUME NEW t \in Consumers,
             DeqReady(t) \/ DeqRefused(t) \/ DeqBehind(t) \/ DeqReload(t)
      PROVE  TypeOK'
  <2>1. CASE DeqReady(t) \/ DeqRefused(t)
    BY <2>1 DEF DeqReady, DeqRefused
  <2>2. CASE DeqBehind(t)
    BY <2>2 DEF DeqBehind
  <2>3. CASE DeqReload(t)
    BY <2>3 DEF DeqReload
  <2> QED
    BY <1>8, <2>1, <2>2, <2>3
<1>9. ASSUME NEW t \in Consumers, DeqClaim(t) \/ DeqClaimFails(t) PROVE TypeOK'
  <2>1. dequeuePos' \in Nat /\ position' \in [Threads -> Nat]
    BY <1>9 DEF DeqClaim, DeqClaimFails
  <2> QED
    BY <1>9, <2>1 DEF DeqClaim, DeqClaimFails
<1>10. ASSUME NEW t \in Consumers, DeqMove(t) PROVE TypeOK'
  <2>1. Cell(position[t]) \in 0 .. Capacity - 1
    BY CellProperties
  <2> QED
    BY <1>10, <2>1 DEF DeqMove
<1>11. ASSUME NEW t \in Consumers, DeqRelease(t) PROVE TypeOK'
  <2>1. position[t] + Capacity \in Nat
    OBVIOUS
  <2>2. sequence' \in [0 .. Capacity - 1 -> Nat]
    BY <1>11, <2>1 DEF DeqRelease
  <2> QED
    BY <1>11, <2>2 DEF DeqRelease
<1> QED
  BY <1>1, <1>2, <1>3, <1>4, <1>5, <1>6, <1>7, <1>8, <1>9, <1>10, <1>11
     DEF Next, TryEnqueue, TryDequeue

\* Claimants of the same cell are the same thread: the cell has one sequence, and it tells
\* a producer of position p from a consumer of position p and from anybody a lap away.
LEMMA OneClaimant ==
    ASSUME TypeOK, ClaimInv, NEW t \in Threads, NEW u \in Threads, t # u,
           pc[t] \in Producing \cup Consuming, pc[u] \in Producing \cup Consuming
    PROVE  Cell(position[t]) # Cell(position[u])
<1>1. position[t] \in Nat /\ position[u] \in Nat
  BY DEF TypeOK
<1>2. ASSUME Cell(position[t]) = Cell(position[u]) PROVE FALSE
  <2>1. CASE {pc[t], pc[u]} \subseteq Producing \/ {pc[t], pc[u]} \subseteq Consuming
    BY <1>1, <1>2, <2>1 DEF ClaimInv, Producing, Consuming
  <2>2. CASE pc[t] \in Producing /\ pc[u] \in Consuming
    <3>1. position[t] = position[u] + 1
      BY <1>2, <2>2 DEF ClaimInv
    <3> QED
      BY <1>1, <1>2, <3>1, CellProperties
  <2>3. CASE pc[t] \in Consuming /\ pc[u] \in Producing
    <3>1. position[u] = position[t] + 1
      BY <1>2, <2>3 DEF ClaimInv
    <3> QED
      BY <1>1, <1>2, <3>1, CellProperties
  <2> QED
    BY <2>1, <2>2, <2>3
<1> QED
  BY <1>2

\* What one thread does to the positions and to the cells' sequences.
OthersKeep(t) == \A u \in Threads : u # t => pc'[u] = pc[u] /\ position'[u] = position[u]

LEMMA OneMoves ==
    ASSUME TypeOK, [Next]_vars
    PROVE  \/ UNCHANGED <<enqueuePos, dequeuePos, sequence, pc, position>>
           \/ \E t \in Threads : TryEnqueue(t) /\ t \in Producers /\ OthersKeep(t)
           \/ \E t \in Threads : TryDequeue(t) /\ t \in Consumers /\ OthersKeep(t)
<1>1. ASSUME NEW t \in Producers, TryEnqueue(t) PROVE OthersKeep(t)
  BY <1>1 DEF TypeOK, OthersKeep, TryEnqueue, EnqCall, EnqFree, EnqRefused, EnqBehind,
              EnqReload, EnqClaim, EnqClaimFails, EnqMove, EnqPublish, Goto
<1>2. ASSUME NEW t \in Consumers, TryDequeue(t) PROVE OthersKeep(t)
  BY <1>2 DEF TypeOK, OthersKeep, TryDequeue, DeqCall, DeqReady, DeqRefused, DeqBehind,
              DeqReload, DeqClaim, DeqClaimFails, DeqMove, DeqRelease, Goto
<1> QED
  BY <1>1, <1>2 DEF Next, vars, cells, Threads

LEMMA SafeNext == RingInv /\ [Next]_vars => SeenInv' /\ ClaimInv'
<1> SUFFICES ASSUME RingInv, [Next]_vars PROVE SeenInv' /\ ClaimInv'
  OBVIOUS
<1>i. TypeOK /\ SeenInv /\ ClaimInv /\ TypeOK'
  BY TypesNext DEF RingInv
<1>n. /\ enqueuePos \in Nat /\ dequeuePos \in Nat
      /\ \A t \in Threads : position[t] \in Nat
  BY <1>i DEF TypeOK
<1>s. /\ sequence \in [0 .. Capacity - 1 -> Nat]
      /\ \A t \in Threads : Cell(position[t]) \in 0 .. Capacity - 1
  BY <1>i, <1>n, CellProperties DEF TypeOK
<1> USE DEF Producing, Consuming
<1>1. CASE UNCHANGED <<enqueuePos, dequeuePos, sequence, pc, position>>
  BY <1>1, <1>i DEF SeenInv, ClaimInv
\* Steps of t that touch neither positions nor sequences.
<1>2. ASSUME NEW t \in Threads, OthersKeep(t), UNCHANGED <<enqueuePos, dequeuePos, sequence>>,
             \/ pc'[t] \notin {"enqClaim", "deqClaim"} \cup Producing \cup Consuming
             \/ pc[t] = "enqMove" /\ pc'[t] = "enqPublish" /\ position'[t] = position[t]
             \/ pc[t] = "deqMove" /\ pc'[t] = "deqRelease" /\ position'[t] = position[t],
             pc'[t] = "enqSequence" => position'[t] <= enqueuePos,
             pc'[t] = "deqSequence" => position'[t] <= dequeuePos
      PROVE  SeenInv' /\ ClaimInv'
  <2>1. SeenInv'
    BY <1>2, <1>i DEF SeenInv, OthersKeep
  <2>2. ClaimInv'
    BY <1>2, <1>i DEF ClaimInv, OthersKeep
  <2> QED
    BY <2>1, <2>2
<1>3. ASSUME NEW t \in Threads, TryEnqueue(t), t \in Producers, OthersKeep(t)
      PROVE  SeenInv' /\ ClaimInv'
  <2>1. CASE EnqCall(t) \/ EnqRefused(t) \/ EnqBehind(t) \/ EnqReload(t) \/ EnqClaimFails(t)
    <3>1. /\ UNCHANGED <<enqueuePos, dequeuePos, sequence>>
          /\ \/ pc'[t] = "enqSequence" /\ position'[t] = enqueuePos
             \/ pc'[t] \in {"idle", "enqReload"}
      BY <2>1, <1>i DEF TypeOK, EnqCall, EnqRefused, EnqBehind, EnqReload, EnqClaimFails,
                        Goto, cells
    <3> QED
      BY <1>2, <1>3, <1>n, <3>1
  <2>2. CASE EnqMove(t)
    <3>1. /\ UNCHANGED <<enqueuePos, dequeuePos, sequence>> /\ position'[t] = position[t]
          /\ pc[t] = "enqMove" /\ pc'[t] = "enqPublish"
      BY <2>2, <1>i DEF TypeOK, EnqMove, Goto
    <3> QED
      BY <1>2, <1>3, <3>1
  <2>3. CASE EnqFree(t)
    <3>1. /\ UNCHANGED <<enqueuePos, dequeuePos, sequence, position>>
          /\ pc[t] = "enqSequence" /\ pc'[t] = "enqClaim"
          /\ sequence[Cell(position[t])] = position[t]
      BY <2>3, <1>i DEF TypeOK, EnqFree, Goto, cells
    <3>2. SeenInv'
      BY <1>3, <1>i, <3>1 DEF SeenInv, OthersKeep
    <3>3. ClaimInv'
      BY <1>3, <1>i, <3>1 DEF ClaimInv, OthersKeep
    <3> QED
      BY <3>2, <3>3
  <2>4. CASE EnqClaim(t)
    <3>1. /\ UNCHANGED <<dequeuePos, sequence, position>>
          /\ pc[t] = "enqClaim" /\ pc'[t] = "enqMove"
          /\ enqueuePos = position[t] /\ enqueuePos' = enqueuePos + 1
      BY <2>4, <1>i DEF TypeOK, EnqClaim, Goto, cells
    <3>2. \A u \in Threads : pc[u] \in Producing => position[u] # position[t]
      BY <1>i, <1>n, <3>1 DEF ClaimInv
    <3>3. sequence[Cell(position[t])] = position[t]
      BY <1>i, <3>1 DEF SeenInv
    <3>4. SeenInv'
      <4> SUFFICES ASSUME NEW u \in Threads
                   PROVE  /\ pc'[u] \in {"enqSequence", "enqClaim"} =>
                                /\ position[u] <= enqueuePos'
                                /\ position[u] # enqueuePos'
                          /\ pc'[u] \in {"deqSequence", "deqClaim"} =>
                                position[u] <= dequeuePos
                          /\ pc'[u] = "deqClaim" /\ position[u] = dequeuePos =>
                                sequence[Cell(position[u])] = position[u] + 1
        BY <3>1 DEF SeenInv
      <4>1. CASE u = t
        BY <3>1, <4>1
      <4>2. CASE u # t
        <5>1. pc'[u] = pc[u]
          BY <1>3, <4>2 DEF OthersKeep
        <5>2. /\ pc[u] \in {"enqSequence", "enqClaim"} => position[u] <= enqueuePos
              /\ pc[u] \in {"deqSequence", "deqClaim"} => position[u] <= dequeuePos
              /\ pc[u] = "deqClaim" /\ position[u] = dequeuePos =>
                    sequence[Cell(position[u])] = position[u] + 1
          BY <1>i DEF SeenInv
        <5> QED
          BY <1>n, <3>1, <5>1, <5>2
      <4> QED
        BY <4>1, <4>2
    <3>5. ClaimInv'
      <4>1. ASSUME NEW u \in Threads
            PROVE  /\ pc'[u] \in Producing => /\ position[u] < enqueuePos'
                                              /\ sequence[Cell(position[u])] = position[u]
                   /\ pc'[u] \in Consuming => /\ position[u] < dequeuePos
                                              /\ sequence[Cell(position[u])] = position[u] + 1
        <5>1. CASE u = t
          BY <1>n, <3>1, <3>3, <5>1
        <5>2. CASE u # t
          BY <1>3, <1>i, <1>n, <3>1, <5>2 DEF OthersKeep, ClaimInv
        <5> QED
          BY <5>1, <5>2
      <4>2. ASSUME NEW u \in Threads, NEW v \in Threads, u # v,
                   \/ {pc'[u], pc'[v]} \subseteq Producing
                   \/ {pc'[u], pc'[v]} \subseteq Consuming
            PROVE  position[u] # position[v]
        BY <1>3, <1>i, <3>1, <3>2, <4>2 DEF OthersKeep, ClaimInv
      <4> QED
        BY <3>1, <4>1, <4>2 DEF ClaimInv
    <3> QED
      BY <3>4, <3>5
  <2>5. CASE EnqPublish(t)
    <3>1. /\ UNCHANGED <<enqueuePos, dequeuePos, position>>
          /\ pc[t] = "enqPublish" /\ pc'[t] = "idle"
          /\ sequence' = [sequence EXCEPT ![Cell(position[t])] = position[t] + 1]
      BY <2>5, <1>i DEF TypeOK, EnqPublish, Goto
    <3>2. sequence[Cell(position[t])] = position[t] /\ position[t] < enqueuePos
      BY <1>i, <3>1 DEF ClaimInv
    <3>3. ASSUME NEW u \in Threads, u # t, Cell(position[u]) # Cell(position[t])
          PROVE  sequence'[Cell(position[u])] = sequence[Cell(position[u])]
      BY <1>s, <3>1, <3>3
    <3>4. SeenInv'
      <4> SUFFICES ASSUME NEW u \in Threads
                   PROVE  /\ pc'[u] \in {"enqSequence", "enqClaim"} => position[u] <= enqueuePos
                          /\ pc'[u] = "enqClaim" /\ position[u] = enqueuePos =>
                                sequence'[Cell(position[u])] = position[u]
                          /\ pc'[u] \in {"deqSequence", "deqClaim"} => position[u] <= dequeuePos
                          /\ pc'[u] = "deqClaim" /\ position[u] = dequeuePos =>
                                sequence'[Cell(position[u])] = position[u] + 1
        BY <3>1 DEF SeenInv
      <4>1. CASE u = t
        BY <3>1, <4>1
      <4>2. CASE u # t
        <5>1. pc'[u] = pc[u]
          BY <1>3, <4>2 DEF OthersKeep
        <5>2. /\ pc[u] \in {"enqSequence", "enqClaim"} => position[u] <= enqueuePos
              /\ pc[u] = "enqClaim" /\ position[u] = enqueuePos =>
                    sequence[Cell(position[u])] = position[u]
              /\ pc[u] \in {"deqSequence", "deqClaim"} => position[u] <= dequeuePos
              /\ pc[u] = "deqClaim" /\ position[u] = dequeuePos =>
                    sequence[Cell(position[u])] = position[u] + 1
          BY <1>i DEF SeenInv
        <5>3. \/ pc[u] = "enqClaim" /\ position[u] = enqueuePos
              \/ pc[u] = "deqClaim" /\ position[u] = dequeuePos
              => Cell(position[u]) # Cell(position[t])
          BY <1>n, <3>2, <5>2, CellProperties
        <5> QED
          BY <3>3, <4>2, <5>1, <5>2, <5>3
      <4> QED
        BY <4>1, <4>2
    <3>5. ClaimInv'
      <4>1. ASSUME NEW u \in Threads, pc'[u] \in Producing \cup Consuming
            PROVE  /\ u # t /\ pc'[u] = pc[u]
                   /\ sequence'[Cell(position[u])] = sequence[Cell(position[u])]
        <5>1. u # t /\ pc'[u] = pc[u]
          BY <1>3, <3>1, <4>1 DEF OthersKeep
        <5>2. Cell(position[u]) # Cell(position[t])
          BY <1>i, <3>1, <4>1, <5>1, OneClaimant
        <5> QED
          BY <3>3, <5>1, <5>2
      <4> QED
        BY <1>i, <3>1, <4>1 DEF ClaimInv
    <3> QED
      BY <3>4, <3>5
  <2> QED
    BY <1>3, <2>1, <2>2, <2>3, <2>4, <2>5 DEF TryEnqueue
<1>4. ASSUME NEW t \in Threads, TryDequeue(t), t \in Consumers, OthersKeep(t)
      PROVE  SeenInv' /\ ClaimInv'
  <2>1. CASE DeqCall(t) \/ DeqRefused(t) \/ DeqBehind(t) \/ DeqReload(t) \/ DeqClaimFails(t)
    <3>1. /\ UNCHANGED <<dequeuePos, enqueuePos, sequence>>
          /\ \/ pc'[t] = "deqSequence" /\ position'[t] = dequeuePos
             \/ pc'[t] \in {"idle", "deqReload"}
      BY <2>1, <1>i DEF TypeOK, DeqCall, DeqRefused, DeqBehind, DeqReload, DeqClaimFails,
                        Goto, cells
    <3> QED
      BY <1>2, <1>4, <1>n, <3>1
  <2>2. CASE DeqMove(t)
    <3>1. /\ UNCHANGED <<dequeuePos, enqueuePos, sequence>> /\ position'[t] = position[t]
          /\ pc[t] = "deqMove" /\ pc'[t] = "deqRelease"
      BY <2>2, <1>i DEF TypeOK, DeqMove, Goto
    <3> QED
      BY <1>2, <1>4, <3>1
  <2>3. CASE DeqReady(t)
    <3>1. /\ UNCHANGED <<dequeuePos, enqueuePos, sequence, position>>
          /\ pc[t] = "deqSequence" /\ pc'[t] = "deqClaim"
          /\ sequence[Cell(position[t])] = position[t] + 1
      BY <2>3, <1>i DEF TypeOK, DeqReady, Goto, cells
    <3>2. SeenInv'
      BY <1>4, <1>i, <3>1 DEF SeenInv, OthersKeep
    <3>3. ClaimInv'
      BY <1>4, <1>i, <3>1 DEF ClaimInv, OthersKeep
    <3> QED
      BY <3>2, <3>3
  <2>4. CASE DeqClaim(t)
    <3>1. /\ UNCHANGED <<enqueuePos, sequence, position>>
          /\ pc[t] = "deqClaim" /\ pc'[t] = "deqMove"
          /\ dequeuePos = position[t] /\ dequeuePos' = dequeuePos + 1
      BY <2>4, <1>i DEF TypeOK, DeqClaim, Goto, cells
    <3>2. \A u \in Threads : pc[u] \in Consuming => position[u] # position[t]
      BY <1>i, <1>n, <3>1 DEF ClaimInv
    <3>3. sequence[Cell(position[t])] = position[t] + 1
      BY <1>i, <3>1 DEF SeenInv
    <3>4. SeenInv'
      <4> SUFFICES ASSUME NEW u \in Threads
                   PROVE  /\ pc'[u] \in {"deqSequence", "deqClaim"} =>
                                /\ position[u] <= dequeuePos'
                                /\ position[u] # dequeuePos'
                          /\ pc'[u] \in {"enqSequence", "enqClaim"} =>
                                position[u] <= enqueuePos
                          /\ pc'[u] = "enqClaim" /\ position[u] = enqueuePos =>
                                sequence[Cell(position[u])] = position[u]
        BY <3>1 DEF SeenInv
      <4>1. CASE u = t
        BY <3>1, <4>1
      <4>2. CASE u # t
        <5>1. pc'[u] = pc[u]
          BY <1>4, <4>2 DEF OthersKeep
        <5>2. /\ pc[u] \in {"deqSequence", "deqClaim"} => position[u] <= dequeuePos
              /\ pc[u] \in {"enqSequence", "enqClaim"} => position[u] <= enqueuePos
              /\ pc[u] = "enqClaim" /\ position[u] = enqueuePos =>
                    sequence[Cell(position[u])] = position[u]
          BY <1>i DEF SeenInv
        <5> QED
          BY <1>n, <3>1, <5>1, <5>2
      <4> QED
        BY <4>1, <4>2
    <3>5. ClaimInv'
      <4>1. ASSUME NEW u \in Threads
            PROVE  /\ pc'[u] \in Consuming => /\ position[u] < dequeuePos'
                                              /\ sequence[Cell(position[u])] = position[u] + 1
                   /\ pc'[u] \in Producing => /\ position[u] < enqueuePos
                                              /\ sequence[Cell(position[u])] = position[u]
        <5>1. CASE u = t
          BY <1>n, <3>1, <3>3, <5>1
        <5>2. CASE u # t
          BY <1>4, <1>i, <1>n, <3>1, <5>2 DEF OthersKeep, ClaimInv
        <5> QED
          BY <5>1, <5>2
      <4>2. ASSUME NEW u \in Threads, NEW v \in Threads, u # v,
                   \/ {pc'[u], pc'[v]} \subseteq Consuming
                   \/ {pc'[u], pc'[v]} \subseteq Producing
            PROVE  position[u] # position[v]
        BY <1>4, <1>i, <3>1, <3>2, <4>2 DEF OthersKeep, ClaimInv
      <4> QED
        BY <3>1, <4>1, <4>2 DEF ClaimInv
    <3> QED
      BY <3>4, <3>5
  <2>5. CASE DeqRelease(t)
    <3>1. /\ UNCHANGED <<dequeuePos, enqueuePos, position>>
          /\ pc[t] = "deqRelease" /\ pc'[t] = "idle"
          /\ sequence' = [sequence EXCEPT ![Cell(position[t])] = position[t] + Capacity]
      BY <2>5, <1>i DEF TypeOK, DeqRelease, Goto
    <3>2. sequence[Cell(position[t])] = position[t] + 1 /\ position[t] < dequeuePos
      BY <1>i, <3>1 DEF ClaimInv
    <3>3. ASSUME NEW u \in Threads, u # t, Cell(position[u]) # Cell(position[t])
          PROVE  sequence'[Cell(position[u])] = sequence[Cell(position[u])]
      BY <1>s, <3>1, <3>3
    <3>4. SeenInv'
      <4> SUFFICES ASSUME NEW u \in Threads
                   PROVE  /\ pc'[u] \in {"deqSequence", "deqClaim"} => position[u] <= dequeuePos
                          /\ pc'[u] = "deqClaim" /\ position[u] = dequeuePos =>
                                sequence'[Cell(position[u])] = position[u] + 1
                          /\ pc'[u] \in {"enqSequence", "enqClaim"} => position[u] <= enqueuePos
                          /\ pc'[u] = "enqClaim" /\ position[u] = enqueuePos =>
                                sequence'[Cell(position[u])] = position[u]
        BY <3>1 DEF SeenInv
      <4>1. CASE u = t
        BY <3>1, <4>1
      <4>2. CASE u # t
        <5>1. pc'[u] = pc[u]
          BY <1>4, <4>2 DEF OthersKeep
        <5>2. /\ pc[u] \in {"deqSequence", "deqClaim"} => position[u] <= dequeuePos
              /\ pc[u] = "deqClaim" /\ position[u] = dequeuePos =>
                    sequence[Cell(position[u])] = position[u] + 1
              /\ pc[u] \in {"enqSequence", "enqClaim"} => position[u] <= enqueuePos
              /\ pc[u] = "enqClaim" /\ position[u] = enqueuePos =>
                    sequence[Cell(position[u])] = position[u]
          BY <1>i DEF SeenInv
        <5>3. \/ pc[u] = "deqClaim" /\ position[u] = dequeuePos
              \/ pc[u] = "enqClaim" /\ position[u] = enqueuePos
              => Cell(position[u]) # Cell(position[t])
          BY <1>n, <3>2, <5>2, CellProperties
        <5> QED
          BY <3>3, <4>2, <5>1, <5>2, <5>3
      <4> QED
        BY <4>1, <4>2
    <3>5. ClaimInv'
      <4>1. ASSUME NEW u \in Threads, pc'[u] \in Consuming \cup Producing
            PROVE  /\ u # t /\ pc'[u] = pc[u]
                   /\ sequence'[Cell(position[u])] = sequence[Cell(position[u])]
        <5>1. u # t /\ pc'[u] = pc[u]
          BY <1>4, <3>1, <4>1 DEF OthersKeep
        <5>2. Cell(position[u]) # Cell(position[t])
          BY <1>i, <3>1, <4>1, <5>1, OneClaimant
        <5> QED
          BY <3>3, <5>1, <5>2
      <4> QED
        BY <1>i, <3>1, <4>1 DEF ClaimInv
    <3> QED
      BY <3>4, <3>5
  <2> QED
    BY <1>4, <2>1, <2>2, <2>3, <2>4, <2>5 DEF TryDequeue
<1> QED
  BY <1>1, <1>3, <1>4, <1>i, OneMoves

THEOREM RingInvariant == Spec => []RingInv
<1>1. RingInv /\ [Next]_vars => RingInv'
  BY TypesNext, SafeNext DEF RingInv
<1> QED
  BY <1>1, RingInit, PTL DEF Spec

\* Every variable stays in its domain; producers only enqueue and consumers only dequeue.
THEOREM TypeCorrect == Spec => []TypeOK
BY RingInvariant, PTL DEF RingInv

\* The plain move assignments of TryEnqueue and TryDequeue never meet in one cell, for any
\* capacity of two or more, any number of threads and any number of calls.
THEOREM NoDataRaceTheorem == Spec => []NoDataRace
<1>1. RingInv => NoDataRace
  BY OneClaimant DEF RingInv, NoDataRace, Producing, Consuming
<1> QED
  BY <1>1, RingInvariant, PTL

(***************************************************************************)
(* Positions and cells.                                                    *)
(***************************************************************************)

\* A cell is used again exactly one lap later.
LEMMA NextLap ==
    ASSUME NEW p \in Nat
    PROVE  Cell(p + Capacity) = Cell(p)
<1>1. Capacity \in Nat /\ Capacity >= 2
  BY RingAssumption
<1> DEFINE a == p \div Capacity
           b == (p + Capacity) \div Capacity
<1>2. /\ a \in Nat /\ b \in Nat
      /\ p = Capacity * a + Cell(p) /\ Cell(p) \in 0 .. Capacity - 1
      /\ p + Capacity = Capacity * b + Cell(p + Capacity)
      /\ Cell(p + Capacity) \in 0 .. Capacity - 1
  BY <1>1 DEF Cell
<1> HIDE DEF a, b
<1>3. Capacity * (a + 1) = Capacity * a + Capacity
  BY <1>1, <1>2
<1>4. CASE b = a + 1
  BY <1>1, <1>2, <1>3, <1>4
<1>5. CASE b < a + 1
  <2>1. PICK k \in Nat : a + 1 = b + 1 + k
    BY <1>2, <1>5
  <2>2. Capacity * (a + 1) = Capacity * b + Capacity + Capacity * k /\ Capacity * k \in Nat
    BY <1>1, <1>2, <2>1
  <2>3. Capacity * a \in Nat /\ Capacity * b \in Nat
    BY <1>1, <1>2
  <2> QED
    BY <1>1, <1>2, <1>3, <2>2, <2>3
<1>6. CASE a + 1 < b
  <2>1. PICK k \in Nat : b = a + 1 + 1 + k
    BY <1>2, <1>6
  <2>2. Capacity * b = Capacity * (a + 1) + Capacity + Capacity * k /\ Capacity * k \in Nat
    BY <1>1, <1>2, <2>1
  <2>3. Capacity * a \in Nat /\ Capacity * b \in Nat
    BY <1>1, <1>2
  <2> QED
    BY <1>1, <1>2, <1>3, <2>2, <2>3
<1> QED
  BY <1>2, <1>4, <1>5, <1>6

\* Within a lap no two positions share a cell.
LEMMA OneLap ==
    ASSUME NEW p \in Nat, NEW q \in Nat, p < q, q < p + Capacity
    PROVE  Cell(p) # Cell(q)
<1>1. Capacity \in Nat /\ Capacity >= 2
  BY RingAssumption
<1> DEFINE a == p \div Capacity
           b == q \div Capacity
<1>2. /\ a \in Nat /\ b \in Nat /\ Cell(p) \in Nat /\ Cell(q) \in Nat
      /\ p = Capacity * a + Cell(p)
      /\ q = Capacity * b + Cell(q)
  BY <1>1 DEF Cell
<1> HIDE DEF a, b
<1>3. Capacity * a \in Nat /\ Capacity * b \in Nat
  BY <1>1, <1>2
<1>4. CASE b <= a
  <2>1. PICK k \in Nat : a = b + k
    BY <1>2, <1>4
  <2>2. Capacity * a = Capacity * b + Capacity * k /\ Capacity * k \in Nat
    BY <1>1, <1>2, <2>1
  <2> QED
    BY <1>2, <1>3, <2>2
<1>5. CASE a < b
  <2>1. PICK k \in Nat : b = a + 1 + k
    BY <1>2, <1>5
  <2>2. Capacity * b = Capacity * a + Capacity + Capacity * k /\ Capacity * k \in Nat
    BY <1>1, <1>2, <2>1
  <2> QED
    BY <1>1, <1>2, <1>3, <2>2
<1> QED
  BY <1>2, <1>4, <1>5

\* Every set of positions has a first one.
LEMMA FirstPosition ==
    ASSUME NEW S \in SUBSET Nat, S # {}
    PROVE  \E p \in S : \A q \in S : p <= q
<1> DEFINE R == { ss \in Nat \X Nat : ss[1] < ss[2] }
<1>1. IsWellFoundedOn(R, Nat)
  BY NatLessThanWellFounded DEF OpToRel
<1>2. \A p, q \in S : q < p => <<q, p>> \in R
  OBVIOUS
<1> HIDE DEF R
<1>3. PICK p \in S : \A q \in S : ~ (<<q, p>> \in R)
  BY <1>1, WFMin
<1>4. \A q \in S : p \in Nat /\ q \in Nat /\ ~ (q < p)
  <2> TAKE q \in S
  <2>1. ~ (q < p)
    BY <1>2, <1>3, Zenon
  <2> QED
    BY <2>1
<1> QED
  BY <1>4

Reserving(p) == \E t \in Threads : pc[t] \in Producing /\ position[t] = p
Taking(p)    == \E t \in Threads : pc[t] \in Consuming /\ position[t] = p

\* The window: consumers do not overtake producers, and producers are at most one lap ahead
\* of the oldest slot that is not released.
WindowInv ==
    /\ dequeuePos <= enqueuePos
    /\ \A t \in Threads : pc[t] \in Producing => dequeuePos <= position[t]
    /\ \A p \in Nat : p + Capacity < enqueuePos => Released(p)

\* A cell's sequence tells what has become of the latest position in it.
CellInv ==
    \A p \in Nat :
        /\ p < enqueuePos /\ enqueuePos <= p + Capacity =>
              /\ Released(p) => sequence[Cell(p)] = p + Capacity
              /\ ~ Released(p) /\ ~ Reserving(p) => sequence[Cell(p)] = p + 1
        /\ enqueuePos <= p /\ p < Capacity => sequence[Cell(p)] = p

\* A cell never falls behind a position that has been claimed.
LagInv ==
    \A p \in Nat : /\ p < enqueuePos => p <= sequence[Cell(p)]
                   /\ p < dequeuePos => p < sequence[Cell(p)]

\* What a producer moves into a cell stays there until it is taken.
ItemInv ==
    \A t \in Threads : /\ pc[t] \in EnqPcs => item[t] \in Values
                       /\ pc[t] = "enqPublish" => value[Cell(position[t])] = item[t]

QueueInv == WindowInv /\ CellInv /\ LagInv /\ ItemInv

LEMMA ReleasedIs == \A p \in Nat : Released(p) <=> p < dequeuePos /\ ~ Taking(p)
BY DEF Released, Taking, ClaimedBy, Consuming

LEMMA QueueInit == Init => QueueInv
<1> SUFFICES ASSUME Init PROVE QueueInv
  OBVIOUS
<1>1. WindowInv /\ ItemInv
  BY RingAssumption DEF Init, WindowInv, ItemInv, Producing, EnqPcs
<1>2. ASSUME NEW p \in Nat, p < Capacity PROVE sequence[Cell(p)] = p
  <2>1. Cell(p) = p
    BY <1>2, RingAssumption DEF Cell
  <2> QED
    BY <1>2, <2>1, RingAssumption DEF Init
<1> QED
  BY <1>1, <1>2, RingAssumption DEF Init, QueueInv, CellInv, LagInv

(***************************************************************************)
(* The steps.                                                              *)
(***************************************************************************)

\* All that a claim or a cell depends on.
Quiet ==
    /\ UNCHANGED <<enqueuePos, dequeuePos, sequence, value>>
    /\ \A u \in Threads :
          pc[u] \in Producing \cup Consuming \/ pc'[u] \in Producing \cup Consuming =>
              pc'[u] = pc[u] /\ position'[u] = position[u] /\ item'[u] = item[u]

Moving(t) == \/ EnqClaim(t) \/ EnqMove(t) \/ EnqPublish(t)
             \/ DeqClaim(t) \/ DeqMove(t) \/ DeqRelease(t)

LEMMA QuietOrMoving ==
    ASSUME TypeOK, [Next]_vars
    PROVE  Quiet \/ \E t \in Threads : Moving(t)
<1> USE DEF TypeOK, Goto, cells, Threads, Producing, Consuming, Quiet
<1>1. CASE UNCHANGED vars
  BY <1>1 DEF vars
<1>2. ASSUME NEW t \in Producers,
             EnqCall(t) \/ EnqFree(t) \/ EnqRefused(t) \/ EnqBehind(t) \/ EnqReload(t)
                 \/ EnqClaimFails(t)
      PROVE  Quiet
  BY <1>2 DEF EnqCall, EnqFree, EnqRefused, EnqBehind, EnqReload, EnqClaimFails
<1>3. ASSUME NEW t \in Consumers,
             DeqCall(t) \/ DeqReady(t) \/ DeqRefused(t) \/ DeqBehind(t) \/ DeqReload(t)
                 \/ DeqClaimFails(t)
      PROVE  Quiet
  BY <1>3 DEF DeqCall, DeqReady, DeqRefused, DeqBehind, DeqReload, DeqClaimFails
<1> QED
  BY <1>1, <1>2, <1>3 DEF Next, TryEnqueue, TryDequeue, Moving

\* What a producer or a consumer carries.
LEMMA ItemNext ==
    ASSUME RingInv, ItemInv, [Next]_vars
    PROVE  ItemInv'
<1>i. TypeOK /\ TypeOK' /\ ClaimInv
  BY TypesNext DEF RingInv
<1>1. ASSUME NEW t \in Threads, pc'[t] \in EnqPcs PROVE item'[t] \in Values
  <2> USE DEF TypeOK, Goto, cells, Threads, EnqPcs, DeqPcs, ItemInv
  <2>1. CASE UNCHANGED vars
    BY <1>1, <1>i, <2>1 DEF vars
  <2>2. ASSUME NEW u \in Producers, EnqCall(u) PROVE item'[t] \in Values
    <3>1. <<u, calls[u] + 1>> \in Values
      BY <1>i, <2>2, RingAssumption DEF EnqCall, Values
    <3> QED
      BY <1>1, <1>i, <2>2, <3>1 DEF EnqCall
  <2>3. ASSUME NEW u \in Producers,
               EnqFree(u) \/ EnqRefused(u) \/ EnqBehind(u) \/ EnqReload(u) \/ EnqClaim(u)
                   \/ EnqClaimFails(u) \/ EnqMove(u) \/ EnqPublish(u)
        PROVE  item'[t] \in Values
    BY <1>1, <1>i, <2>3 DEF EnqFree, EnqRefused, EnqBehind, EnqReload, EnqClaim,
                           EnqClaimFails, EnqMove, EnqPublish
  <2>4. ASSUME NEW u \in Consumers, TryDequeue(u) PROVE item'[t] \in Values
    <3>1. t # u /\ pc[t] = pc'[t] /\ item'[t] = item[t]
      BY <1>1, <1>i, <2>4 DEF TryDequeue, DeqCall, DeqReady, DeqRefused, DeqBehind, DeqReload,
                             DeqClaim, DeqClaimFails, DeqMove, DeqRelease
    <3> QED
      BY <1>1, <3>1
  <2> QED
    BY <2>1, <2>2, <2>3, <2>4 DEF Next, TryEnqueue
<1>2. ASSUME NEW t \in Threads, pc'[t] = "enqPublish"
      PROVE  value'[Cell(position'[t])] = item'[t]
  <2>1. CASE Quiet
    BY <1>2, <1>i, <2>1 DEF Quiet, ItemInv, Producing
  <2>2. ASSUME NEW u \in Threads, Moving(u), u = t PROVE value'[Cell(position'[t])] = item'[t]
    <3>1. EnqMove(t) /\ Cell(position[t]) \in 0 .. Capacity - 1
      BY <1>2, <1>i, <2>2, CellProperties
         DEF Moving, EnqClaim, EnqMove, EnqPublish, DeqClaim, DeqMove, DeqRelease, Goto, TypeOK
    <3> QED
      BY <1>i, <3>1 DEF EnqMove, TypeOK
  <2>3. ASSUME NEW u \in Threads, Moving(u), u # t PROVE value'[Cell(position'[t])] = item'[t]
    <3>1. /\ pc[t] = "enqPublish" /\ position'[t] = position[t] /\ item'[t] = item[t]
          /\ value[Cell(position[t])] = item[t]
          /\ value' = value \/ EnqMove(u) \/ DeqMove(u)
      BY <1>2, <1>i, <2>3 DEF Moving, EnqClaim, EnqMove, EnqPublish, DeqClaim, DeqMove,
                             DeqRelease, Goto, TypeOK, ItemInv, cells
    <3>2. CASE EnqMove(u) \/ DeqMove(u)
      <4>1. Cell(position[u]) # Cell(position[t])
        BY <1>i, <2>3, <3>1, <3>2, OneClaimant DEF EnqMove, DeqMove, Goto, Producing, Consuming
      <4>2. Cell(position[t]) \in 0 .. Capacity - 1
        BY <1>i, CellProperties DEF TypeOK
      <4> QED
        BY <1>i, <3>1, <3>2, <4>1, <4>2 DEF EnqMove, DeqMove, TypeOK
    <3> QED
      BY <3>1, <3>2
  <2> QED
    BY <1>i, <2>1, <2>2, <2>3, QuietOrMoving
<1> QED
  BY <1>1, <1>2 DEF ItemInv

(***************************************************************************)
(* What each step does to the slots that are reserved and released.        *)
(***************************************************************************)

LEMMA QuietClaims ==
    ASSUME TypeOK, Quiet
    PROVE  \A p \in Nat : /\ Reserving(p)' <=> Reserving(p)
                          /\ Released(p)' <=> Released(p)
<1>1. \A p \in Nat : Reserving(p)' <=> Reserving(p)
  BY DEF Quiet, Reserving
<1>2. \A p \in Nat : Taking(p)' <=> Taking(p)
  BY DEF Quiet, Taking
<1>3. \A p \in Nat : Released(p)' <=> p < dequeuePos' /\ ~ Taking(p)'
  BY DEF Released, Taking, ClaimedBy, Consuming
<1> QED
  BY <1>1, <1>2, <1>3, ReleasedIs DEF Quiet

Kept == \A p \in Nat : (Reserving(p)' <=> Reserving(p)) /\ (Released(p)' <=> Released(p))

LEMMA MovingClaims ==
    ASSUME TypeOK, ClaimInv, WindowInv, NEW t \in Threads
    PROVE  /\ EnqClaim(t) => \A p \in Nat : /\ Reserving(p)' <=> Reserving(p) \/ p = enqueuePos
                                            /\ Released(p)' <=> Released(p)
           /\ EnqPublish(t) => \A p \in Nat : /\ Reserving(p)' <=> Reserving(p) /\ p # position[t]
                                              /\ Released(p)' <=> Released(p)
           /\ DeqRelease(t) => \A p \in Nat : /\ Reserving(p)' <=> Reserving(p)
                                              /\ Released(p)' <=> Released(p) \/ p = position[t]
           /\ EnqMove(t) \/ DeqMove(t) \/ DeqClaim(t) => Kept
<1> USE DEF Goto, cells, Producing, Consuming, TypeOK, Reserving, Taking
<1>r. \A p \in Nat : Released(p)' <=> p < dequeuePos' /\ ~ Taking(p)'
  BY DEF Released, Taking, ClaimedBy, Consuming
<1>1. CASE EnqClaim(t)
  <2>1. \A p \in Nat : Reserving(p)' <=> Reserving(p) \/ p = enqueuePos
    BY <1>1 DEF EnqClaim
  <2>2. \A p \in Nat : Taking(p)' <=> Taking(p)
    BY <1>1 DEF EnqClaim
  <2> QED
    BY <1>1, <1>r, <2>1, <2>2, ReleasedIs
       DEF EnqClaim, EnqPublish, DeqRelease, EnqMove, DeqMove, DeqClaim
<1>2. CASE EnqPublish(t)
  <2>1. \A p \in Nat : Reserving(p)' <=> Reserving(p) /\ p # position[t]
    BY <1>2 DEF EnqPublish, ClaimInv
  <2>2. \A p \in Nat : Taking(p)' <=> Taking(p)
    BY <1>2 DEF EnqPublish
  <2> QED
    BY <1>2, <1>r, <2>1, <2>2, ReleasedIs
       DEF EnqClaim, EnqPublish, DeqRelease, EnqMove, DeqMove, DeqClaim
<1>3. CASE DeqRelease(t)
  <2>1. \A p \in Nat : Reserving(p)' <=> Reserving(p)
    BY <1>3 DEF DeqRelease
  <2>2. \A p \in Nat : Taking(p)' <=> Taking(p) /\ p # position[t]
    BY <1>3 DEF DeqRelease, ClaimInv
  <2>3. position[t] < dequeuePos
    BY <1>3 DEF DeqRelease, ClaimInv
  <2> QED
    BY <1>3, <1>r, <2>1, <2>2, <2>3, ReleasedIs
       DEF EnqClaim, EnqPublish, DeqRelease, EnqMove, DeqMove, DeqClaim
<1>4. CASE EnqMove(t) \/ DeqMove(t)
  <2>1. \A p \in Nat : (Reserving(p)' <=> Reserving(p)) /\ (Taking(p)' <=> Taking(p))
    BY <1>4 DEF EnqMove, DeqMove
  <2> QED
    BY <1>4, <1>r, <2>1, ReleasedIs
       DEF EnqClaim, EnqPublish, DeqRelease, EnqMove, DeqMove, DeqClaim, Kept
<1>5. CASE DeqClaim(t)
  <2>1. \A p \in Nat : Reserving(p)' <=> Reserving(p)
    BY <1>5 DEF DeqClaim
  <2>2. \A p \in Nat : Taking(p)' <=> Taking(p) \/ p = dequeuePos
    BY <1>5 DEF DeqClaim
  <2>3. \A p \in Nat : Released(p)' <=> Released(p)
    <3>1. dequeuePos' = dequeuePos + 1 /\ dequeuePos \in Nat
      BY <1>5 DEF DeqClaim
    <3> HIDE DEF Taking
    <3>2. \A p \in Nat : p < dequeuePos' /\ p # dequeuePos <=> p < dequeuePos
      BY <3>1
    <3> QED
      BY <1>r, <2>2, <3>2, ReleasedIs
  <2> QED
    BY <1>5, <2>1, <2>3 DEF EnqClaim, EnqPublish, DeqRelease, EnqMove, DeqMove, DeqClaim, Kept
<1> QED
  BY <1>1, <1>2, <1>3, <1>4, <1>5

(***************************************************************************)
(* The invariant.                                                          *)
(***************************************************************************)

\* Positions less than a lap apart are in different cells.
LEMMA OtherCell ==
    ASSUME NEW p \in Nat, NEW q \in Nat, p # q, p < q + Capacity, q < p + Capacity
    PROVE  Cell(p) # Cell(q)
<1>1. p < q \/ q < p
  OBVIOUS
<1> QED
  BY <1>1, OneLap

\* A claimed position is in the last lap and has not been released.
LEMMA ClaimedIsLive ==
    ASSUME TypeOK, ClaimInv, WindowInv, NEW t \in Threads, pc[t] \in Producing \cup Consuming
    PROVE  /\ position[t] \in Nat /\ enqueuePos \in Nat /\ dequeuePos \in Nat
           /\ position[t] < enqueuePos /\ enqueuePos <= position[t] + Capacity
           /\ ~ Released(position[t])
           /\ Cell(position[t]) \in 0 .. Capacity - 1
<1>1. /\ position[t] \in Nat /\ enqueuePos \in Nat /\ dequeuePos \in Nat
      /\ Cell(position[t]) \in 0 .. Capacity - 1
  BY CellProperties DEF TypeOK
<1>2. position[t] < enqueuePos
  BY <1>1 DEF ClaimInv, WindowInv
<1>3. ~ Released(position[t])
  <2>1. CASE pc[t] \in Producing
    BY <1>1, <2>1, ReleasedIs DEF WindowInv
  <2>2. CASE pc[t] \in Consuming
    BY <1>1, <2>2, ReleasedIs DEF Taking
  <2> QED
    BY <2>1, <2>2
<1>4. enqueuePos <= position[t] + Capacity
  BY <1>1, <1>3, RingAssumption DEF WindowInv
<1> QED
  BY <1>1, <1>2, <1>3, <1>4

\* The slot a lap before the one that is claimed has been released.
LEMMA LapIsFree ==
    ASSUME RingInv, QueueInv, sequence[Cell(enqueuePos)] = enqueuePos
    PROVE  \A p \in Nat : p + Capacity = enqueuePos => Released(p)
<1> SUFFICES ASSUME NEW p \in Nat, p + Capacity = enqueuePos, ~ Released(p) PROVE FALSE
  OBVIOUS
<1>1. sequence[Cell(p)] = p + Capacity
  BY NextLap
<1>2. enqueuePos \in Nat /\ Capacity \in Nat /\ Capacity >= 2
  BY RingAssumption DEF RingInv, TypeOK
<1>3. CASE Reserving(p)
  BY <1>1, <1>2, <1>3 DEF Reserving, RingInv, ClaimInv
<1>4. CASE ~ Reserving(p)
  BY <1>1, <1>2, <1>4 DEF QueueInv, CellInv
<1> QED
  BY <1>3, <1>4

\* What DeqReady has compared with tells that the oldest slot is published.
LEMMA HeadIsPublished ==
    ASSUME RingInv, QueueInv, sequence[Cell(dequeuePos)] = dequeuePos + 1
    PROVE  dequeuePos < enqueuePos /\ ~ Reserving(dequeuePos)
<1>1. /\ enqueuePos \in Nat /\ dequeuePos \in Nat /\ dequeuePos <= enqueuePos
      /\ Capacity \in Nat /\ Capacity >= 2
  BY RingAssumption DEF RingInv, TypeOK, QueueInv, WindowInv
<1>2. ~ Reserving(dequeuePos)
  BY <1>1 DEF Reserving, RingInv, ClaimInv
<1>3. ASSUME dequeuePos = enqueuePos PROVE FALSE
  <2>1. CASE enqueuePos < Capacity
    BY <1>1, <1>3, <2>1 DEF QueueInv, CellInv
  <2>2. CASE enqueuePos >= Capacity
    <3>1. PICK p \in Nat : p + Capacity = enqueuePos
      BY <1>1, <2>2
    <3>2. sequence[Cell(p)] = enqueuePos + 1
      BY <1>3, <3>1, NextLap
    <3>3. CASE Reserving(p)
      BY <1>1, <3>1, <3>2, <3>3 DEF Reserving, RingInv, ClaimInv
    <3>4. CASE ~ Reserving(p)
      <4>1. p < enqueuePos /\ enqueuePos <= p + Capacity
        BY <1>1, <3>1
      <4>2. sequence[Cell(p)] = p + Capacity \/ sequence[Cell(p)] = p + 1
        BY <3>4, <4>1 DEF QueueInv, CellInv
      <4> QED
        BY <1>1, <3>1, <3>2, <4>2
    <3> QED
      BY <3>3, <3>4
  <2> QED
    BY <1>1, <2>1, <2>2
<1> QED
  BY <1>1, <1>2, <1>3

LEMMA QueueNext == RingInv /\ QueueInv /\ [Next]_vars => QueueInv'
<1> SUFFICES ASSUME RingInv, QueueInv, [Next]_vars PROVE QueueInv'
  OBVIOUS
<1>i. /\ TypeOK /\ TypeOK' /\ ClaimInv /\ SeenInv /\ WindowInv /\ CellInv /\ LagInv /\ ItemInv'
      /\ Capacity \in Nat /\ Capacity >= 2
      /\ enqueuePos \in Nat /\ dequeuePos \in Nat
      /\ \A p \in Nat : Cell(p) \in 0 .. Capacity - 1
      /\ \A c \in 0 .. Capacity - 1 : sequence[c] \in Nat
  BY TypesNext, ItemNext, CellProperties, RingAssumption DEF RingInv, QueueInv, TypeOK
<1>1. CASE Quiet
  <2>1. \A p \in Nat : /\ Reserving(p)' <=> Reserving(p)
                       /\ Released(p)' <=> Released(p)
    BY <1>1, <1>i, QuietClaims
  <2>2. WindowInv'
    BY <1>1, <1>i, <2>1 DEF WindowInv, Quiet
  <2>3. CellInv' /\ LagInv'
    BY <1>1, <1>i, <2>1 DEF CellInv, LagInv, Quiet
  <2> QED
    BY <1>i, <2>2, <2>3 DEF QueueInv
<1>2. ASSUME NEW t \in Threads, EnqClaim(t) PROVE QueueInv'
  <2>1. \A p \in Nat : /\ Reserving(p)' <=> Reserving(p) \/ p = enqueuePos
                       /\ Released(p)' <=> Released(p)
    BY <1>2, <1>i, MovingClaims
  <2>2. /\ enqueuePos' = enqueuePos + 1 /\ UNCHANGED <<dequeuePos, sequence, position>>
        /\ pc' = [pc EXCEPT ![t] = "enqMove"] /\ position[t] = enqueuePos
        /\ sequence[Cell(enqueuePos)] = enqueuePos
    BY <1>2, <1>i DEF EnqClaim, Goto, cells, SeenInv
  <2>3. WindowInv'
    <3>1. \A p \in Nat : p + Capacity < enqueuePos' => Released(p)'
      BY <1>i, <2>1, <2>2, LapIsFree DEF WindowInv
    <3>2. \A u \in Threads : pc'[u] \in Producing => dequeuePos <= position[u]
      BY <1>i, <2>2 DEF WindowInv, TypeOK
    <3> QED
      BY <1>i, <2>2, <3>1, <3>2 DEF WindowInv
  <2>4. CellInv'
    <3>1. ~ Released(enqueuePos)
      BY <1>i, ReleasedIs DEF WindowInv
    <3>2. ASSUME NEW p \in Nat, p < enqueuePos', enqueuePos' <= p + Capacity
          PROVE  /\ Released(p)' => sequence'[Cell(p)] = p + Capacity
                 /\ ~ Released(p)' /\ ~ Reserving(p)' => sequence'[Cell(p)] = p + 1
      BY <1>i, <2>1, <2>2, <3>1, <3>2 DEF CellInv
    <3>3. ASSUME NEW p \in Nat, enqueuePos' <= p, p < Capacity PROVE sequence'[Cell(p)] = p
      BY <1>i, <2>2, <3>3 DEF CellInv
    <3> QED
      BY <3>2, <3>3 DEF CellInv
  <2>5. LagInv'
    BY <1>i, <2>2 DEF LagInv
  <2> QED
    BY <1>i, <2>3, <2>4, <2>5 DEF QueueInv
<1>3. ASSUME NEW t \in Threads, EnqPublish(t) PROVE QueueInv'
  <2>1. \A p \in Nat : /\ Reserving(p)' <=> Reserving(p) /\ p # position[t]
                       /\ Released(p)' <=> Released(p)
    BY <1>3, <1>i, MovingClaims
  <2>2. /\ UNCHANGED <<enqueuePos, dequeuePos, position>>
        /\ sequence' = [sequence EXCEPT ![Cell(position[t])] = position[t] + 1]
        /\ pc[t] = "enqPublish" /\ pc' = [pc EXCEPT ![t] = "idle"]
        /\ sequence[Cell(position[t])] = position[t]
    BY <1>3, <1>i DEF EnqPublish, Goto, ClaimInv, Producing
  <2>3. /\ position[t] \in Nat /\ position[t] < enqueuePos
        /\ enqueuePos <= position[t] + Capacity
        /\ ~ Released(position[t])
        /\ Cell(position[t]) \in 0 .. Capacity - 1
    BY <1>i, <2>2, ClaimedIsLive DEF Producing
  <2>4. WindowInv'
    BY <1>i, <2>1, <2>2 DEF WindowInv, TypeOK, Producing
  <2>5. /\ sequence'[Cell(position[t])] = position[t] + 1
        /\ \A c \in 0 .. Capacity - 1 : c # Cell(position[t]) => sequence'[c] = sequence[c]
    BY <1>i, <2>2, <2>3 DEF TypeOK
  <2>6. CellInv'
    <3>1. ASSUME NEW p \in Nat, p < enqueuePos', enqueuePos' <= p + Capacity
          PROVE  /\ Released(p)' => sequence'[Cell(p)] = p + Capacity
                 /\ ~ Released(p)' /\ ~ Reserving(p)' => sequence'[Cell(p)] = p + 1
      <4>1. CASE p = position[t]
        BY <2>1, <2>3, <2>5, <4>1
      <4>2. CASE p # position[t]
        <5>1. Cell(p) # Cell(position[t])
          BY <1>i, <2>2, <2>3, <3>1, <4>2, OtherCell
        <5> QED
          BY <1>i, <2>1, <2>2, <2>5, <3>1, <4>2, <5>1 DEF CellInv
      <4> QED
        BY <4>1, <4>2
    <3>2. ASSUME NEW p \in Nat, enqueuePos' <= p, p < Capacity PROVE sequence'[Cell(p)] = p
      <4>1. Cell(p) # Cell(position[t])
        BY <1>i, <2>2, <2>3, <3>2, OtherCell
      <4> QED
        BY <1>i, <2>2, <2>5, <3>2, <4>1 DEF CellInv
    <3> QED
      BY <3>1, <3>2 DEF CellInv
  <2>7. LagInv'
    BY <1>i, <2>2, <2>3, <2>5 DEF LagInv
  <2> QED
    BY <1>i, <2>4, <2>6, <2>7 DEF QueueInv
<1>4. ASSUME NEW t \in Threads, DeqRelease(t) PROVE QueueInv'
  <2>1. \A p \in Nat : /\ Reserving(p)' <=> Reserving(p)
                       /\ Released(p)' <=> Released(p) \/ p = position[t]
    BY <1>4, <1>i, MovingClaims
  <2>2. /\ UNCHANGED <<enqueuePos, dequeuePos, position>>
        /\ sequence' = [sequence EXCEPT ![Cell(position[t])] = position[t] + Capacity]
        /\ pc[t] = "deqRelease" /\ pc' = [pc EXCEPT ![t] = "idle"]
        /\ sequence[Cell(position[t])] = position[t] + 1
    BY <1>4, <1>i DEF DeqRelease, Goto, ClaimInv, Consuming
  <2>3. /\ position[t] \in Nat /\ position[t] < enqueuePos
        /\ enqueuePos <= position[t] + Capacity
        /\ ~ Released(position[t])
        /\ Cell(position[t]) \in 0 .. Capacity - 1
    BY <1>i, <2>2, ClaimedIsLive DEF Consuming
  <2>4. WindowInv'
    BY <1>i, <2>1, <2>2 DEF WindowInv, TypeOK, Producing
  <2>5. /\ sequence'[Cell(position[t])] = position[t] + Capacity
        /\ \A c \in 0 .. Capacity - 1 : c # Cell(position[t]) => sequence'[c] = sequence[c]
    BY <1>i, <2>2, <2>3 DEF TypeOK
  <2>6. CellInv'
    <3>1. ASSUME NEW p \in Nat, p < enqueuePos', enqueuePos' <= p + Capacity
          PROVE  /\ Released(p)' => sequence'[Cell(p)] = p + Capacity
                 /\ ~ Released(p)' /\ ~ Reserving(p)' => sequence'[Cell(p)] = p + 1
      <4>1. CASE p = position[t]
        BY <2>1, <2>3, <2>5, <4>1
      <4>2. CASE p # position[t]
        <5>1. Cell(p) # Cell(position[t])
          BY <1>i, <2>2, <2>3, <3>1, <4>2, OtherCell
        <5> QED
          BY <1>i, <2>1, <2>2, <2>5, <3>1, <4>2, <5>1 DEF CellInv
      <4> QED
        BY <4>1, <4>2
    <3>2. ASSUME NEW p \in Nat, enqueuePos' <= p, p < Capacity PROVE sequence'[Cell(p)] = p
      <4>1. Cell(p) # Cell(position[t])
        BY <1>i, <2>2, <2>3, <3>2, OtherCell
      <4> QED
        BY <1>i, <2>2, <2>5, <3>2, <4>1 DEF CellInv
    <3> QED
      BY <3>1, <3>2 DEF CellInv
  <2>7. LagInv'
    BY <1>i, <2>2, <2>3, <2>5 DEF LagInv
  <2> QED
    BY <1>i, <2>4, <2>6, <2>7 DEF QueueInv
<1>5. ASSUME NEW t \in Threads, DeqClaim(t) PROVE QueueInv'
  <2>1. \A p \in Nat : (Reserving(p)' <=> Reserving(p)) /\ (Released(p)' <=> Released(p))
    BY <1>5, <1>i, MovingClaims DEF Kept
  <2>2. /\ dequeuePos' = dequeuePos + 1 /\ UNCHANGED <<enqueuePos, sequence, position>>
        /\ pc' = [pc EXCEPT ![t] = "deqMove"] /\ position[t] = dequeuePos
        /\ sequence[Cell(dequeuePos)] = dequeuePos + 1
    BY <1>5, <1>i DEF DeqClaim, Goto, cells, SeenInv
  <2>3. dequeuePos < enqueuePos /\ ~ Reserving(dequeuePos)
    BY <2>2, HeadIsPublished
  <2>4. WindowInv'
    <3>1. ASSUME NEW u \in Threads, pc'[u] \in Producing PROVE dequeuePos' <= position'[u]
      <4>1. /\ pc[u] \in Producing /\ position[u] \in Nat /\ dequeuePos <= position[u]
            /\ position[u] # dequeuePos
        BY <1>i, <2>2, <2>3, <3>1 DEF WindowInv, TypeOK, Reserving, Producing
      <4> QED
        BY <1>i, <2>2, <4>1
    <3> QED
      BY <1>i, <2>1, <2>2, <2>3, <3>1 DEF WindowInv
  <2>5. CellInv'
    BY <1>i, <2>1, <2>2 DEF CellInv
  <2>6. LagInv'
    BY <1>i, <2>2 DEF LagInv
  <2> QED
    BY <1>i, <2>4, <2>5, <2>6 DEF QueueInv
<1>6. ASSUME NEW t \in Threads, EnqMove(t) \/ DeqMove(t) PROVE QueueInv'
  <2>1. \A p \in Nat : (Reserving(p)' <=> Reserving(p)) /\ (Released(p)' <=> Released(p))
    BY <1>6, <1>i, MovingClaims DEF Kept
  <2>2. /\ UNCHANGED <<enqueuePos, dequeuePos, sequence, position>>
        /\ \A u \in Threads : pc'[u] \in Producing => pc[u] \in Producing
    BY <1>6, <1>i DEF EnqMove, DeqMove, Goto, Producing, TypeOK
  <2>3. WindowInv'
    BY <1>i, <2>1, <2>2 DEF WindowInv
  <2>4. CellInv' /\ LagInv'
    BY <1>i, <2>1, <2>2 DEF CellInv, LagInv
  <2> QED
    BY <1>i, <2>3, <2>4 DEF QueueInv
<1> QED
  BY <1>i, <1>1, <1>2, <1>3, <1>4, <1>5, <1>6, QuietOrMoving DEF Moving

(***************************************************************************)
(* The slots as ReservationQueue sees them.                                *)
(***************************************************************************)

\* o is the oldest position that has not been released.
IsOldest(o) == /\ o \in Nat /\ o <= dequeuePos /\ dequeuePos <= enqueuePos
               /\ o = enqueuePos \/ ~ Released(o)
               /\ \A q \in Nat : q < o => Released(q)

LEMMA OldestIs == TypeOK /\ WindowInv => IsOldest(OldestUnreleased)
<1> SUFFICES ASSUME TypeOK, WindowInv PROVE IsOldest(OldestUnreleased)
  OBVIOUS
<1>1. dequeuePos \in Nat /\ enqueuePos \in Nat /\ dequeuePos <= enqueuePos
  BY DEF TypeOK, WindowInv
<1> DEFINE S == { p \in Nat : p = enqueuePos \/ ~ Released(p) }
<1>2. PICK o \in S : \A q \in S : o <= q
  BY <1>1, FirstPosition
<1>3. ~ Released(dequeuePos)
  BY <1>1, ReleasedIs
<1>4. o <= dequeuePos /\ o \in Nat /\ (o = enqueuePos \/ ~ Released(o))
  BY <1>1, <1>2, <1>3
<1>5. \A q \in 0 .. o - 1 : Released(q)
  BY <1>1, <1>2, <1>4
<1> HIDE DEF S
<1> DEFINE Fits(p) == /\ p = enqueuePos \/ ~ Released(p)
                      /\ \A q \in 0 .. p - 1 : Released(q)
<1>6. o \in 0 .. enqueuePos /\ Fits(o)
  BY <1>1, <1>4, <1>5
<1>7. /\ OldestUnreleased \in 0 .. enqueuePos
      /\ Fits(OldestUnreleased)
  <2>1. OldestUnreleased = CHOOSE p \in 0 .. enqueuePos : Fits(p)
    BY DEF OldestUnreleased
  <2> HIDE DEF Fits
  <2> QED
    BY <1>6, <2>1
<1>8. OldestUnreleased <= dequeuePos
  BY <1>1, <1>3, <1>7
<1> QED
  BY <1>1, <1>7, <1>8 DEF IsOldest

SlotType == [val : Values \cup {NoValue}, state : RQ!SlotStates]

\* A slot shows what its claimant has in hand, or what is in its cell.
SlotShape(p) ==
    /\ SlotAt(p) \in SlotType
    /\ \A t \in Threads : position[t] = p =>
          /\ pc[t] \in Producing    => SlotAt(p) = [val |-> item[t], state |-> "reserved"]
          /\ pc[t] = "deqMove"    => SlotAt(p) = [val |-> value[Cell(p)], state |-> "taken"]
          /\ pc[t] = "deqRelease" => SlotAt(p) = [val |-> item[t], state |-> "taken"]
    /\ ~ Reserving(p) /\ ~ Taking(p) =>
          SlotAt(p) = IF p < dequeuePos THEN [val |-> NoValue, state |-> "released"]
                      ELSE [val |-> value[Cell(p)], state |-> "ready"]

SlotsShape == \A p \in Nat : SlotShape(p)

LEMMA SlotShapes == RingInv /\ WindowInv => SlotsShape
<1> SUFFICES ASSUME RingInv, WindowInv, NEW p \in Nat PROVE SlotShape(p)
  BY DEF SlotsShape
<1> DEFINE producing == ClaimedBy(p, {"enqMove", "enqPublish"})
           moving    == ClaimedBy(p, {"deqMove"})
           releasing == ClaimedBy(p, {"deqRelease"})
           HeldBy(ts) == item[CHOOSE t \in ts : TRUE]
<1>1. SlotAt(p) =
        CASE producing # {} -> [val |-> HeldBy(producing), state |-> "reserved"]
          [] moving # {}    -> [val |-> value[Cell(p)], state |-> "taken"]
          [] releasing # {} -> [val |-> HeldBy(releasing), state |-> "taken"]
          [] Released(p)    -> [val |-> NoValue, state |-> "released"]
          [] OTHER          -> [val |-> value[Cell(p)], state |-> "ready"]
  BY DEF SlotAt
<1>2. /\ producing = { t \in Threads : pc[t] \in Producing /\ position[t] = p }
      /\ moving = { t \in Threads : pc[t] = "deqMove" /\ position[t] = p }
      /\ releasing = { t \in Threads : pc[t] = "deqRelease" /\ position[t] = p }
  BY DEF ClaimedBy, Producing
<1>3. /\ \A t, u \in producing : t = u
      /\ \A t, u \in moving \cup releasing : t = u
      /\ producing # {} => moving \cup releasing = {}
  BY <1>2 DEF RingInv, ClaimInv, WindowInv, Producing, Consuming, TypeOK
<1>4. /\ \A t \in producing : HeldBy(producing) = item[t]
      /\ \A t \in releasing : HeldBy(releasing) = item[t]
  <2>1. ASSUME NEW ts, NEW t \in ts, \A u \in ts : u = t PROVE (CHOOSE u \in ts : TRUE) = t
    BY <2>1
  <2> QED
    BY <1>3, <2>1
<1>5. /\ \A t \in producing \cup releasing : item[t] \in Values \cup {NoValue}
      /\ value[Cell(p)] \in Values \cup {NoValue}
  BY <1>2, CellProperties DEF RingInv, TypeOK
<1> HIDE DEF producing, moving, releasing, HeldBy
<1>6. Reserving(p) <=> producing # {}
  BY <1>2 DEF Reserving
<1>7. Taking(p) <=> moving # {} \/ releasing # {}
  BY <1>2 DEF Taking, Consuming
<1>8. SlotAt(p) \in SlotType
  <2>1. producing # {} => HeldBy(producing) \in Values \cup {NoValue}
    BY <1>4, <1>5
  <2>2. releasing # {} => HeldBy(releasing) \in Values \cup {NoValue}
    BY <1>4, <1>5
  <2> QED
    BY <1>1, <1>5, <2>1, <2>2 DEF SlotType, RQ!SlotStates
<1>9. ASSUME NEW t \in Threads, position[t] = p
      PROVE  /\ pc[t] \in Producing  => SlotAt(p) = [val |-> item[t], state |-> "reserved"]
             /\ pc[t] = "deqMove"    => SlotAt(p) = [val |-> value[Cell(p)], state |-> "taken"]
             /\ pc[t] = "deqRelease" => SlotAt(p) = [val |-> item[t], state |-> "taken"]
  <2>1. CASE pc[t] \in Producing
    <3>1. t \in producing /\ HeldBy(producing) = item[t]
      BY <1>2, <1>4, <1>9, <2>1
    <3>2. producing # {} /\ moving = {} /\ releasing = {} /\ ~ Released(p)
      BY <1>3, <1>9, <2>1, <3>1, ReleasedIs DEF RingInv, WindowInv, TypeOK
    <3>3. SlotAt(p) = [val |-> HeldBy(producing), state |-> "reserved"]
      BY <1>1, <3>2
    <3> QED
      BY <2>1, <3>1, <3>3 DEF Producing
  <2>2. CASE pc[t] = "deqMove"
    <3>1. t \in moving /\ producing = {}
      BY <1>2, <1>3, <1>9, <2>2
    <3>2. releasing = {}
      <4>1. \A u \in releasing : u = t /\ pc[u] = "deqRelease"
        BY <1>2, <1>3, <3>1
      <4> QED
        BY <2>2, <4>1
    <3>3. SlotAt(p) = [val |-> value[Cell(p)], state |-> "taken"]
      BY <1>1, <1>7, <3>1, <3>2, ReleasedIs
    <3> QED
      BY <2>2, <3>3 DEF Producing
  <2>3. CASE pc[t] = "deqRelease"
    <3>1. t \in releasing /\ HeldBy(releasing) = item[t]
      BY <1>2, <1>4, <1>9, <2>3
    <3>2. producing = {} /\ moving = {}
      <4>1. \A u \in moving : u = t /\ pc[u] = "deqMove"
        BY <1>2, <1>3, <3>1
      <4> QED
        BY <1>3, <2>3, <3>1, <4>1
    <3>3. releasing # {} /\ ~ Released(p)
      BY <1>7, <3>1, ReleasedIs
    <3>4. SlotAt(p) = [val |-> HeldBy(releasing), state |-> "taken"]
      BY <1>1, <3>2, <3>3
    <3> QED
      BY <2>3, <3>1, <3>4 DEF Producing
  <2> QED
    BY <2>1, <2>2, <2>3
<1> QED
  BY <1>1, <1>6, <1>7, <1>8, <1>9, ReleasedIs DEF SlotShape

\* The positions of the window.
Window == OldestUnreleased .. enqueuePos - 1

\* slotWindow shows the slots of the window, in order.
WindowShape ==
    /\ slotWindow \in Seq(SlotType)
    /\ Len(slotWindow) = enqueuePos - OldestUnreleased
    /\ \A p \in Window : /\ p - OldestUnreleased + 1 \in 1 .. Len(slotWindow)
                         /\ slotWindow[p - OldestUnreleased + 1] = SlotAt(p)
    /\ \A i \in 1 .. Len(slotWindow) : /\ OldestUnreleased + i - 1 \in Window
                                       /\ slotWindow[i] = SlotAt(OldestUnreleased + i - 1)

LEMMA WindowIs == RingInv /\ WindowInv => WindowShape
<1> SUFFICES ASSUME RingInv, WindowInv PROVE WindowShape
  OBVIOUS
<1> DEFINE o == OldestUnreleased
           n == enqueuePos - o
<1>1. o \in Nat /\ enqueuePos \in Nat /\ n \in Nat /\ o <= enqueuePos
  BY OldestIs DEF IsOldest, RingInv, TypeOK
<1> HIDE DEF o
<1>2. slotWindow = [i \in 1 .. n |-> SlotAt(o + i - 1)]
  BY DEF slotWindow, o
<1>3. \A i \in 1 .. n : o + i - 1 \in Nat /\ SlotAt(o + i - 1) \in SlotType
  BY <1>1, SlotShapes DEF SlotsShape, SlotShape
<1>4. slotWindow \in [1 .. n -> SlotType]
  BY <1>2, <1>3
<1>5. slotWindow \in Seq(SlotType) /\ Len(slotWindow) = n
  BY <1>1, <1>4
<1>6. Window = o .. enqueuePos - 1
  BY DEF Window, o
<1>7. ASSUME NEW p \in Window
      PROVE  p - o + 1 \in 1 .. n /\ slotWindow[p - o + 1] = SlotAt(p)
  <2>1. p - o + 1 \in 1 .. n /\ o + (p - o + 1) - 1 = p
    BY <1>1, <1>6
  <2> QED
    BY <1>2, <2>1
<1>8. ASSUME NEW i \in 1 .. n PROVE o + i - 1 \in Window /\ slotWindow[i] = SlotAt(o + i - 1)
  BY <1>1, <1>2, <1>6
<1> QED
  BY <1>5, <1>7, <1>8 DEF o, WindowShape

LEMMA OneOldest ==
    ASSUME TypeOK, WindowInv, NEW a \in Nat, NEW b \in Nat, IsOldest(a), IsOldest(b)
    PROVE  a = b
<1>1. ~ Released(enqueuePos) /\ enqueuePos \in Nat
  BY ReleasedIs DEF TypeOK, WindowInv
<1> QED
  BY <1>1 DEF IsOldest

\* What a claim says about the position it is for.
LEMMA ClaimsApart ==
    ASSUME RingInv, WindowInv, NEW p \in Nat
    PROVE  /\ Reserving(p) => dequeuePos <= p /\ ~ Taking(p) /\ ~ Released(p)
           /\ Taking(p) => p < dequeuePos /\ ~ Released(p)
<1>1. dequeuePos \in Nat
  BY DEF RingInv, TypeOK
<1>2. Reserving(p) => dequeuePos <= p
  BY DEF Reserving, WindowInv
<1>3. Taking(p) => p < dequeuePos
  BY DEF Taking, RingInv, ClaimInv
<1> QED
  BY <1>1, <1>2, <1>3, ReleasedIs

\* The state of a slot tells what its claimant is doing.
LEMMA StateIs ==
    ASSUME RingInv, WindowInv, NEW p \in Nat, SlotShape(p)
    PROVE  /\ SlotAt(p).state = "released" <=> Released(p)
           /\ SlotAt(p).state = "reserved" <=> Reserving(p)
           /\ SlotAt(p).state = "taken" <=> Taking(p)
           /\ SlotAt(p).state = "ready" <=> dequeuePos <= p /\ ~ Reserving(p)
<1>1. dequeuePos \in Nat
  BY DEF RingInv, TypeOK
<1>2. CASE Reserving(p)
  <2>1. SlotAt(p).state = "reserved"
    BY <1>2 DEF SlotShape, Reserving
  <2> QED
    BY <1>2, <2>1, ClaimsApart
<1>3. CASE Taking(p)
  <2>1. SlotAt(p).state = "taken"
    BY <1>3 DEF SlotShape, Taking, Consuming
  <2> QED
    BY <1>1, <1>3, <2>1, ClaimsApart
<1>4. CASE ~ Reserving(p) /\ ~ Taking(p)
  <2>1. SlotAt(p) = IF p < dequeuePos THEN [val |-> NoValue, state |-> "released"]
                      ELSE [val |-> value[Cell(p)], state |-> "ready"]
    BY <1>4 DEF SlotShape
  <2> QED
    BY <1>1, <1>4, <2>1, ReleasedIs
<1> QED
  BY <1>2, <1>3, <1>4

\* A slot stays as it is while its claimant does, and its value if it has no claimant.
LEMMA SlotKept ==
    ASSUME TypeOK, TypeOK', NEW p \in Nat, SlotShape(p), SlotShape(p)',
           \A u \in Threads :
               \/ position[u] = p /\ pc[u] \in Producing \cup Consuming
               \/ position'[u] = p /\ pc'[u] \in Producing \cup Consuming
               => /\ position'[u] = position[u] /\ item'[u] = item[u]
                  /\ pc'[u] = pc[u] \/ {pc[u], pc'[u]} \subseteq Producing,
           p < dequeuePos' <=> p < dequeuePos,
           Released(p) \/ Reserving(p) \/ value'[Cell(p)] = value[Cell(p)]
    PROVE  SlotAt(p)' = SlotAt(p)
<1>1. CASE Reserving(p)
  <2>1. PICK u \in Threads : pc[u] \in Producing /\ position[u] = p
    BY <1>1 DEF Reserving
  <2>2. pc'[u] \in Producing /\ position'[u] = p /\ item'[u] = item[u]
    BY <2>1
  <2> QED
    BY <2>1, <2>2 DEF SlotShape
<1>2. CASE Taking(p) /\ ~ Reserving(p)
  <2>1. PICK u \in Threads : pc[u] \in Consuming /\ position[u] = p
    BY <1>2 DEF Taking
  <2>2. /\ pc'[u] = pc[u] /\ position'[u] = p /\ item'[u] = item[u]
        /\ value'[Cell(p)] = value[Cell(p)]
    BY <1>2, <2>1, ReleasedIs DEF Producing, Consuming
  <2> QED
    BY <2>1, <2>2 DEF SlotShape, Consuming
<1>3. CASE ~ Reserving(p) /\ ~ Taking(p)
  <2>1. (~ Reserving(p) /\ ~ Taking(p))'
    BY <1>3 DEF Reserving, Taking, Producing, Consuming
  <2>2. /\ SlotAt(p) = IF p < dequeuePos THEN [val |-> NoValue, state |-> "released"]
                         ELSE [val |-> value[Cell(p)], state |-> "ready"]
        /\ SlotAt(p)' = IF p < dequeuePos' THEN [val |-> NoValue, state |-> "released"]
                          ELSE [val |-> value'[Cell(p)], state |-> "ready"]
    BY <1>3, <2>1 DEF SlotShape
  <2> QED
    BY <1>3, <2>2, ReleasedIs
<1> QED
  BY <1>1, <1>2, <1>3

HasOldest == \E o \in Nat : OldestUnreleased = o /\ IsOldest(o)

LEMMA OldestExists == TypeOK /\ WindowInv => HasOldest
BY OldestIs DEF HasOldest, IsOldest

\* The window keeps its front while nothing is released.
LEMMA OldestKept ==
    ASSUME TypeOK, TypeOK', WindowInv, WindowInv', enqueuePos <= enqueuePos',
           \A p \in Nat : Released(p)' <=> Released(p)
    PROVE  OldestUnreleased' = OldestUnreleased
<1>1. PICK o \in Nat : OldestUnreleased = o /\ IsOldest(o)
  BY OldestExists DEF HasOldest
<1>2. HasOldest'
  BY OldestExists, PTL
<1>3. PICK n \in Nat : OldestUnreleased' = n /\ IsOldest(n)'
  BY <1>2 DEF HasOldest
<1>4. ~ Released(enqueuePos) /\ enqueuePos \in Nat /\ enqueuePos' \in Nat
  BY ReleasedIs DEF TypeOK, WindowInv
<1>5. /\ o <= enqueuePos /\ (o = enqueuePos \/ ~ Released(o))
      /\ \A q \in Nat : q < o => Released(q)
  BY <1>1, <1>4 DEF IsOldest, TypeOK
<1>6. /\ n <= enqueuePos' /\ (n = enqueuePos' \/ ~ Released(n))
      /\ \A q \in Nat : q < n => Released(q)
  BY <1>3, <1>4 DEF IsOldest, TypeOK
<1>7. ~ (o < n) /\ ~ (n < o)
  BY <1>4, <1>5, <1>6
<1> QED
  BY <1>1, <1>3, <1>7

\* Steps that change one slot of the window, or none.
LEMMA WindowKept ==
    ASSUME RingInv, WindowInv, RingInv', WindowInv', enqueuePos' = enqueuePos,
           \A p \in Nat : Released(p)' <=> Released(p),
           \A p \in Window : SlotAt(p)' = SlotAt(p)
    PROVE  slotWindow' = slotWindow
<1>1. OldestUnreleased' = OldestUnreleased
  BY OldestKept DEF RingInv, TypeOK
<1>2. Window' = Window
  BY <1>1 DEF Window
<1>3. WindowShape /\ WindowShape'
  BY WindowIs, PTL
<1>4. /\ slotWindow \in Seq(SlotType) /\ slotWindow' \in Seq(SlotType)
      /\ Len(slotWindow') = Len(slotWindow)
  BY <1>1, <1>3 DEF WindowShape, SlotType
<1>5. ASSUME NEW i \in 1 .. Len(slotWindow) PROVE slotWindow'[i] = slotWindow[i]
  BY <1>1, <1>2, <1>3, <1>4 DEF WindowShape
<1> QED
  BY <1>4, <1>5

LEMMA WindowUpdated ==
    ASSUME RingInv, WindowInv, RingInv', WindowInv', enqueuePos' = enqueuePos,
           \A p \in Nat : Released(p)' <=> Released(p),
           NEW p \in Window,
           \A q \in Window : q # p => SlotAt(q)' = SlotAt(q)
    PROVE  \E i \in 1 .. Len(slotWindow) :
              /\ OldestUnreleased + i - 1 = p
              /\ slotWindow' = [slotWindow EXCEPT ![i] = SlotAt(p)']
<1> DEFINE i == p - OldestUnreleased + 1
<1>1. OldestUnreleased' = OldestUnreleased
  BY OldestKept DEF RingInv, TypeOK
<1>2. Window' = Window
  BY <1>1 DEF Window
<1>3. WindowShape /\ WindowShape'
  BY WindowIs, PTL
<1>4. /\ slotWindow \in Seq(SlotType) /\ slotWindow' \in Seq(SlotType)
      /\ Len(slotWindow') = Len(slotWindow)
  BY <1>1, <1>3 DEF WindowShape, SlotType
<1>5. i \in 1 .. Len(slotWindow) /\ OldestUnreleased + i - 1 = p
  <2>1. OldestUnreleased \in Nat /\ p \in Nat
    BY OldestIs DEF IsOldest, RingInv, Window
  <2> QED
    BY <1>3, <2>1 DEF WindowShape
<1>6. ASSUME NEW j \in 1 .. Len(slotWindow)
      PROVE  slotWindow'[j] = IF j = i THEN SlotAt(p)' ELSE slotWindow[j]
  <2>1. j # i => OldestUnreleased + j - 1 # p
    BY <1>5, OldestIs DEF IsOldest, RingInv
  <2>2. /\ OldestUnreleased + j - 1 \in Window
        /\ slotWindow[j] = SlotAt(OldestUnreleased + j - 1)
    BY <1>3 DEF WindowShape
  <2>3. slotWindow'[j] = SlotAt(OldestUnreleased + j - 1)'
    BY <1>1, <1>3, <1>4 DEF WindowShape
  <2>4. CASE j = i
    BY <1>1, <1>5, <2>3, <2>4
  <2>5. CASE j # i
    BY <1>1, <2>1, <2>2, <2>3, <2>5
  <2> QED
    BY <2>4, <2>5
<1> HIDE DEF i
<1>7. slotWindow' = [slotWindow EXCEPT ![i] = SlotAt(p)']
  BY <1>4, <1>5, <1>6
<1> QED
  BY <1>5, <1>7

(***************************************************************************)
(* Each step as an operation of ReservationQueue.                          *)
(***************************************************************************)

\* What every step starts from and ends in.
BothInv == RingInv /\ QueueInv /\ RingInv' /\ QueueInv'

LEMMA BothFacts ==
    ASSUME BothInv
    PROVE  /\ TypeOK /\ TypeOK' /\ WindowInv /\ WindowInv' /\ ClaimInv /\ ItemInv /\ SeenInv
           /\ SlotsShape /\ SlotsShape' /\ WindowShape /\ WindowShape' /\ HasOldest /\ HasOldest'
           /\ \A p \in Nat : SlotShape(p) /\ SlotShape(p)'
           /\ enqueuePos \in Nat /\ dequeuePos \in Nat /\ Capacity \in Nat /\ Capacity >= 2
           /\ \A p \in Nat : Cell(p) \in 0 .. Capacity - 1
           /\ \A p \in Window : p \in Nat /\ p < enqueuePos
<1>1. RingInv /\ WindowInv /\ (RingInv /\ WindowInv)'
  BY DEF BothInv, QueueInv
<1>2. TypeOK /\ TypeOK' /\ WindowInv /\ WindowInv' /\ ClaimInv /\ ItemInv /\ SeenInv
  BY DEF BothInv, QueueInv, RingInv
<1>3. WindowShape /\ WindowShape' /\ SlotsShape /\ SlotsShape'
  BY <1>1, WindowIs, SlotShapes, PTL
<1>4. HasOldest /\ HasOldest'
  BY <1>2, OldestExists, PTL
<1>5. \A p \in Window : p \in Nat /\ p < enqueuePos
  BY <1>2, <1>4 DEF Window, HasOldest, TypeOK
<1>6. \A p \in Nat : Cell(p) \in 0 .. Capacity - 1
  BY CellProperties
<1> QED
  BY <1>2, <1>3, <1>4, <1>5, <1>6, RingAssumption DEF SlotsShape, TypeOK

\* Two live positions are less than a lap apart.
LEMMA LiveApart ==
    ASSUME TypeOK, WindowInv, NEW p \in Nat, NEW q \in Nat, p # q,
           p < enqueuePos, q < enqueuePos, ~ Released(p), ~ Released(q)
    PROVE  Cell(p) # Cell(q)
<1>1. enqueuePos <= p + Capacity /\ enqueuePos <= q + Capacity
  BY RingAssumption DEF WindowInv, TypeOK
<1> QED
  BY <1>1, OtherCell, RingAssumption DEF TypeOK

\* A slot that the step's own thread has not claimed stays as it is.
LEMMA OthersKept ==
    ASSUME BothInv, NEW t \in Threads, Moving(t),
           NEW p \in Window, p # position[t]
    PROVE  SlotAt(p)' = SlotAt(p)
<1>i. /\ TypeOK /\ TypeOK' /\ ClaimInv /\ WindowInv /\ WindowInv' /\ dequeuePos \in Nat
      /\ p \in Nat /\ SlotShape(p) /\ SlotShape(p)' /\ p < enqueuePos
      /\ \A c \in Nat : Cell(c) \in 0 .. Capacity - 1
  BY BothFacts
<1>1. \A u \in Threads : u # t => /\ pc'[u] = pc[u] /\ position'[u] = position[u]
                                  /\ item'[u] = item[u]
  BY <1>i DEF Moving, EnqClaim, EnqMove, EnqPublish, DeqClaim, DeqMove, DeqRelease, Goto, TypeOK
<1>2. position'[t] = position[t]
  BY DEF Moving, EnqClaim, EnqMove, EnqPublish, DeqClaim, DeqMove, DeqRelease
<1>3. p < dequeuePos' <=> p < dequeuePos
  <2>1. dequeuePos' = dequeuePos \/ (dequeuePos' = dequeuePos + 1 /\ p # dequeuePos)
    BY DEF Moving, EnqClaim, EnqMove, EnqPublish, DeqClaim, DeqMove, DeqRelease, cells
  <2> QED
    BY <1>i, <2>1
<1>4. ASSUME ~ Released(p), EnqMove(t) \/ DeqMove(t) PROVE value'[Cell(p)] = value[Cell(p)]
  <2>1. pc[t] \in Producing \cup Consuming
    BY <1>4 DEF EnqMove, DeqMove, Goto, Producing, Consuming
  <2>2. Cell(p) # Cell(position[t])
    BY <1>i, <1>4, <2>1, LiveApart, ClaimedIsLive
  <2> QED
    BY <1>i, <1>4, <2>2 DEF EnqMove, DeqMove, TypeOK
<1>5. EnqMove(t) \/ DeqMove(t) \/ value' = value
  BY DEF Moving, EnqClaim, EnqMove, EnqPublish, DeqClaim, DeqMove, DeqRelease, cells
<1> QED
  BY <1>i, <1>1, <1>2, <1>3, <1>4, <1>5, SlotKept

LEMMA QuietStutters == BothInv /\ Quiet => slotWindow' = slotWindow
<1> SUFFICES ASSUME BothInv, Quiet PROVE slotWindow' = slotWindow
  OBVIOUS
<1>i. /\ TypeOK /\ TypeOK' /\ ClaimInv /\ WindowInv /\ WindowInv'
      /\ \A p \in Window : p \in Nat /\ p < enqueuePos
      /\ \A p \in Nat : SlotShape(p) /\ SlotShape(p)'
  BY BothFacts
<1>1. \A p \in Nat : Released(p)' <=> Released(p)
  BY <1>i, QuietClaims
<1>2. ASSUME NEW p \in Window PROVE SlotAt(p)' = SlotAt(p)
  BY <1>i, <1>2, SlotKept DEF Quiet
<1> QED
  BY <1>i, <1>1, <1>2, WindowKept DEF Quiet, BothInv

LEMMA MoveStutters ==
    ASSUME BothInv, NEW t \in Threads, EnqMove(t) \/ DeqMove(t)
    PROVE  slotWindow' = slotWindow
<1>i. /\ TypeOK /\ TypeOK' /\ ClaimInv /\ WindowInv /\ WindowInv'
      /\ \A p \in Window : p \in Nat /\ p < enqueuePos
      /\ \A p \in Nat : SlotShape(p) /\ SlotShape(p)'
      /\ \A c \in Nat : Cell(c) \in 0 .. Capacity - 1
  BY BothFacts
<1>1. \A p \in Nat : Released(p)' <=> Released(p)
  BY <1>i, MovingClaims DEF Kept
<1>2. SlotAt(position[t])' = SlotAt(position[t])
  <2> DEFINE p == position[t]
  <2>1. PICK r \in Nat : r = position[t]
    BY <1>i DEF TypeOK
  <2>2. CASE EnqMove(t)
    <3>1. /\ pc[t] = "enqMove" /\ pc'[t] = "enqPublish" /\ item' = item
          /\ position' = position
      BY <1>i, <2>2 DEF EnqMove, Goto, TypeOK
    <3>2. SlotAt(r)' = SlotAt(r)
      BY <1>i, <2>1, <3>1 DEF SlotShape, Producing
    <3> QED
      BY <2>1, <3>1, <3>2
  <2>3. CASE DeqMove(t)
    <3>1. /\ pc[t] = "deqMove" /\ pc'[t] = "deqRelease" /\ item'[t] = value[Cell(r)]
          /\ position' = position
      BY <1>i, <2>1, <2>3 DEF DeqMove, Goto, TypeOK
    <3>2. SlotAt(r)' = SlotAt(r)
      BY <1>i, <2>1, <3>1 DEF SlotShape
    <3> QED
      BY <2>1, <3>1, <3>2
  <2> QED
    BY <2>2, <2>3
<1> QED
  BY <1>i, <1>1, <1>2, OthersKept, WindowKept DEF EnqMove, DeqMove, Moving, BothInv

LEMMA ClaimReserves ==
    ASSUME BothInv, NEW t \in Threads, EnqClaim(t)
    PROVE  RQ!QReserve(item[t]) /\ item[t] \in Values
<1>i. /\ TypeOK /\ TypeOK' /\ ClaimInv /\ WindowInv /\ WindowInv' /\ SeenInv
      /\ \A p \in Nat : SlotShape(p) /\ SlotShape(p)'
      /\ enqueuePos \in Nat /\ dequeuePos \in Nat /\ Capacity \in Nat
      /\ WindowShape /\ WindowShape'
      /\ \A p \in Window : p \in Nat /\ p < enqueuePos
  BY BothFacts
<1>1. /\ position[t] = enqueuePos /\ position'[t] = enqueuePos /\ enqueuePos' = enqueuePos + 1
      /\ pc'[t] = "enqMove" /\ item' = item /\ item[t] \in Values
  BY <1>i DEF EnqClaim, Goto, TypeOK, BothInv, QueueInv, ItemInv, EnqPcs
<1>2. \A p \in Nat : Released(p)' <=> Released(p)
  BY <1>i, MovingClaims
<1>3. PICK o \in Nat : OldestUnreleased = o /\ IsOldest(o)
  BY BothFacts DEF HasOldest
<1>4. OldestUnreleased' = o /\ o <= enqueuePos
  <2>1. OldestUnreleased' = OldestUnreleased
    BY <1>i, <1>1, <1>2, OldestKept
  <2> QED
    BY <1>i, <1>3, <2>1 DEF IsOldest
<1> DEFINE n == enqueuePos - o
<1>5. n \in Nat /\ n < Capacity
  <2>1. sequence[Cell(enqueuePos)] = enqueuePos
    BY <1>i, <1>1 DEF SeenInv, EnqClaim, Goto
  <2>2. \A p \in Nat : p + Capacity = enqueuePos => Released(p)
    BY <2>1, LapIsFree DEF BothInv
  <2>3. \A p \in Nat : p + Capacity <= enqueuePos => Released(p)
    BY <1>i, <2>2 DEF WindowInv
  <2>4. o = enqueuePos \/ ~ Released(o)
    BY <1>3 DEF IsOldest
  <2> QED
    BY <1>i, <1>4, <2>3, <2>4, RingAssumption
<1>6. /\ slotWindow \in Seq(SlotType) /\ Len(slotWindow) = n
      /\ slotWindow' \in Seq(SlotType) /\ Len(slotWindow') = n + 1
  BY <1>i, <1>1, <1>3, <1>4 DEF WindowShape, SlotType
<1>7. PICK r \in Nat : r = enqueuePos
  BY <1>i
<1>8. SlotAt(r)' = [val |-> item[t], state |-> "reserved"]
  BY <1>i, <1>1, <1>7 DEF SlotShape, Producing
<1>9. ASSUME NEW i \in 1 .. n PROVE slotWindow'[i] = slotWindow[i]
  <2>1. /\ o + i - 1 \in Window /\ slotWindow[i] = SlotAt(o + i - 1)
        /\ slotWindow'[i] = SlotAt(o + i - 1)'
    <3>1. i \in 1 .. Len(slotWindow) /\ i \in 1 .. Len(slotWindow')
      BY <1>5, <1>6
    <3>2. o + i - 1 \in Window /\ slotWindow[i] = SlotAt(o + i - 1)
      BY <1>i, <1>3, <3>1 DEF WindowShape
    <3>3. slotWindow'[i] = SlotAt(o + i - 1)'
      BY <1>i, <1>4, <3>1 DEF WindowShape
    <3> QED
      BY <3>2, <3>3
  <2> QED
    BY <1>i, <1>1, <2>1, OthersKept DEF Moving
<1>10. slotWindow'[n + 1] = SlotAt(r)'
  <2>1. o + (n + 1) - 1 = r /\ n + 1 \in 1 .. Len(slotWindow')
    BY <1>i, <1>4, <1>5, <1>6, <1>7
  <2> QED
    BY <1>i, <1>4, <2>1 DEF WindowShape
<1> HIDE DEF n
<1>11. slotWindow' = Append(slotWindow, [val |-> item[t], state |-> "reserved"])
  BY <1>5, <1>6, <1>8, <1>9, <1>10
<1> QED
  BY <1>1, <1>5, <1>6, <1>11 DEF RQ!QReserve, RQ!HasRoom, RQ!Slot

\* A step of the thread that has claimed a position of the window changes that slot only.
LEMMA StepUpdates ==
    ASSUME BothInv, NEW t \in Threads, EnqPublish(t) \/ DeqClaim(t), position[t] \in Window
    PROVE  \E i \in 1 .. Len(slotWindow), r \in Nat :
              /\ r = position[t] /\ OldestUnreleased + i - 1 = r
              /\ slotWindow[i] = SlotAt(r)
              /\ slotWindow' = [slotWindow EXCEPT ![i] = SlotAt(r)']
<1>i. /\ TypeOK /\ TypeOK' /\ ClaimInv /\ WindowInv /\ WindowInv' /\ WindowShape
      /\ \A p \in Window : p \in Nat /\ p < enqueuePos
  BY BothFacts
<1>1. \A p \in Nat : Released(p)' <=> Released(p)
  BY <1>i, MovingClaims DEF Kept
<1>2. PICK r \in Window : r = position[t]
  OBVIOUS
<1>3. enqueuePos' = enqueuePos /\ Moving(t)
  BY DEF EnqPublish, DeqClaim, Moving
<1>4. \A p \in Window : p # r => SlotAt(p)' = SlotAt(p)
  BY <1>2, <1>3, OthersKept
<1>5. PICK i \in 1 .. Len(slotWindow) :
          /\ OldestUnreleased + i - 1 = r
          /\ slotWindow' = [slotWindow EXCEPT ![i] = SlotAt(r)']
  BY <1>i, <1>1, <1>3, <1>4, WindowUpdated DEF BothInv
<1>6. slotWindow[i] = SlotAt(r)
  BY <1>i, <1>5 DEF WindowShape
<1> QED
  BY <1>i, <1>2, <1>5, <1>6

\* Every position that has been claimed and not released is in the window.
LEMMA LiveInWindow ==
    ASSUME TypeOK, WindowInv, NEW p \in Nat, p < enqueuePos, ~ Released(p)
    PROVE  p \in Window
<1>1. PICK o \in Nat : OldestUnreleased = o /\ IsOldest(o)
  BY OldestExists DEF HasOldest
<1>2. o <= p
  BY <1>1 DEF IsOldest
<1> QED
  BY <1>1, <1>2 DEF Window, TypeOK

LEMMA PublishPublishes ==
    ASSUME BothInv, NEW t \in Threads, EnqPublish(t)
    PROVE  \E i \in 1 .. Len(slotWindow) : RQ!QPublish(i)
<1>i. /\ TypeOK /\ TypeOK' /\ ClaimInv /\ WindowInv /\ WindowInv' /\ ItemInv /\ WindowShape
      /\ \A p \in Nat : SlotShape(p) /\ SlotShape(p)'
      /\ enqueuePos \in Nat /\ dequeuePos \in Nat
  BY BothFacts
<1>1. /\ pc[t] = "enqPublish" /\ pc'[t] = "idle" /\ item' = item /\ value' = value
      /\ UNCHANGED <<position, dequeuePos, enqueuePos>>
      /\ \A u \in Threads : u # t => pc'[u] = pc[u]
  BY <1>i DEF EnqPublish, Goto, TypeOK
<1>2. position[t] \in Window
  BY <1>i, <1>1, ClaimedIsLive, LiveInWindow DEF Producing
<1>3. PICK i \in 1 .. Len(slotWindow), r \in Nat :
              /\ r = position[t]
              /\ slotWindow[i] = SlotAt(r)
              /\ slotWindow' = [slotWindow EXCEPT ![i] = SlotAt(r)']
  BY <1>2, StepUpdates
<1>4. SlotAt(r) = [val |-> item[t], state |-> "reserved"]
  BY <1>i, <1>1, <1>3 DEF SlotShape, Producing
<1>5. SlotAt(r)' = [val |-> item[t], state |-> "ready"]
  <2>1. (~ Reserving(r))'
    BY <1>1, <1>3, <1>i, MovingClaims
  <2>2. (~ Taking(r))' /\ dequeuePos <= r
    <3>1. Reserving(r)
      BY <1>1, <1>3 DEF Reserving, Producing
    <3>2. dequeuePos <= r /\ ~ Taking(r)
      BY <3>1, ClaimsApart DEF BothInv, QueueInv
    <3> QED
      BY <1>1, <3>2 DEF Taking, Consuming
  <2>3. value[Cell(r)] = item[t]
    BY <1>i, <1>1, <1>3 DEF ItemInv
  <2>4. SlotAt(r)' = IF r < dequeuePos' THEN [val |-> NoValue, state |-> "released"]
                      ELSE [val |-> value'[Cell(r)], state |-> "ready"]
    BY <1>i, <2>1, <2>2 DEF SlotShape
  <2> QED
    BY <1>i, <1>1, <2>2, <2>3, <2>4
<1>6. slotWindow' = [slotWindow EXCEPT ![i].state = "ready"]
  <2>1. [slotWindow[i] EXCEPT !.state = "ready"] = SlotAt(r)'
    BY <1>3, <1>4, <1>5
  <2>2. slotWindow' = [slotWindow EXCEPT ![i] = [slotWindow[i] EXCEPT !.state = "ready"]]
    BY <1>3, <2>1
  <2> QED
    BY <2>2
<1>7. slotWindow[i].state = "reserved"
  BY <1>3, <1>4
<1> QED
  BY <1>6, <1>7 DEF RQ!QPublish

LEMMA ClaimTakes ==
    ASSUME BothInv, NEW t \in Threads, DeqClaim(t)
    PROVE  \E i \in 1 .. Len(slotWindow) : RQ!QTake(i)
<1>i. /\ TypeOK /\ TypeOK' /\ ClaimInv /\ WindowInv /\ WindowInv' /\ SeenInv
      /\ WindowShape
      /\ \A p \in Nat : SlotShape(p) /\ SlotShape(p)'
      /\ enqueuePos \in Nat /\ dequeuePos \in Nat
      /\ \A p \in Window : p \in Nat /\ p < enqueuePos
  BY BothFacts
<1>1. /\ pc[t] = "deqClaim" /\ pc'[t] = "deqMove" /\ value' = value /\ position[t] = dequeuePos
      /\ position' = position
  BY <1>i DEF DeqClaim, Goto, TypeOK, cells
<1>2. dequeuePos < enqueuePos /\ ~ Reserving(dequeuePos)
  <2>1. sequence[Cell(dequeuePos)] = dequeuePos + 1
    BY <1>i, <1>1 DEF SeenInv
  <2> QED
    BY <2>1, HeadIsPublished DEF BothInv
<1>3. ~ Released(dequeuePos)
  BY <1>i, ReleasedIs
<1>4. position[t] \in Window
  BY <1>i, <1>1, <1>2, <1>3, LiveInWindow
<1>5. PICK i \in 1 .. Len(slotWindow), r \in Nat :
              /\ r = position[t] /\ OldestUnreleased + i - 1 = r
              /\ slotWindow[i] = SlotAt(r)
              /\ slotWindow' = [slotWindow EXCEPT ![i] = SlotAt(r)']
  BY <1>4, StepUpdates
<1>6. SlotAt(r) = [val |-> value[Cell(r)], state |-> "ready"]
  <2>1. ~ Reserving(r) /\ ~ Taking(r) /\ ~ (r < dequeuePos)
    BY <1>i, <1>1, <1>2, <1>5, ClaimsApart DEF BothInv, QueueInv
  <2> QED
    BY <1>i, <2>1 DEF SlotShape
<1>7. SlotAt(r)' = [val |-> value[Cell(r)], state |-> "taken"]
  BY <1>i, <1>1, <1>5 DEF SlotShape
<1>8. slotWindow' = [slotWindow EXCEPT ![i].state = "taken"]
  <2>1. [slotWindow[i] EXCEPT !.state = "taken"] = SlotAt(r)'
    BY <1>5, <1>6, <1>7
  <2>2. slotWindow' = [slotWindow EXCEPT ![i] = [slotWindow[i] EXCEPT !.state = "taken"]]
    BY <1>5, <2>1
  <2> QED
    BY <2>2
<1>9. RQ!IsHead(i)
  <2>1. slotWindow[i].state = "ready"
    BY <1>5, <1>6
  <2>2. ASSUME NEW j \in 1 .. i - 1 PROVE slotWindow[j].state \in {"taken", "released"}
    <3>1. /\ j \in 1 .. Len(slotWindow) /\ OldestUnreleased + j - 1 \in Nat
          /\ slotWindow[j] = SlotAt(OldestUnreleased + j - 1)
          /\ OldestUnreleased + j - 1 < dequeuePos
      <4>1. OldestUnreleased \in Nat /\ Len(slotWindow) \in Nat
        <5>1. HasOldest
          BY <1>i, OldestExists
        <5> QED
          BY <1>i, <5>1 DEF HasOldest, WindowShape
      <4> QED
        BY <1>i, <1>1, <1>5, <4>1 DEF WindowShape
    <3>2. PICK p \in Nat : p = OldestUnreleased + j - 1
      BY <3>1
    <3>3. Released(p) \/ Taking(p)
      BY <3>1, <3>2, ReleasedIs
    <3> QED
      BY <1>i, <3>1, <3>2, <3>3, StateIs DEF BothInv, QueueInv
  <2> QED
    BY <1>5, <2>1, <2>2 DEF RQ!IsHead
<1>10. slotWindow[i].state = "ready"
  BY <1>5, <1>6
<1> QED
  BY <1>8, <1>9, <1>10 DEF RQ!QTake

\* The released slots at the front of q are those before the o-th.
LEMMA TrimmedIs ==
    ASSUME NEW q \in Seq(SlotType), NEW k \in 1 .. Len(q) + 1,
           \A j \in 1 .. k - 1 : q[j].state = "released",
           k <= Len(q) => q[k].state # "released"
    PROVE  RQ!Trimmed(q) = SubSeq(q, k, Len(q))
<1> DEFINE live == { i \in 1 .. Len(q) : q[i].state # "released" }
           first == CHOOSE i \in live : \A j \in live : i <= j
<1>1. RQ!Trimmed(q) = IF live = {} THEN <<>> ELSE SubSeq(q, first, Len(q))
  BY DEF RQ!Trimmed
<1>2. CASE k = Len(q) + 1
  <2>1. live = {}
    BY <1>2
  <2>2. SubSeq(q, k, Len(q)) = <<>>
    BY <1>2
  <2> QED
    BY <1>1, <2>1, <2>2
<1>3. CASE k <= Len(q)
  <2>1. k \in live /\ \A j \in live : k <= j
    BY <1>3
  <2>2. first = k
    <3>1. first \in live /\ \A j \in live : first <= j
      BY <2>1
    <3>2. first <= k /\ k <= first
      BY <2>1, <3>1
    <3>3. first \in 1 .. Len(q) /\ k \in 1 .. Len(q) /\ Len(q) \in Nat
      BY <2>1, <3>1
    <3> HIDE DEF first, live
    <3> QED
      BY <3>2, <3>3
  <2> QED
    BY <1>1, <2>1, <2>2
<1> QED
  BY <1>2, <1>3

ShowReleased == \A p \in Nat : SlotAt(p).state = "released" <=> Released(p)

LEMMA ReleasedShown == RingInv /\ WindowInv => ShowReleased
BY StateIs, SlotShapes DEF ShowReleased, SlotsShape

LEMMA ReleaseReleases ==
    ASSUME BothInv, NEW t \in Threads, DeqRelease(t)
    PROVE  \E i \in 1 .. Len(slotWindow) : RQ!QRelease(i)
<1>i. /\ TypeOK /\ TypeOK' /\ ClaimInv /\ WindowInv /\ WindowInv'
      /\ WindowShape /\ WindowShape'
      /\ \A p \in Nat : SlotShape(p) /\ SlotShape(p)'
      /\ enqueuePos \in Nat /\ dequeuePos \in Nat
      /\ HasOldest /\ HasOldest'
      /\ \A p \in Window : p \in Nat
  BY BothFacts
<1>1. /\ pc[t] = "deqRelease" /\ pc'[t] = "idle"
      /\ UNCHANGED <<position, dequeuePos, enqueuePos>>
  BY <1>i DEF DeqRelease, Goto, TypeOK
<1>2. position[t] \in Window
  BY <1>i, <1>1, ClaimedIsLive, LiveInWindow DEF Consuming
<1>3. PICK o \in Nat : OldestUnreleased = o /\ IsOldest(o)
  BY <1>i DEF HasOldest
<1>4. PICK n \in Nat : OldestUnreleased' = n /\ IsOldest(n)'
  BY <1>i DEF HasOldest
<1>5. PICK i \in 1 .. Len(slotWindow), r \in Window :
          r \in Nat /\ r = position[t] /\ o + i - 1 = r
  <2>1. PICK r \in Window : r = position[t]
    BY <1>2
  <2>2. r - o + 1 \in 1 .. Len(slotWindow) /\ r \in Nat
    BY <1>i, <1>3, <2>1 DEF WindowShape
  <2> QED
    BY <2>1, <2>2
<1>6. \A p \in Nat : Released(p)' <=> Released(p) \/ p = r
  BY <1>i, <1>5, MovingClaims
<1>7. SlotAt(r).state = "taken" /\ slotWindow[i] = SlotAt(r)
  <2>1. SlotAt(r) = [val |-> item[t], state |-> "taken"]
    BY <1>i, <1>1, <1>5 DEF SlotShape
  <2>2. slotWindow[i] = SlotAt(r)
    BY <1>i, <1>3, <1>5 DEF WindowShape
  <2> QED
    BY <2>1, <2>2
<1>8. SlotAt(r)' = [val |-> NoValue, state |-> "released"]
  <2>1. Released(r)'
    BY <1>5, <1>6
  <2>2. r < dequeuePos' /\ ~ Reserving(r)' /\ ~ Taking(r)'
    <3>1. Taking(r)
      BY <1>1, <1>5 DEF Taking, Consuming
    <3>2. ~ Reserving(r)
      BY <1>5, <3>1, ClaimsApart DEF BothInv, QueueInv
    <3>3. r < dequeuePos' /\ ~ Taking(r)'
      BY <2>1 DEF Released, Taking, ClaimedBy, Consuming
    <3>4. Reserving(r)' <=> Reserving(r)
      BY <1>i, MovingClaims
    <3> QED
      BY <3>2, <3>3, <3>4
  <2> QED
    BY <1>i, <2>2 DEF SlotShape
<1> DEFINE q == [slotWindow EXCEPT ![i] = [val |-> NoValue, state |-> "released"]]
           m == Len(slotWindow)
<1>9. q \in Seq(SlotType) /\ Len(q) = m /\ m = enqueuePos - o /\ m \in Nat /\ o <= enqueuePos
  <2>1. slotWindow \in Seq(SlotType) /\ m \in Nat /\ m = enqueuePos - o
    BY <1>i, <1>3 DEF WindowShape
  <2>2. [val |-> NoValue, state |-> "released"] \in SlotType
    BY DEF SlotType, RQ!SlotStates
  <2> QED
    BY <1>i, <2>1, <2>2
<1>10. \A j \in 1 .. m : o + j - 1 \in Nat /\ q[j] = SlotAt(o + j - 1)'
  <2>1. ASSUME NEW j \in 1 .. m PROVE o + j - 1 \in Nat /\ q[j] = SlotAt(o + j - 1)'
    <3>1. PICK p \in Window : p = o + j - 1 /\ slotWindow[j] = SlotAt(p)
      BY <1>i, <1>3 DEF WindowShape
    <3>2. CASE j = i
      BY <1>3, <1>5, <1>8, <1>9, <3>1, <3>2 DEF Window
    <3>3. CASE j # i
      <4>1. p # position[t]
        BY <1>3, <1>5, <1>9, <3>1, <3>3
      <4>2. SlotAt(p)' = SlotAt(p)
        BY <4>1, OthersKept DEF Moving
      <4> QED
        BY <1>3, <1>9, <3>1, <3>3, <4>2 DEF Window
    <3> QED
      BY <3>2, <3>3
  <2> QED
    BY <2>1
<1> HIDE DEF q, m
<1>11. \A j \in 1 .. m : q[j].state = "released" <=> Released(o + j - 1)'
  <2>1. ASSUME NEW p \in Nat PROVE SlotAt(p)'.state = "released" <=> Released(p)'
    <3>1. RingInv' /\ WindowInv'
      BY <1>i DEF BothInv
    <3>2. ShowReleased'
      BY <3>1, ReleasedShown, PTL
    <3> QED
      BY <3>2 DEF ShowReleased
  <2> QED
    BY <1>10, <2>1
<1>12. o <= n /\ n <= enqueuePos
  <2>1. /\ n = enqueuePos \/ ~ Released(n)'
        /\ \A p \in Nat : p < n => Released(p)'
        /\ n <= enqueuePos
    BY <1>i, <1>1, <1>4 DEF IsOldest, TypeOK
  <2>2. \A p \in Nat : p < o => Released(p)'
    BY <1>3, <1>6 DEF IsOldest
  <2> QED
    BY <1>9, <2>1, <2>2
<1> DEFINE k == n - o + 1
<1>13. /\ k \in 1 .. Len(q) + 1
       /\ \A j \in 1 .. k - 1 : q[j].state = "released"
       /\ k <= Len(q) => q[k].state # "released"
  <2>1. k \in 1 .. Len(q) + 1 /\ o + k - 1 = n
    BY <1>i, <1>9, <1>12
  <2>2. \A p \in Nat : p < n => Released(p)'
    BY <1>4 DEF IsOldest
  <2>3. \A j \in 1 .. k - 1 : j \in 1 .. m /\ o + j - 1 \in Nat /\ o + j - 1 < n
    BY <1>i, <1>9, <1>12
  <2>4. k <= Len(q) => ~ Released(n)' /\ k \in 1 .. m
    BY <1>1, <1>4, <1>9, <1>12 DEF IsOldest
  <2> HIDE DEF k
  <2> QED
    BY <1>11, <2>1, <2>2, <2>3, <2>4
<1>14. RQ!Trimmed(q) = SubSeq(q, k, Len(q))
  <2> HIDE DEF k
  <2> QED
    BY <1>9, <1>13, TrimmedIs
<1>15. slotWindow' = SubSeq(q, k, Len(q))
  <2>1. /\ slotWindow' \in Seq(SlotType) /\ Len(slotWindow') = enqueuePos - n
        /\ \A j \in 1 .. enqueuePos - n : slotWindow'[j] = SlotAt(n + j - 1)'
    BY <1>i, <1>1, <1>4, <1>12 DEF WindowShape, SlotType
  <2>2. Len(q) - k + 1 = enqueuePos - n /\ enqueuePos - n \in Nat /\ k \in Nat
    BY <1>9, <1>12, <1>i
  <2>3. ASSUME NEW j \in 1 .. enqueuePos - n PROVE q[k + j - 1] = SlotAt(n + j - 1)'
    <3>1. k + j - 1 \in 1 .. m /\ o + (k + j - 1) - 1 = n + j - 1
      BY <1>9, <1>12, <1>i
    <3> QED
      BY <1>10, <3>1
  <2> HIDE DEF k
  <2>4. /\ SubSeq(q, k, Len(q)) \in Seq(SlotType)
        /\ Len(SubSeq(q, k, Len(q))) = enqueuePos - n
        /\ \A j \in 1 .. enqueuePos - n : SubSeq(q, k, Len(q))[j] = q[k + j - 1]
    BY <1>9, <1>13, <2>2
  <2> QED
    BY <2>1, <2>2, <2>3, <2>4
<1>16. slotWindow' = RQ!Trimmed([slotWindow EXCEPT ![i] = RQ!Slot(NoValue, "released")])
  BY <1>14, <1>15 DEF q, RQ!Slot
<1>17. slotWindow[i].state = "taken"
  BY <1>7
<1> QED
  BY <1>16, <1>17 DEF RQ!QRelease


\* Each step of a thread is one operation of the queue of slots, or none.
LEMMA StepImplements == BothInv /\ [Next]_vars => [RQ!QNext]_slotWindow
<1> SUFFICES ASSUME BothInv, [Next]_vars PROVE [RQ!QNext]_slotWindow
  OBVIOUS
<1>1. CASE Quiet
  BY <1>1, QuietStutters
<1>2. ASSUME NEW t \in Threads, Moving(t) PROVE [RQ!QNext]_slotWindow
  <2>1. CASE EnqClaim(t)
    BY <2>1, ClaimReserves DEF RQ!QNext
  <2>2. CASE EnqPublish(t)
    BY <2>2, PublishPublishes DEF RQ!QNext
  <2>3. CASE DeqClaim(t)
    BY <2>3, ClaimTakes DEF RQ!QNext
  <2>4. CASE DeqRelease(t)
    BY <2>4, ReleaseReleases DEF RQ!QNext
  <2>5. CASE EnqMove(t) \/ DeqMove(t)
    BY <2>5, MoveStutters
  <2> QED
    BY <1>2, <2>1, <2>2, <2>3, <2>4, <2>5 DEF Moving
<1> QED
  BY <1>1, <1>2, QuietOrMoving DEF BothInv, RingInv

LEMMA InitImplements == Init => RQ!QInit
<1> SUFFICES ASSUME Init PROVE slotWindow = <<>>
  BY DEF RQ!QInit
<1>1. WindowShape /\ HasOldest
  BY RingInit, QueueInit, WindowIs, OldestExists DEF RingInv, QueueInv
<1>2. slotWindow \in Seq(SlotType) /\ Len(slotWindow) = 0
  BY <1>1 DEF WindowShape, HasOldest, IsOldest, Init
<1> QED
  BY <1>2

\* What ties cells and claims to one window of positions holds of every reachable state.
THEOREM RingQueueInvariant == Spec => [](RingInv /\ QueueInv)
<1>1. Init => RingInv /\ QueueInv
  BY RingInit, QueueInit
<1>2. RingInv /\ QueueInv /\ [Next]_vars => RingInv' /\ QueueInv'
  BY TypesNext, SafeNext, QueueNext DEF RingInv
<1> QED
  BY <1>1, <1>2, PTL DEF Spec

\* The ring is a bounded FIFO of slots for any capacity, any number of threads and any
\* number of calls: no step of TryEnqueue or TryDequeue loses, repeats, reorders or tears a
\* value.
THEOREM RingImplementsReservationQueue == Spec => ImplementsReservationQueue
<1>1. RingInv /\ QueueInv /\ (RingInv /\ QueueInv)' /\ [Next]_vars => [RQ!QNext]_slotWindow
  BY StepImplements DEF BothInv
<1> QED
  BY <1>1, InitImplements, RingQueueInvariant, PTL DEF Spec, ImplementsReservationQueue, RQ!QSpec


(***************************************************************************)
(* Refusals.                                                               *)
(***************************************************************************)

\* A refusal is true: what the thread has compared with can only be old if it is too large.
LEMMA EnqueueRefusalIsTrue ==
    ASSUME RingInv, QueueInv, NEW t \in Threads, EnqRefused(t)
    PROVE  ~ RQ!HasRoom
<1>i. /\ TypeOK /\ WindowInv /\ SeenInv /\ CellInv /\ LagInv /\ ClaimInv
      /\ enqueuePos \in Nat /\ dequeuePos \in Nat /\ Capacity \in Nat /\ Capacity >= 2
      /\ WindowShape /\ HasOldest
  BY RingAssumption, WindowIs, OldestExists DEF RingInv, QueueInv, TypeOK
<1>1. PICK p \in Nat : p = position[t]
  BY <1>i DEF TypeOK
<1>2. p <= enqueuePos /\ sequence[Cell(p)] < p /\ sequence[Cell(p)] \in Nat
  BY <1>i, <1>1, CellProperties DEF EnqRefused, Goto, SeenInv, TypeOK
<1>3. p = enqueuePos
  BY <1>i, <1>2 DEF LagInv
<1>4. ~ (p < Capacity)
  BY <1>i, <1>2, <1>3 DEF CellInv
<1>5. PICK q \in Nat : q + Capacity = p
  BY <1>i, <1>4
<1>6. Cell(q) = Cell(p) /\ q < enqueuePos /\ enqueuePos <= q + Capacity
  BY <1>i, <1>3, <1>5, NextLap
<1>7. ~ Released(q)
  BY <1>2, <1>5, <1>6, <1>i DEF CellInv
<1>8. PICK o \in Nat : OldestUnreleased = o /\ IsOldest(o)
  BY <1>i DEF HasOldest
<1>9. o <= q
  BY <1>7, <1>8 DEF IsOldest
<1>10. Len(slotWindow) = enqueuePos - o
  BY <1>i, <1>8 DEF WindowShape
<1> QED
  BY <1>i, <1>3, <1>5, <1>9, <1>10 DEF RQ!HasRoom

LEMMA DequeueRefusalIsTrue ==
    ASSUME RingInv, QueueInv, NEW t \in Threads, DeqRefused(t)
    PROVE  ~ RQ!HeadReady
<1>i. /\ TypeOK /\ WindowInv /\ SeenInv /\ CellInv /\ LagInv /\ ClaimInv
      /\ enqueuePos \in Nat /\ dequeuePos \in Nat /\ Capacity \in Nat /\ Capacity >= 2
      /\ WindowShape /\ HasOldest
      /\ \A p \in Nat : SlotShape(p)
  BY RingAssumption, WindowIs, OldestExists, SlotShapes DEF RingInv, QueueInv, TypeOK, SlotsShape
<1>1. PICK p \in Nat : p = position[t]
  BY <1>i DEF TypeOK
<1>2. p <= dequeuePos /\ sequence[Cell(p)] < p + 1 /\ sequence[Cell(p)] \in Nat
  BY <1>i, <1>1, CellProperties DEF DeqRefused, Goto, SeenInv, TypeOK
<1>3. p = dequeuePos
  BY <1>i, <1>2 DEF LagInv
<1>4. p = enqueuePos \/ Reserving(p)
  <2> SUFFICES ASSUME p < enqueuePos, ~ Reserving(p) PROVE FALSE
    BY <1>3, <1>i DEF WindowInv
  <2>1. ~ Released(p)
    BY <1>3, <1>i, ReleasedIs
  <2>2. enqueuePos <= p + Capacity
    BY <2>1, <1>i DEF WindowInv
  <2> QED
    BY <1>2, <2>1, <2>2, <1>i DEF CellInv
<1>5. ASSUME NEW i \in 1 .. Len(slotWindow), RQ!IsHead(i), slotWindow[i].state = "ready"
      PROVE FALSE
  <2>1. PICK o \in Nat : OldestUnreleased = o /\ IsOldest(o)
    BY <1>i DEF HasOldest
  <2>2. Len(slotWindow) = enqueuePos - o /\ o <= enqueuePos /\ o <= p
    BY <1>i, <1>3, <2>1 DEF WindowShape, IsOldest
  <2>3. PICK q \in Nat : q = o + i - 1 /\ q < enqueuePos /\ slotWindow[i] = SlotAt(q)
    <3>1. slotWindow[i] = SlotAt(o + i - 1)
      BY <1>i, <2>1 DEF WindowShape
    <3>2. enqueuePos \in Nat
      BY <1>i DEF TypeOK
    <3>3. o + i - 1 \in Nat /\ o + i - 1 < enqueuePos
      BY <2>2, <3>2
    <3> QED
      BY <3>1, <3>3
  <2>4. dequeuePos <= q /\ ~ Reserving(q)
    BY <1>5, <2>3, <1>i, StateIs DEF QueueInv
  <2>5. p < q /\ Reserving(p)
    BY <1>3, <1>4, <2>3, <2>4, <1>i
  <2>6. p - o + 1 \in 1 .. i - 1 /\ slotWindow[p - o + 1] = SlotAt(p)
    <3>1. p \in Window
      BY <1>i, <2>1, <2>2, <2>3, <2>5 DEF Window
    <3> QED
      BY <1>i, <2>1, <2>2, <2>3, <2>5, <3>1 DEF WindowShape
  <2>7. SlotAt(p).state \in {"taken", "released"}
    BY <1>5, <2>6 DEF RQ!IsHead
  <2>8. SlotAt(p).state = "reserved"
    BY <2>5, <1>i, StateIs DEF QueueInv
  <2> QED
    BY <2>7, <2>8
<1> QED
  BY <1>5 DEF RQ!HeadReady

\* TryEnqueue answers full only when the slots fill the capacity, and TryDequeue answers
\* empty only when the oldest slot nobody has taken is not published.
THEOREM RingRefusalsAreTrue == Spec => RefusalsAreTrue
<1>1. RingInv /\ QueueInv =>
          \A t \in Threads : /\ EnqRefused(t) => ~ RQ!HasRoom
                             /\ DeqRefused(t) => ~ RQ!HeadReady
  BY EnqueueRefusalIsTrue, DequeueRefusalIsTrue
<1> QED
  BY <1>1, RingQueueInvariant, PTL DEF Spec, RefusalsAreTrue

-------------------------------------------------------------------------------
(* The capacity.  Recursive functions are reasoned about with the set of   *)
(* the arguments for which something holds, instead of induction.          *)

\* A set that has 0 and with every number the next one has all of them up to n.
LEMMA Upwards ==
    ASSUME NEW n \in Nat, NEW G,
           0 \in G, \A i \in 1 .. n : i - 1 \in G => i \in G
    PROVE  \A i \in 0 .. n : i \in G
<1> DEFINE Bad == { i \in 0 .. n : i \notin G }
           R == { ss \in Nat \X Nat : ss[1] < ss[2] }
<1> SUFFICES ASSUME Bad # {} PROVE FALSE
  OBVIOUS
<1>1. IsWellFoundedOn(R, Nat)
  BY NatLessThanWellFounded DEF OpToRel
<1>2. \A p, q \in Bad : q < p => <<q, p>> \in R
  OBVIOUS
<1>3. Bad \in SUBSET Nat
  OBVIOUS
<1>4. PICK p \in Bad : \A q \in Bad : ~ (<<q, p>> \in R)
  <2> HIDE DEF R, Bad
  <2> QED
    BY <1>1, <1>3, WFMin
<1>5. p \in 1 .. n /\ p - 1 \in 0 .. n /\ p - 1 < p
  OBVIOUS
<1>6. p - 1 \in G
  <2>1. p - 1 \notin G => p - 1 \in Bad
    BY <1>5
  <2> HIDE DEF R, Bad
  <2> QED
    BY <1>2, <1>4, <1>5, <2>1
<1> QED
  BY <1>5, <1>6

\* A function on 0 .. n may be defined from its values at smaller arguments; S is the step.
Recurs(f, n, z, S) ==
    f[0] = z /\ \A i \in 1 .. n : f[i] = S[<<i, f[i - 1]>>]

LEMMA Recursion ==
    ASSUME NEW D, NEW z \in D, NEW n \in Nat, NEW S \in [(1 .. n) \X D -> D]
    PROVE  \E f \in [0 .. n -> D] : Recurs(f, n, z, S)
<1> USE DEF Recurs
<1> DEFINE Has(m) == \E f \in [0 .. m -> D] : Recurs(f, m, z, S)
           G == { m \in 0 .. n : Has(m) }
<1>1. 0 \in G
  <2> DEFINE f == [i \in 0 .. 0 |-> z]
  <2>1. f \in [0 .. 0 -> D] /\ f[0] = z /\ 1 .. 0 = {}
    OBVIOUS
  <2> HIDE DEF f
  <2>2. Has(0)
    BY <2>1
  <2> QED
    BY <2>2
<1>2. ASSUME NEW m \in 1 .. n, m - 1 \in G PROVE m \in G
  <2>1. PICK g \in [0 .. m - 1 -> D] :
            g[0] = z /\ \A i \in 1 .. m - 1 : g[i] = S[<<i, g[i - 1]>>]
    BY <1>2
  <2> DEFINE f == [i \in 0 .. m |-> IF i = m THEN S[<<m, g[m - 1]>>] ELSE g[i]]
  <2>2. /\ m \in Nat /\ m # 0 /\ m - 1 \in 0 .. m - 1 /\ 0 \in 0 .. m - 1
        /\ g[m - 1] \in D /\ <<m, g[m - 1]>> \in (1 .. n) \X D
    OBVIOUS
  <2>3. f \in [0 .. m -> D]
    BY <2>2
  <2>4. f[0] = z /\ f[m] = S[<<m, g[m - 1]>>] /\ \A i \in 0 .. m - 1 : f[i] = g[i]
    BY <2>1, <2>2
  <2> HIDE DEF f
  <2>5. ASSUME NEW i \in 1 .. m PROVE f[i] = S[<<i, f[i - 1]>>]
    <3>1. CASE i = m
      <4>1. f[m - 1] = g[m - 1]
        BY <2>2, <2>4
      <4> QED
        BY <3>1, <2>4, <4>1
    <3>2. CASE i # m
      <4>1. i \in 1 .. m - 1 /\ i \in 0 .. m - 1 /\ i - 1 \in 0 .. m - 1
        BY <3>2, <2>2
      <4> QED
        BY <2>1, <2>4, <4>1
    <3> QED
      BY <3>1, <3>2
  <2>6. Has(m)
    BY <2>3, <2>4, <2>5
  <2> HIDE DEF Has
  <2> QED
    BY <2>6
<1> HIDE DEF G, Has
<1>3. n \in G
  BY <1>1, <1>2, Upwards
<1> QED
  BY <1>3 DEF G, Has

\* Powers of two.
LEMMA TwoToSteps ==
    /\ TwoTo[0] = 1
    /\ \A i \in 1 .. Width : TwoTo[i] = 2 * TwoTo[i - 1]
    /\ \A i \in 0 .. Width : TwoTo[i] \in Nat \ {0}
<1> DEFINE S == [x \in (1 .. Width) \X Nat |-> 2 * x[2]]
           Is(f) == f = [i \in 0 .. Width |-> IF i = 0 THEN 1 ELSE 2 * f[i - 1]]
<1>w. Width \in Nat
  BY WidthAssumption
<1>1. S \in [(1 .. Width) \X Nat -> Nat]
  OBVIOUS
<1>2. PICK f \in [0 .. Width -> Nat] : Recurs(f, Width, 1, S)
  <2> HIDE DEF S
  <2> QED
    BY <1>w, <1>1, Recursion
<1>3. ASSUME NEW i \in 0 .. Width PROVE f[i] = IF i = 0 THEN 1 ELSE 2 * f[i - 1]
  <2>1. i # 0 => i \in 1 .. Width /\ f[i - 1] \in Nat
    BY <1>w
  <2>2. f[0] = 1 /\ \A k \in 1 .. Width : f[k] = S[<<k, f[k - 1]>>]
    BY <1>2 DEF Recurs
  <2> QED
    BY <2>1, <2>2
<1>4. Is(f)
  <2>1. f = [i \in 0 .. Width |-> f[i]]
    BY <1>2
  <2> HIDE DEF S
  <2> QED
    BY <1>3, <2>1
<1>5. Is(TwoTo)
  <2>1. TwoTo = CHOOSE g : Is(g)
    BY DEF TwoTo
  <2> QED
    BY <1>4, <2>1
<1>6. \A i \in 0 .. Width : TwoTo[i] = IF i = 0 THEN 1 ELSE 2 * TwoTo[i - 1]
  BY <1>5
<1>7. TwoTo[0] = 1 /\ \A i \in 1 .. Width : TwoTo[i] = 2 * TwoTo[i - 1]
  BY <1>6, <1>w
<1> DEFINE G == { i \in 0 .. Width : TwoTo[i] \in Nat \ {0} }
<1>8. 0 \in G
  BY <1>7, <1>w
<1>9. ASSUME NEW i \in 1 .. Width, i - 1 \in G PROVE i \in G
  <2>1. TwoTo[i - 1] \in Nat \ {0} /\ TwoTo[i] = 2 * TwoTo[i - 1]
    BY <1>7, <1>9
  <2> QED
    BY <2>1, <1>w
<1>10. \A i \in 0 .. Width : i \in G
  <2> HIDE DEF G
  <2> QED
    BY <1>w, <1>8, <1>9, Upwards
<1> QED
  BY <1>7, <1>10

LEMMA TwoToGrows ==
    ASSUME NEW j \in 0 .. Width, NEW i \in 0 .. j
    PROVE  TwoTo[i] <= TwoTo[j] /\ (i < j => TwoTo[i] < TwoTo[j])
<1>w. Width \in Nat
  BY WidthAssumption
<1> DEFINE Grows(m, k) == TwoTo[k] <= TwoTo[m] /\ (k < m => TwoTo[k] < TwoTo[m])
           G == { m \in 0 .. Width : \A k \in 0 .. m : Grows(m, k) }
<1>1. 0 \in G
  BY <1>w, TwoToSteps
<1>2. ASSUME NEW m \in 1 .. Width, m - 1 \in G PROVE m \in G
  <2>1. TwoTo[m - 1] \in Nat \ {0} /\ TwoTo[m] = 2 * TwoTo[m - 1] /\ TwoTo[m] \in Nat
    BY TwoToSteps, <1>w
  <2>2. ASSUME NEW k \in 0 .. m PROVE Grows(m, k)
    <3>1. CASE k = m
      BY <3>1, <2>1
    <3>2. CASE k # m
      <4>1. k \in 0 .. m - 1 /\ TwoTo[k] \in Nat
        BY <3>2, <1>w, TwoToSteps
      <4>2. TwoTo[k] <= TwoTo[m - 1]
        BY <1>2, <4>1
      <4> QED
        BY <2>1, <4>1, <4>2
    <3> QED
      BY <3>1, <3>2
  <2> QED
    BY <1>w, <2>2
<1>3. j \in G
  <2> HIDE DEF G
  <2> QED
    BY <1>w, <1>1, <1>2, Upwards
<1> QED
  BY <1>3

LEMMA ShiftsEnough == Shifts \in 1 .. Width /\ TwoTo[Shifts] = Width
BY WidthAssumption DEF Shifts

\* The highest bit of a word.
LEMMA HighestBit ==
    ASSUME NEW m \in 1 .. TwoTo[Width] - 1
    PROVE  \E h \in 0 .. Width - 1 : TwoTo[h] <= m /\ m < TwoTo[h + 1]
<1>w. Width \in Nat /\ Width \in 0 .. Width /\ TwoTo[Width] \in Nat /\ m \in Nat
  BY WidthAssumption, TwoToSteps
<1> DEFINE G == { i \in 0 .. Width : TwoTo[i] <= m }
<1>1. SUFFICES ASSUME \A i \in 1 .. Width : i - 1 \in G => i \in G
               PROVE  FALSE
  <2>1. PICK i \in 1 .. Width : i - 1 \in G /\ i \notin G
    BY <1>1
  <2>2. /\ i - 1 \in 0 .. Width - 1 /\ i \in 0 .. Width /\ (i - 1) + 1 = i
        /\ TwoTo[i] \in Nat
    BY <1>w, TwoToSteps
  <2>3. TwoTo[i - 1] <= m /\ m < TwoTo[i]
    BY <1>w, <2>1, <2>2
  <2> QED
    BY <2>2, <2>3
<1>2. 0 \in G
  BY <1>w, TwoToSteps
<1>3. Width \in G
  <2> HIDE DEF G
  <2> QED
    BY <1>w, <1>1, <1>2, Upwards
<1> QED
  BY <1>w, <1>3

LEMMA QuotientOne ==
    ASSUME NEW a \in Nat \ {0}, NEW m \in Nat, a <= m, m < 2 * a
    PROVE  (m \div a) % 2 = 1
<1>1. m \div a = 1
  OBVIOUS
<1> QED
  BY <1>1

LEMMA QuotientZero ==
    ASSUME NEW a \in Nat \ {0}, NEW m \in Nat, m < a
    PROVE  (m \div a) % 2 = 0
<1>1. m \div a = 0
  OBVIOUS
<1> QED
  BY <1>1

LEMMA BitsUpToHighest ==
    ASSUME NEW m \in Nat, NEW h \in 0 .. Width - 1, TwoTo[h] <= m, m < TwoTo[h + 1]
    PROVE  Bits(m) \subseteq 0 .. h /\ h \in Bits(m)
<1>w. Width \in Nat /\ h \in 0 .. Width /\ h + 1 \in 1 .. Width /\ (h + 1) - 1 = h
  BY WidthAssumption
<1>1. TwoTo[h] \in Nat \ {0} /\ TwoTo[h + 1] = 2 * TwoTo[h]
  BY <1>w, TwoToSteps
<1>2. (m \div TwoTo[h]) % 2 = 1
  BY <1>1, QuotientOne
<1>3. ASSUME NEW i \in 0 .. Width - 1, h < i PROVE (m \div TwoTo[i]) % 2 = 0
  <2>1. i \in 0 .. Width /\ h + 1 \in 0 .. i
    BY <1>w, <1>3
  <2>2. TwoTo[h + 1] <= TwoTo[i] /\ TwoTo[i] \in Nat \ {0} /\ TwoTo[h + 1] \in Nat
    BY <2>1, <1>w, TwoToGrows, TwoToSteps
  <2>3. m < TwoTo[i]
    BY <2>2
  <2> QED
    BY <2>2, <2>3, QuotientZero
<1>4. ASSUME NEW i \in Bits(m) PROVE i \in 0 .. h
  <2>1. i \in 0 .. Width - 1 /\ (m \div TwoTo[i]) % 2 = 1
    BY DEF Bits
  <2>2. ~ (h < i)
    BY <2>1, <1>3
  <2> QED
    BY <2>1, <2>2, <1>w
<1> QED
  BY <1>2, <1>4 DEF Bits

\* The words of RoundUpPowerOfTwo after each shift.
Filling(m, f) ==
    f = [j \in 0 .. Shifts |->
            IF j = 0 THEN Bits(m) ELSE f[j - 1] \cup ShiftR(f[j - 1], TwoTo[j - 1])]

LEMMA FillingExists ==
    ASSUME NEW m
    PROVE  \E f : Filling(m, f)
<1> DEFINE Word == SUBSET (0 .. Width - 1)
           S == [x \in (1 .. Shifts) \X Word |-> x[2] \cup ShiftR(x[2], TwoTo[x[1] - 1])]
<1>1. Bits(m) \in Word /\ Shifts \in Nat
  BY ShiftsEnough, WidthAssumption DEF Bits
<1>2. S \in [(1 .. Shifts) \X Word -> Word]
  BY DEF ShiftR
<1>3. \A i \in 1 .. Shifts, w \in Word : S[<<i, w>>] = w \cup ShiftR(w, TwoTo[i - 1])
  OBVIOUS
<1> HIDE DEF S, Word
<1>4. PICK f \in [0 .. Shifts -> Word] : Recurs(f, Shifts, Bits(m), S)
  BY <1>1, <1>2, Recursion
<1>5. ASSUME NEW j \in 0 .. Shifts
      PROVE  f[j] = IF j = 0 THEN Bits(m) ELSE f[j - 1] \cup ShiftR(f[j - 1], TwoTo[j - 1])
  <2>1. f[0] = Bits(m) /\ \A i \in 1 .. Shifts : f[i] = S[<<i, f[i - 1]>>]
    BY <1>4 DEF Recurs
  <2>2. j # 0 => j \in 1 .. Shifts /\ f[j - 1] \in Word
    BY <1>1
  <2> QED
    BY <1>3, <2>1, <2>2
<1>6. f = [j \in 0 .. Shifts |-> f[j]]
  BY <1>4
<1> QED
  BY <1>5, <1>6 DEF Filling

\* Each shift doubles the run of ones below the highest bit.
LEMMA FillingFills ==
    ASSUME NEW m, NEW f, Filling(m, f), NEW h \in 0 .. Width - 1,
           Bits(m) \subseteq 0 .. h, h \in Bits(m)
    PROVE  f[Shifts] = 0 .. h
<1>w. Width \in Nat /\ h \in Nat /\ Shifts \in Nat /\ Shifts \in 0 .. Shifts
  BY WidthAssumption, ShiftsEnough
<1>1. /\ f[0] = Bits(m)
      /\ \A j \in 1 .. Shifts : f[j] = f[j - 1] \cup ShiftR(f[j - 1], TwoTo[j - 1])
  <2>1. \A j \in 0 .. Shifts :
            f[j] = IF j = 0 THEN Bits(m) ELSE f[j - 1] \cup ShiftR(f[j - 1], TwoTo[j - 1])
    BY DEF Filling
  <2>2. 0 \in 0 .. Shifts /\ \A j \in 1 .. Shifts : j \in 0 .. Shifts /\ j # 0
    BY <1>w
  <2> HIDE DEF Filling
  <2> QED
    BY <2>1, <2>2, Zenon
<1> DEFINE G == { j \in 0 .. Shifts : /\ f[j] \subseteq 0 .. h
                                      /\ \A i \in 0 .. h : h < i + TwoTo[j] => i \in f[j] }
<1>2. 0 \in G
  <2>1. \A i \in 0 .. h : h < i + 1 => i = h
    BY <1>w
  <2> QED
    BY <1>1, <1>w, <2>1, TwoToSteps
<1>3. ASSUME NEW j \in 1 .. Shifts, j - 1 \in G PROVE j \in G
  <2>1. /\ j \in 1 .. Width /\ j \in 0 .. Width /\ j - 1 \in 0 .. Width
        /\ TwoTo[j] = 2 * TwoTo[j - 1] /\ TwoTo[j - 1] \in Nat
    BY ShiftsEnough, TwoToSteps, <1>w
  <2> DEFINE t == TwoTo[j - 1]
             w == f[j - 1]
  <2>2. w \subseteq 0 .. h /\ \A i \in 0 .. h : h < i + t => i \in w
    BY <1>3
  <2>3. f[j] = w \cup ShiftR(w, t)
    BY <1>1
  <2>4. t \in Nat /\ TwoTo[j] = 2 * t
    BY <2>1
  <2> HIDE DEF t, w
  <2>5. ASSUME NEW i \in ShiftR(w, t) PROVE i \in 0 .. h
    <3>1. i \in 0 .. Width - 1 /\ i + t \in 0 .. h
      BY <2>2 DEF ShiftR
    <3> QED
      BY <3>1, <1>w, <2>4
  <2>6. ASSUME NEW i \in 0 .. h, h < i + TwoTo[j] PROVE i \in f[j]
    <3>1. CASE h < i + t
      BY <3>1, <2>2, <2>3
    <3>2. CASE ~ (h < i + t)
      <4>1. i + t \in 0 .. h /\ h < (i + t) + t /\ i \in 0 .. Width - 1
        BY <3>2, <2>4, <2>6, <1>w
      <4>2. i + t \in w
        BY <4>1, <2>2
      <4> QED
        BY <4>1, <4>2, <2>3 DEF ShiftR
    <3> QED
      BY <3>1, <3>2
  <2>7. f[j] \subseteq 0 .. h
    BY <2>2, <2>3, <2>5
  <2>8. j \in 0 .. Shifts
    BY <1>w
  <2> QED
    BY <2>6, <2>7, <2>8
<1>4. Shifts \in G
  <2> HIDE DEF G
  <2> QED
    BY <1>w, <1>2, <1>3, Upwards
<1>5. \A i \in 0 .. h : h < i + TwoTo[Shifts]
  BY <1>w, ShiftsEnough
<1> QED
  BY <1>4, <1>5

\* The running sums of NumberOf.
Sums(bits, f) ==
    f = [i \in 0 .. Width |->
            IF i = 0 THEN 0 ELSE f[i - 1] + (IF i - 1 \in bits THEN TwoTo[i - 1] ELSE 0)]

LEMMA SumsExist ==
    ASSUME NEW bits
    PROVE  \E f : Sums(bits, f)
<1> DEFINE S == [x \in (1 .. Width) \X Nat |->
                    x[2] + (IF x[1] - 1 \in bits THEN TwoTo[x[1] - 1] ELSE 0)]
<1>1. Width \in Nat /\ \A i \in 1 .. Width : i - 1 \in 0 .. Width /\ TwoTo[i - 1] \in Nat
  BY TwoToSteps, WidthAssumption
<1>2. S \in [(1 .. Width) \X Nat -> Nat]
  BY <1>1
<1>3. \A i \in 1 .. Width, n \in Nat :
          S[<<i, n>>] = n + (IF i - 1 \in bits THEN TwoTo[i - 1] ELSE 0)
  OBVIOUS
<1> HIDE DEF S
<1>4. PICK f \in [0 .. Width -> Nat] : Recurs(f, Width, 0, S)
  BY <1>1, <1>2, Recursion
<1>5. ASSUME NEW i \in 0 .. Width
      PROVE  f[i] = IF i = 0 THEN 0
                    ELSE f[i - 1] + (IF i - 1 \in bits THEN TwoTo[i - 1] ELSE 0)
  <2>1. f[0] = 0 /\ \A k \in 1 .. Width : f[k] = S[<<k, f[k - 1]>>]
    BY <1>4 DEF Recurs
  <2>2. i # 0 => i \in 1 .. Width /\ f[i - 1] \in Nat
    BY <1>1
  <2> QED
    BY <1>3, <2>1, <2>2
<1>6. f = [i \in 0 .. Width |-> f[i]]
  BY <1>4
<1>7. Sums(bits, f)
  BY <1>5, <1>6, Zenon DEF Sums
<1> QED
  BY <1>7

\* A word of ones is one less than the next power of two.
LEMMA NumberOfOnes ==
    ASSUME NEW h \in 0 .. Width - 1
    PROVE  NumberOf(0 .. h) = TwoTo[h + 1] - 1
<1> DEFINE f == CHOOSE g : Sums(0 .. h, g)
<1>1. Sums(0 .. h, f)
  BY SumsExist
<1>2. NumberOf(0 .. h) = f[Width]
  BY DEF NumberOf, Sums
<1> HIDE DEF f
<1>w. /\ Width \in Nat /\ h \in Nat /\ Width \in 0 .. Width /\ h + 1 \in 1 .. Width
      /\ TwoTo[h + 1] \in Nat
  BY WidthAssumption, TwoToSteps
<1>3. /\ f[0] = 0
      /\ \A i \in 1 .. Width :
             f[i] = f[i - 1] + (IF i - 1 \in 0 .. h THEN TwoTo[i - 1] ELSE 0)
  <2>1. \A i \in 0 .. Width :
            f[i] = IF i = 0 THEN 0
                   ELSE f[i - 1] + (IF i - 1 \in 0 .. h THEN TwoTo[i - 1] ELSE 0)
    BY <1>1 DEF Sums
  <2> QED
    BY <2>1, <1>w
<1> DEFINE G == { i \in 0 .. Width :
                    f[i] = IF i <= h + 1 THEN TwoTo[i] - 1 ELSE TwoTo[h + 1] - 1 }
<1>4. 0 \in G
  BY <1>3, <1>w, TwoToSteps
<1>5. ASSUME NEW i \in 1 .. Width, i - 1 \in G PROVE i \in G
  <2>1. /\ i \in 0 .. Width /\ i - 1 \in 0 .. Width
        /\ TwoTo[i] = 2 * TwoTo[i - 1] /\ TwoTo[i - 1] \in Nat
    BY <1>w, TwoToSteps
  <2>2. CASE i <= h + 1
    <3>1. f[i - 1] = TwoTo[i - 1] - 1 /\ f[i] = f[i - 1] + TwoTo[i - 1]
      BY <1>3, <1>5, <2>2, <1>w
    <3> QED
      BY <2>1, <2>2, <3>1
  <2>3. CASE ~ (i <= h + 1)
    <3>1. i - 1 \notin 0 .. h
      BY <2>3, <1>w
    <3>2. f[i - 1] = TwoTo[h + 1] - 1
      <4>1. i - 1 = h + 1 \/ ~ (i - 1 <= h + 1)
        BY <2>3, <1>w
      <4> QED
        BY <1>5, <4>1
    <3>3. f[i] = f[i - 1] + 0
      BY <1>3, <3>1
    <3> QED
      BY <2>1, <2>3, <3>2, <3>3, <1>w
  <2> QED
    BY <2>2, <2>3
<1>6. Width \in G
  <2> HIDE DEF G
  <2> QED
    BY <1>w, <1>4, <1>5, Upwards
<1>7. Width <= h + 1 => Width = h + 1
  BY <1>w
<1> QED
  BY <1>2, <1>6, <1>7

Normalized(size) == (IF size < 2 THEN 2 ELSE size) - 1

\* What comes out is the power of two above the highest bit of the size less one.
LEMMA RoundUpIs ==
    ASSUME NEW size \in 0 .. TwoTo[Width] - 1
    PROVE  \E h \in 0 .. Width - 1 :
              /\ TwoTo[h] <= Normalized(size) /\ Normalized(size) < TwoTo[h + 1]
              /\ RoundUpPowerOfTwo(size) = TwoTo[h + 1] % TwoTo[Width]
<1> DEFINE m == Normalized(size)
           f == CHOOSE g : Filling(m, g)
<1>w. /\ Width \in Nat /\ Width \in 0 .. Width /\ 1 \in 0 .. Width /\ 1 \in 1 .. Width
      /\ TwoTo[Width] \in Nat
  BY WidthAssumption, TwoToSteps
<1>1. m \in 1 .. TwoTo[Width] - 1 /\ m \in Nat
  <2>1. TwoTo[1] = 2
    BY <1>w, TwoToSteps
  <2>2. 2 <= TwoTo[Width]
    BY <1>w, <2>1, TwoToGrows
  <2> QED
    BY <1>w, <2>2 DEF Normalized
<1>2. PICK h \in 0 .. Width - 1 : TwoTo[h] <= m /\ m < TwoTo[h + 1]
  <2> HIDE DEF m
  <2> QED
    BY <1>1, HighestBit
<1>3. Bits(m) \subseteq 0 .. h /\ h \in Bits(m)
  <2> HIDE DEF m
  <2> QED
    BY <1>1, <1>2, BitsUpToHighest
<1>4. Filling(m, f)
  <2> HIDE DEF m
  <2> QED
    BY FillingExists
<1>5. f[Shifts] = 0 .. h
  <2> HIDE DEF m, f
  <2> QED
    BY <1>3, <1>4, FillingFills
<1>6. RoundUpPowerOfTwo(size) = (NumberOf(f[Shifts]) + 1) % TwoTo[Width]
  BY DEF RoundUpPowerOfTwo, Filling, Normalized
<1>7. NumberOf(0 .. h) + 1 = TwoTo[h + 1]
  <2>1. TwoTo[h + 1] \in Nat /\ NumberOf(0 .. h) = TwoTo[h + 1] - 1
    BY <1>w, NumberOfOnes, TwoToSteps
  <2> QED
    BY <2>1
<1> HIDE DEF f, m
<1> QED
  BY <1>2, <1>5, <1>6, <1>7 DEF m

LEMMA SelfRemainder == ASSUME NEW a \in Nat \ {0} PROVE a % a = 0
OBVIOUS

LEMMA RoundUpSuits ==
    ASSUME NEW size \in 0 .. TwoTo[Width] - 1
    PROVE  Suits(size, RoundUpPowerOfTwo(size))
<1> DEFINE m == Normalized(size)
<1>1. PICK h \in 0 .. Width - 1 :
          /\ TwoTo[h] <= m /\ m < TwoTo[h + 1]
          /\ RoundUpPowerOfTwo(size) = TwoTo[h + 1] % TwoTo[Width]
  BY RoundUpIs
<1>w. /\ Width \in Nat /\ Width \in 0 .. Width /\ Width - 1 \in 0 .. Width
      /\ h \in 0 .. Width /\ h + 1 \in 1 .. Width /\ h + 1 \in 0 .. Width
      /\ h \in Nat /\ Width - 1 \in Nat
  BY WidthAssumption
<1>2. /\ TwoTo[Width] \in Nat \ {0} /\ TwoTo[Width - 1] \in Nat \ {0}
      /\ TwoTo[h] \in Nat \ {0} /\ TwoTo[h + 1] \in Nat \ {0}
  BY <1>w, TwoToSteps
<1>3. /\ size \in Nat /\ m \in Nat /\ size <= m + 1
      /\ (size >= 2 => size = m + 1) /\ (size < 2 => m = 1)
  BY <1>2 DEF Normalized
<1>4. /\ 1 \in 0 .. Width - 1 /\ TwoTo[1] = 2 /\ TwoTo[Width - 1] >= 2
  <2>1. PICK s \in 1 .. Width : TwoTo[s] = Width
    BY WidthAssumption
  <2>2. s \in 0 .. Width /\ 1 \in 0 .. s /\ TwoTo[1] = 2
    BY <1>w, TwoToSteps
  <2>3. 2 <= Width
    BY <2>1, <2>2, TwoToGrows
  <2>4. 1 \in 0 .. Width - 1
    BY <1>w, <2>3
  <2>5. TwoTo[1] <= TwoTo[Width - 1]
    BY <1>w, <2>4, TwoToGrows
  <2> QED
    BY <1>2, <2>2, <2>4, <2>5
<1> HIDE DEF m
<1>5. CASE size <= TwoTo[Width - 1]
  <2>1. m < TwoTo[Width - 1]
    BY <1>2, <1>3, <1>4, <1>5
  <2>2. h + 1 \in 1 .. Width - 1
    <3>1. h # Width - 1
      BY <1>1, <1>2, <1>3, <2>1
    <3> QED
      BY <1>w, <3>1
  <2>3. TwoTo[h + 1] < TwoTo[Width]
    <3>1. h + 1 \in 0 .. Width /\ h + 1 < Width
      BY <1>w, <2>2
    <3> QED
      BY <1>w, <3>1, TwoToGrows
  <2>4. RoundUpPowerOfTwo(size) = TwoTo[h + 1]
    BY <1>1, <1>2, <2>3
  <2>5. TwoTo[h + 1] \in PowersOfTwo /\ TwoTo[h + 1] >= size
    BY <1>1, <1>2, <1>3, <2>2 DEF PowersOfTwo
  <2>6. ASSUME NEW other \in PowersOfTwo, other >= size PROVE TwoTo[h + 1] <= other
    <3>1. PICK k \in 1 .. Width - 1 : other = TwoTo[k]
      BY DEF PowersOfTwo
    <3>2. k \in 0 .. Width /\ 1 \in 0 .. k /\ k \in Nat
      BY <1>w
    <3>3. TwoTo[k] \in Nat /\ 2 <= TwoTo[k]
      BY <1>4, <3>2, TwoToGrows, TwoToSteps
    <3>4. m < TwoTo[k]
      BY <1>3, <2>6, <3>1, <3>3
    <3>5. ~ (k <= h)
      <4>1. SUFFICES ASSUME k <= h PROVE FALSE
        OBVIOUS
      <4>2. k \in 0 .. h
        BY <1>w, <3>2, <4>1
      <4>3. TwoTo[k] <= TwoTo[h]
        BY <1>w, <4>2, TwoToGrows
      <4> QED
        BY <1>1, <1>2, <1>3, <3>3, <3>4, <4>3
    <3>6. h + 1 \in 0 .. k
      BY <1>w, <3>2, <3>5
    <3> QED
      BY <3>1, <3>2, <3>6, TwoToGrows
  <2> QED
    BY <1>5, <2>4, <2>5, <2>6 DEF Suits
<1>6. CASE ~ (size <= TwoTo[Width - 1])
  <2>1. TwoTo[Width - 1] <= m
    BY <1>2, <1>3, <1>4, <1>6
  <2>2. h = Width - 1
    <3>1. SUFFICES ASSUME h # Width - 1 PROVE FALSE
      OBVIOUS
    <3>2. h + 1 \in 0 .. Width - 1
      BY <1>w, <3>1
    <3>3. TwoTo[h + 1] <= TwoTo[Width - 1]
      BY <1>w, <3>2, TwoToGrows
    <3> QED
      BY <1>1, <1>2, <1>3, <2>1, <3>3
  <2>3. h + 1 = Width
    BY <1>w, <2>2
  <2>4. RoundUpPowerOfTwo(size) = 0
    BY <1>1, <1>2, <2>3, SelfRemainder
  <2> QED
    BY <1>6, <2>4 DEF Suits
<1> QED
  BY <1>5, <1>6

\* RoundUpPowerOfTwo gives every size the least power of two that holds it, at least 2, or
\* 0 where there is none, in words of every width: no ring gets a wrong capacity.
THEOREM CapacityTheorem == Spec => []CapacityFits
<1>1. CapacityFits
  BY RoundUpSuits DEF Misfits, CapacityFits
<1>2. []CapacityFits
  BY <1>1, PTL
<1> QED
  BY <1>2
===============================================================================
