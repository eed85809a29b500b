----------------------------- MODULE RingCapacity -----------------------------
(***************************************************************************)
(* The capacity LockFreeRingBuffer's constructor takes for a size it is    *)
(* asked for.  A word of the machine is a number where the code compares   *)
(* and adds, and the set of its bits where it shifts and combines.         *)
(***************************************************************************)
EXTENDS Naturals

CONSTANT Width    \* of std::size_t, in bits: 64 or 32 where the code is built

TwoTo[i \in 0 .. Width] == IF i = 0 THEN 1 ELSE 2 * TwoTo[i - 1]

ASSUME WidthAssumption == Width \in Nat /\ \E s \in 1 .. Width : TwoTo[s] = Width

Bits(n) == { i \in 0 .. Width - 1 : (n \div TwoTo[i]) % 2 = 1 }

NumberOf(bits) ==
    LET sum[i \in 0 .. Width] ==
            IF i = 0 THEN 0
            ELSE sum[i - 1] + (IF i - 1 \in bits THEN TwoTo[i - 1] ELSE 0)
    IN  sum[Width]

\* The word shifted right by k.
ShiftR(bits, k) == { i \in 0 .. Width - 1 : i + k \in bits }

\* Seeded fault: the last shift, which only the wider words need, is left out.
ShiftsTooFew == (CHOOSE s \in 1 .. Width : TwoTo[s] = Width) - 1

\* How many shifts there are, by 1, 2, 4, ...: six for 64 bits.
Shifts == CHOOSE s \in 1 .. Width : TwoTo[s] = Width

\* Every bit below the highest one is set, and one is added, which may overflow.
RoundUpPowerOfTwo(value) ==
    LET normalized == (IF value < 2 THEN 2 ELSE value) - 1
        filled[j \in 0 .. Shifts] ==
            IF j = 0 THEN Bits(normalized)
            ELSE filled[j - 1] \cup ShiftR(filled[j - 1], TwoTo[j - 1])
    IN  (NumberOf(filled[Shifts]) + 1) % TwoTo[Width]

-------------------------------------------------------------------------------
PowersOfTwo == { TwoTo[i] : i \in 1 .. Width - 1 }

\* The right capacity is the least power of two, at least 2, that holds the size; for a
\* size above the largest power there is none, and the sum wraps around to 0.
Suits(size, capacity) ==
    IF size <= TwoTo[Width - 1]
    THEN /\ capacity \in PowersOfTwo /\ capacity >= size
         /\ \A other \in PowersOfTwo : other >= size => capacity <= other
    ELSE capacity = 0

Misfits == { size \in 0 .. TwoTo[Width] - 1 : ~ Suits(size, RoundUpPowerOfTwo(size)) }
===============================================================================
