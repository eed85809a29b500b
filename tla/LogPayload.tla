------------------------------ MODULE LogPayload ------------------------------
(***************************************************************************)
(* hlog::LogPayload (include/hlog/detail/log_payload.h): a text in a buffer *)
(* inside the object, or in a heap block once it has outgrown that.  A     *)
(* buffer is the sequence of its characters, the terminator included.      *)
(* Operations map payloads to payloads; a view given to one of them is a   *)
(* text of its own, not a part of the payload it is given to.              *)
(***************************************************************************)
EXTENDS Naturals, Sequences

CONSTANTS InlineCapacity,   \* kInlineCapacity
          Nul, Junk,        \* the terminator, and a character never written
          NoBlock           \* heap_storage_ is null

ASSUME PayloadAssumption == InlineCapacity \in Nat

Uninitialized(n) == [i \in 1 .. n |-> Junk]

\* data_ points into the object, or to the heap block.
Buffer(p) == IF p.heap = NoBlock THEN p.inline ELSE p.heap
IsInline(p) == p.data = "inline"
View(p) == SubSeq(IF IsInline(p) THEN p.inline ELSE p.heap, 1, p.size)

ResetInline(p) == [p EXCEPT !.heap = NoBlock, !.data = "inline", !.capacity = InlineCapacity,
                            !.size = 0, !.inline[1] = Nul]

NewPayload == ResetInline([inline |-> Uninitialized(InlineCapacity + 1), heap |-> NoBlock,
                           data |-> "inline", capacity |-> InlineCapacity, size |-> 0])

\* Text goes to where data_ points, from offset on, and the terminator behind it.
Overlaid(buffer, offset, text) ==
    [i \in 1 .. Len(buffer) |-> IF i \in offset + 1 .. offset + Len(text) THEN text[i - offset]
                                ELSE IF i = offset + Len(text) + 1 THEN Nul
                                ELSE buffer[i]]

Written(p, offset, text) ==
    LET q == [p EXCEPT !.size = offset + Len(text)] IN
    IF IsInline(p) THEN [q EXCEPT !.inline = Overlaid(p.inline, offset, text)]
                   ELSE [q EXCEPT !.heap = Overlaid(p.heap, offset, text)]

\* Seeded fault: the old text stays in the old buffer.
EnsureCapacityCopiesNothing(p, required) ==
    IF required <= p.capacity THEN p
    ELSE LET capacity == IF 2 * p.capacity < required THEN required ELSE 2 * p.capacity IN
         [p EXCEPT !.heap = Overlaid(Uninitialized(capacity + 1), p.size, <<>>),
                   !.data = "heap", !.capacity = capacity]

EnsureCapacity(p, required) ==
    IF required <= p.capacity THEN p
    ELSE LET capacity == IF 2 * p.capacity < required THEN required ELSE 2 * p.capacity IN
         [p EXCEPT !.heap = Overlaid(Uninitialized(capacity + 1), 0, View(p)),
                   !.data = "heap", !.capacity = capacity]

Assign(p, text) == Written(EnsureCapacity(p, Len(text)), 0, text)

AppendText(p, text) ==
    IF text = <<>> THEN p ELSE Written(EnsureCapacity(p, p.size + Len(text)), p.size, text)

PushBack(p, char) == Written(EnsureCapacity(p, p.size + 1), p.size, <<char>>)

\* Seeded fault: the source keeps pointing to the block it gave away.
MoveFromLeavesSource(this, other) ==
    IF IsInline(other)
    THEN [this |-> Assign(ResetInline(this), View(other)), other |-> other]
    ELSE [this  |-> [this EXCEPT !.heap = other.heap, !.data = "heap",
                                 !.capacity = other.capacity, !.size = other.size],
          other |-> [other EXCEPT !.heap = NoBlock]]

\* Move assignment from another payload: a heap block changes hands, an inline text is copied.
MoveFrom(this, other) ==
    IF IsInline(other)
    THEN [this |-> Assign(ResetInline(this), View(other)), other |-> other]
    ELSE [this  |-> [this EXCEPT !.heap = other.heap, !.data = "heap",
                                 !.capacity = other.capacity, !.size = other.size],
          other |-> ResetInline(other)]

-------------------------------------------------------------------------------

\* data_ points to a buffer the object owns, of capacity_ characters and a terminator,
\* and the text in it is terminated.
WellFormed(p) ==
    /\ IsInline(p) <=> p.heap = NoBlock
    /\ Len(Buffer(p)) = p.capacity + 1
    /\ p.size <= p.capacity
    /\ Buffer(p)[p.size + 1] = Nul
===============================================================================
