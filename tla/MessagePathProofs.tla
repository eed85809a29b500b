--------------------------- MODULE MessagePathProofs ---------------------------
(***************************************************************************)
(* The payloads of MessagePath for every alphabet, every inline capacity,  *)
(* any texts and any number of cells and messages.  Each operation of      *)
(* LogPayload keeps a payload's buffers in order and makes of its text     *)
(* what its name says; moves therefore carry texts from Log to the sink.   *)
(* There the tokens of a pattern show what the pattern means, whatever the *)
(* pattern is.                                                             *)
(***************************************************************************)
EXTENDS MessagePath, SequenceTheorems, WellFoundedInduction, TLAPS

Texts == Seq(Characters)

PayloadType == [inline : Texts, heap : Texts \cup {NoBlock}, data : {"inline", "heap"},
                capacity : Nat, size : Nat]

\* A payload as any sequence of operations leaves it.
Good(p) == /\ p \in PayloadType
           /\ Len(p.inline) = InlineCapacity + 1
           /\ WellFormed(p)

LEMMA SpecialCharacters == Nul \in Characters /\ Junk \in Characters
BY DEF Characters

(***************************************************************************)
(* What the operations do to a payload.                                    *)
(***************************************************************************)

LEMMA UninitializedIs ==
    ASSUME NEW n \in Nat
    PROVE  Uninitialized(n) \in Texts /\ Len(Uninitialized(n)) = n
BY SpecialCharacters DEF Uninitialized, Texts

\* A text written from offset on follows what stands before it, and is terminated.
LEMMA OverlaidIs ==
    ASSUME NEW b \in Texts, NEW offset \in Nat, NEW text \in Texts,
           offset + Len(text) < Len(b)
    PROVE  /\ Overlaid(b, offset, text) \in Texts
           /\ Len(Overlaid(b, offset, text)) = Len(b)
           /\ Overlaid(b, offset, text)[offset + Len(text) + 1] = Nul
           /\ SubSeq(Overlaid(b, offset, text), 1, offset + Len(text))
                = SubSeq(b, 1, offset) \o text
<1> DEFINE o == Overlaid(b, offset, text)
           n == offset + Len(text)
<1>1. Len(b) \in Nat /\ Len(text) \in Nat /\ n \in Nat
  BY DEF Texts
<1>2. \A i \in 1 .. Len(b) : b[i] \in Characters
  BY DEF Texts
<1>3. \A i \in 1 .. Len(text) : text[i] \in Characters
  BY DEF Texts
<1>4. o = [i \in 1 .. Len(b) |-> IF i \in offset + 1 .. n THEN text[i - offset]
                                 ELSE IF i = n + 1 THEN Nul ELSE b[i]]
  BY DEF Overlaid
<1> HIDE DEF o
<1>5. \A i \in 1 .. Len(b) : o[i] \in Characters
  <2> TAKE i \in 1 .. Len(b)
  <2>1. CASE i \in offset + 1 .. n
    <3>1. i - offset \in 1 .. Len(text)
      BY <1>1, <2>1
    <3> QED
      BY <1>3, <1>4, <2>1, <3>1
  <2>2. CASE i \notin offset + 1 .. n
    BY <1>2, <1>4, <2>2, SpecialCharacters
  <2> QED
    BY <2>1, <2>2
<1>6. o \in Texts /\ Len(o) = Len(b)
  <2>1. o \in [1 .. Len(b) -> Characters]
    BY <1>4, <1>5
  <2> QED
    BY <1>1, <2>1 DEF Texts
<1>7. o[n + 1] = Nul
  <2>1. n + 1 \in 1 .. Len(b) /\ n + 1 \notin offset + 1 .. n
    BY <1>1
  <2> QED
    BY <1>4, <2>1
<1>8. SubSeq(o, 1, n) = SubSeq(b, 1, offset) \o text
  <2> DEFINE before == SubSeq(b, 1, offset)
             left   == SubSeq(o, 1, n)
  <2>1. before \in Texts /\ Len(before) = offset /\ \A i \in 1 .. offset : before[i] = b[i]
    BY <1>1, <1>2, SubSeqProperties DEF Texts
  <2>2. left \in Texts /\ Len(left) = n /\ \A i \in 1 .. n : left[i] = o[i]
    BY <1>1, <1>5, SubSeqProperties DEF Texts
  <2> HIDE DEF before, left
  <2>3. /\ before \o text \in Texts /\ Len(before \o text) = n
        /\ \A i \in 1 .. n : (before \o text)[i] =
                                IF i <= offset THEN before[i] ELSE text[i - offset]
    BY <2>1, ConcatProperties DEF Texts
  <2>4. ASSUME NEW i \in 1 .. n PROVE left[i] = (before \o text)[i]
    <3>1. i \in 1 .. Len(b)
      BY <1>1
    <3>2. CASE i <= offset
      <4>1. i \in 1 .. offset /\ i \notin offset + 1 .. n /\ i # n + 1
        BY <1>1, <3>2
      <4>2. o[i] = b[i]
        BY <1>4, <3>1, <4>1
      <4>3. before[i] = b[i] /\ (before \o text)[i] = before[i] /\ left[i] = o[i]
        BY <2>1, <2>2, <2>3, <3>2, <4>1
      <4> QED
        BY <4>2, <4>3
    <3>3. CASE ~ i <= offset
      <4>1. i \in offset + 1 .. n
        BY <1>1, <3>3
      <4> QED
        BY <1>4, <2>2, <2>3, <3>1, <3>3, <4>1
    <3> QED
      BY <3>2, <3>3
  <2> QED
    BY <2>2, <2>3, <2>4, SeqEqual DEF Texts, before, left
<1> QED
  BY <1>6, <1>7, <1>8 DEF o

\* The buffer in use, and the text in it.
LEMMA BufferIs ==
    ASSUME NEW p, Good(p)
    PROVE  /\ Buffer(p) \in Texts /\ Len(Buffer(p)) = p.capacity + 1
           /\ Buffer(p) = IF IsInline(p) THEN p.inline ELSE p.heap
           /\ View(p) = SubSeq(Buffer(p), 1, p.size)
           /\ View(p) \in Texts /\ Len(View(p)) = p.size
           /\ p.size \in Nat /\ p.capacity \in Nat /\ p.size <= p.capacity
<1>1. /\ Buffer(p) = IF IsInline(p) THEN p.inline ELSE p.heap
      /\ Buffer(p) \in Texts /\ Len(Buffer(p)) = p.capacity + 1
      /\ p.size \in Nat /\ p.capacity \in Nat /\ p.size <= p.capacity
  BY BlockAssumption DEF Good, WellFormed, PayloadType, Buffer, Texts
<1>2. View(p) = SubSeq(Buffer(p), 1, p.size)
  BY <1>1 DEF View
<1>3. \A i \in 1 .. p.size : Buffer(p)[i] \in Characters
  BY <1>1 DEF Texts
<1>4. View(p) \in Texts /\ Len(View(p)) = p.size
  BY <1>1, <1>2, <1>3, SubSeqProperties DEF Texts
<1> QED
  BY <1>1, <1>2, <1>4

LEMMA ResetIs ==
    ASSUME NEW p \in PayloadType, Len(p.inline) = InlineCapacity + 1
    PROVE  Good(ResetInline(p)) /\ View(ResetInline(p)) = <<>>
<1> DEFINE q == ResetInline(p)
<1>1. /\ q \in PayloadType /\ q.inline = [p.inline EXCEPT ![1] = Nul]
      /\ q.heap = NoBlock /\ q.data = "inline" /\ q.capacity = InlineCapacity /\ q.size = 0
  <2>1. [p.inline EXCEPT ![1] = Nul] \in Texts
    BY SpecialCharacters, PayloadAssumption DEF PayloadType, Texts
  <2> QED
    BY <2>1, PayloadAssumption DEF ResetInline, PayloadType
<1>2. Len(q.inline) = InlineCapacity + 1 /\ q.inline[1] = Nul
  BY <1>1, PayloadAssumption DEF PayloadType, Texts
<1> HIDE DEF q
<1>3. WellFormed(q)
  BY <1>1, <1>2, PayloadAssumption DEF WellFormed, Buffer, IsInline
<1>4. View(q) = <<>>
  BY <1>1, SubSeqEmpty DEF View
<1> QED
  BY <1>1, <1>2, <1>3, <1>4 DEF Good, q

LEMMA NewIs == Good(NewPayload) /\ View(NewPayload) = <<>>
<1> DEFINE p == [inline |-> Uninitialized(InlineCapacity + 1), heap |-> NoBlock,
                 data |-> "inline", capacity |-> InlineCapacity, size |-> 0]
<1>1. InlineCapacity + 1 \in Nat
  BY PayloadAssumption
<1>2. p \in PayloadType /\ Len(p.inline) = InlineCapacity + 1
  BY <1>1, UninitializedIs, PayloadAssumption DEF PayloadType
<1>3. NewPayload = ResetInline(p)
  BY DEF NewPayload
<1> HIDE DEF p
<1> QED
  BY <1>2, <1>3, ResetIs

\* memcpy to data_ + offset, within the capacity.
LEMMA WrittenIs ==
    ASSUME NEW p, Good(p), NEW offset \in Nat, NEW text \in Texts,
           offset + Len(text) <= p.capacity
    PROVE  /\ Good(Written(p, offset, text))
           /\ View(Written(p, offset, text)) = SubSeq(Buffer(p), 1, offset) \o text
<1> DEFINE w == Written(p, offset, text)
           n == offset + Len(text)
           o == Overlaid(Buffer(p), offset, text)
<1>1. Len(text) \in Nat /\ n \in Nat
  BY DEF Texts
<1>2. /\ Buffer(p) \in Texts /\ Len(Buffer(p)) = p.capacity + 1
      /\ Buffer(p) = IF IsInline(p) THEN p.inline ELSE p.heap
      /\ p.capacity \in Nat /\ n <= p.capacity
  BY BufferIs
<1>3. offset + Len(text) < Len(Buffer(p))
  BY <1>1, <1>2
<1>4. /\ o \in Texts /\ Len(o) = Len(Buffer(p)) /\ o[n + 1] = Nul
      /\ SubSeq(o, 1, n) = SubSeq(Buffer(p), 1, offset) \o text
  BY <1>2, <1>3, OverlaidIs
<1>5. /\ p \in PayloadType /\ Len(p.inline) = InlineCapacity + 1
      /\ IsInline(p) <=> p.heap = NoBlock
  BY DEF Good, WellFormed
<1>6. o # NoBlock
  BY <1>4, BlockAssumption DEF Texts
<1>7. /\ w \in PayloadType /\ w.size = n /\ w.data = p.data /\ w.capacity = p.capacity
      /\ w.inline = IF IsInline(p) THEN o ELSE p.inline
      /\ w.heap = IF IsInline(p) THEN p.heap ELSE o
  <2> HIDE DEF n
  <2>1. CASE IsInline(p)
    <3>1. w = [[p EXCEPT !.size = n] EXCEPT !.inline = o]
      BY <1>2, <2>1 DEF Written, n
    <3> HIDE DEF w, o
    <3> QED
      BY <1>1, <1>4, <1>5, <2>1, <3>1 DEF PayloadType
  <2>2. CASE ~ IsInline(p)
    <3>1. w = [[p EXCEPT !.size = n] EXCEPT !.heap = o]
      BY <1>2, <2>2 DEF Written, n
    <3> HIDE DEF w, o
    <3> QED
      BY <1>1, <1>4, <1>5, <2>2, <3>1 DEF PayloadType
  <2> QED
    BY <2>1, <2>2
<1> HIDE DEF w, n, o
<1>8. /\ IsInline(w) <=> IsInline(p)
      /\ IsInline(w) <=> w.heap = NoBlock
      /\ Buffer(w) = o /\ Len(w.inline) = InlineCapacity + 1
  BY <1>2, <1>4, <1>5, <1>6, <1>7 DEF IsInline, Buffer
<1>9. WellFormed(w)
  BY <1>2, <1>4, <1>7, <1>8 DEF WellFormed
<1>10. View(w) = SubSeq(o, 1, n)
  BY <1>7, <1>8 DEF View, IsInline
<1> QED
  BY <1>4, <1>7, <1>8, <1>9, <1>10 DEF Good, w, n, o

\* Growth keeps the text.
LEMMA EnsureIs ==
    ASSUME NEW p, Good(p), NEW required \in Nat
    PROVE  /\ Good(EnsureCapacity(p, required))
           /\ required <= EnsureCapacity(p, required).capacity
           /\ EnsureCapacity(p, required).size = p.size
           /\ View(EnsureCapacity(p, required)) = View(p)
<1>1. CASE required <= p.capacity
  BY <1>1 DEF EnsureCapacity
<1>2. CASE ~ required <= p.capacity
  <2> DEFINE capacity == IF 2 * p.capacity < required THEN required ELSE 2 * p.capacity
             fresh == Uninitialized(capacity + 1)
             o == Overlaid(fresh, 0, View(p))
             q == [p EXCEPT !.heap = o, !.data = "heap", !.capacity = capacity]
  <2>1. /\ View(p) \in Texts /\ Len(View(p)) = p.size /\ p.size \in Nat
        /\ p.capacity \in Nat /\ p.size <= p.capacity
    BY BufferIs
  <2>2. capacity \in Nat /\ required <= capacity /\ p.size < capacity + 1 /\ p.size <= capacity
    BY <1>2, <2>1
  <2> HIDE DEF capacity
  <2>3. fresh \in Texts /\ Len(fresh) = capacity + 1
    BY <2>2, UninitializedIs
  <2> HIDE DEF fresh
  <2>4. /\ o \in Texts /\ Len(o) = capacity + 1 /\ o[p.size + 1] = Nul
        /\ SubSeq(o, 1, p.size) = View(p)
    <3>1. 0 \in Nat /\ 0 + Len(View(p)) < Len(fresh) /\ 0 + Len(View(p)) = p.size
      BY <2>1, <2>2, <2>3
    <3>2. /\ o \in Texts /\ Len(o) = Len(fresh) /\ o[0 + Len(View(p)) + 1] = Nul
          /\ SubSeq(o, 1, 0 + Len(View(p))) = SubSeq(fresh, 1, 0) \o View(p)
      BY <2>1, <2>3, <3>1, OverlaidIs
    <3>3. SubSeq(fresh, 1, 0) = <<>>
      BY SubSeqEmpty
    <3>4. <<>> \o View(p) = View(p)
      BY <2>1, ConcatEmptySeq DEF Texts
    <3> HIDE DEF o
    <3> QED
      BY <2>3, <3>1, <3>2, <3>3, <3>4
  <2>5. o # NoBlock
    BY <2>4, BlockAssumption DEF Texts
  <2> HIDE DEF o
  <2>6. p \in PayloadType /\ Len(p.inline) = InlineCapacity + 1
    BY DEF Good
  <2>7. /\ q \in PayloadType /\ q.inline = p.inline /\ q.heap = o /\ q.data = "heap"
        /\ q.capacity = capacity /\ q.size = p.size
    BY <2>2, <2>4, <2>6 DEF PayloadType
  <2>8. EnsureCapacity(p, required) = q
    BY <1>2 DEF EnsureCapacity, q, capacity, o, fresh
  <2> HIDE DEF q
  <2>9. ~ IsInline(q) /\ Buffer(q) = o
    BY <2>5, <2>7 DEF IsInline, Buffer
  <2>10. WellFormed(q)
    BY <2>2, <2>4, <2>5, <2>7, <2>9 DEF WellFormed
  <2>11. View(q) = View(p)
    BY <2>4, <2>7, <2>9 DEF View
  <2> QED
    BY <2>2, <2>6, <2>7, <2>8, <2>10, <2>11 DEF Good
<1> QED
  BY <1>1, <1>2

LEMMA AssignIs ==
    ASSUME NEW p, Good(p), NEW text \in Texts
    PROVE  Good(Assign(p, text)) /\ View(Assign(p, text)) = text
<1> DEFINE q == EnsureCapacity(p, Len(text))
<1>1. Len(text) \in Nat /\ 0 + Len(text) = Len(text)
  BY DEF Texts
<1>2. Good(q) /\ 0 + Len(text) <= q.capacity
  BY <1>1, EnsureIs
<1>3. Assign(p, text) = Written(q, 0, text)
  BY DEF Assign
<1> HIDE DEF q
<1>4. Good(Assign(p, text)) /\ View(Assign(p, text)) = SubSeq(Buffer(q), 1, 0) \o text
  BY <1>2, <1>3, WrittenIs
<1>5. SubSeq(Buffer(q), 1, 0) = <<>>
  BY SubSeqEmpty
<1>6. <<>> \o text = text
  BY ConcatEmptySeq DEF Texts
<1> QED
  BY <1>4, <1>5, <1>6

\* What append and push_back have in common.
LEMMA AddedIs ==
    ASSUME NEW p, Good(p), NEW text \in Texts,
           NEW q, q = EnsureCapacity(p, p.size + Len(text))
    PROVE  /\ Good(Written(q, p.size, text)) /\ q.size = p.size
           /\ View(Written(q, p.size, text)) = View(p) \o text
<1>1. Len(text) \in Nat /\ p.size \in Nat /\ p.size + Len(text) \in Nat
  BY BufferIs DEF Texts
<1>2. Good(q) /\ p.size + Len(text) <= q.capacity /\ q.size = p.size /\ View(q) = View(p)
  BY <1>1, EnsureIs
<1>3. View(q) = SubSeq(Buffer(q), 1, q.size)
  BY <1>2, BufferIs
<1>4. /\ Good(Written(q, p.size, text))
      /\ View(Written(q, p.size, text)) = SubSeq(Buffer(q), 1, p.size) \o text
  BY <1>1, <1>2, WrittenIs
<1> QED
  BY <1>2, <1>3, <1>4, Zenon

LEMMA AppendIs ==
    ASSUME NEW p, Good(p), NEW text \in Texts
    PROVE  Good(AppendText(p, text)) /\ View(AppendText(p, text)) = View(p) \o text
<1>1. CASE text = <<>>
  <2>1. View(p) \o <<>> = View(p)
    BY BufferIs, ConcatEmptySeq DEF Texts
  <2> QED
    BY <1>1, <2>1 DEF AppendText
<1>2. CASE text # <<>>
  BY <1>2, AddedIs DEF AppendText
<1> QED
  BY <1>1, <1>2

LEMMA PushIs ==
    ASSUME NEW p, Good(p), NEW char \in Characters
    PROVE  Good(PushBack(p, char)) /\ View(PushBack(p, char)) = View(p) \o <<char>>
<1>1. <<char>> \in Texts /\ Len(<<char>>) = 1
  BY DEF Texts
<1> QED
  BY <1>1, AddedIs DEF PushBack

\* A move leaves both payloads in order, and the text has gone along.
LEMMA MoveIs ==
    ASSUME NEW this, Good(this), NEW other, Good(other)
    PROVE  /\ Good(MoveFrom(this, other).this) /\ Good(MoveFrom(this, other).other)
           /\ View(MoveFrom(this, other).this) = View(other)
<1>1. /\ this \in PayloadType /\ Len(this.inline) = InlineCapacity + 1
      /\ other \in PayloadType /\ Len(other.inline) = InlineCapacity + 1
  BY DEF Good
<1>2. CASE IsInline(other)
  <2>1. /\ MoveFrom(this, other).this = Assign(ResetInline(this), View(other))
        /\ MoveFrom(this, other).other = other
    BY <1>2 DEF MoveFrom
  <2>2. Good(ResetInline(this)) /\ View(other) \in Texts
    BY <1>1, ResetIs, BufferIs
  <2> QED
    BY <2>1, <2>2, AssignIs
<1>3. CASE ~ IsInline(other)
  <2> DEFINE q == [this EXCEPT !.heap = other.heap, !.data = "heap",
                               !.capacity = other.capacity, !.size = other.size]
  <2>1. /\ MoveFrom(this, other).this = q
        /\ MoveFrom(this, other).other = ResetInline(other)
    BY <1>3 DEF MoveFrom
  <2>2. /\ q \in PayloadType /\ q.inline = this.inline /\ q.heap = other.heap
        /\ q.data = "heap" /\ q.capacity = other.capacity /\ q.size = other.size
    BY <1>1 DEF PayloadType
  <2> HIDE DEF q
  <2>3. other.heap # NoBlock /\ WellFormed(other)
    BY <1>3 DEF Good, WellFormed
  <2>4. ~ IsInline(q) /\ Buffer(q) = Buffer(other)
    BY <2>2, <2>3 DEF IsInline, Buffer
  <2>5. WellFormed(q)
    BY <2>2, <2>3, <2>4 DEF WellFormed
  <2>6. View(q) = View(other)
    BY <1>3, <2>2, <2>4 DEF View
  <2>7. Good(ResetInline(other))
    BY <1>1, ResetIs
  <2> QED
    BY <1>1, <2>1, <2>2, <2>5, <2>6, <2>7 DEF Good
<1> QED
  BY <1>2, <1>3
(***************************************************************************)
(* The invariant.                                                          *)
(***************************************************************************)

ItemType == [payload : PayloadType, level : Levels \cup {"INFO"}, line : Lines \cup {0}]

GoodItem(m) == m \in ItemType /\ Good(m.payload)

Types ==
    /\ GoodItem(message) /\ GoodItem(item)
    /\ cells \in [0 .. Cells - 1 -> ItemType]
    /\ \A c \in 0 .. Cells - 1 : GoodItem(cells[c])
    /\ enqueued \in Nat /\ dequeued \in Nat /\ building \in BOOLEAN
    /\ texts \in Seq(Texts)

\* There is a text for each message in a cell, and for the one Log is at.
CountInv ==
    /\ dequeued <= enqueued /\ enqueued - dequeued <= Cells
    /\ Len(texts) = enqueued - dequeued + (IF building THEN 1 ELSE 0)

PathInv == Types /\ CountInv /\ TextsAreWhole

LEMMA NewItemIs == GoodItem(NewItem) /\ View(NewItem.payload) = <<>>
BY NewIs DEF NewItem, GoodItem, ItemType, Good

LEMMA MoveItemIs ==
    ASSUME NEW this, GoodItem(this), NEW other, GoodItem(other)
    PROVE  /\ GoodItem(MoveItem(this, other).this) /\ GoodItem(MoveItem(this, other).other)
           /\ View(MoveItem(this, other).this.payload) = View(other.payload)
<1> DEFINE moved == MoveFrom(this.payload, other.payload)
<1>1. Good(moved.this) /\ Good(moved.other) /\ View(moved.this) = View(other.payload)
  BY MoveIs DEF GoodItem
<1>2. /\ MoveItem(this, other).this = [other EXCEPT !.payload = moved.this]
      /\ MoveItem(this, other).other = [other EXCEPT !.payload = moved.other]
  BY DEF MoveItem
<1> HIDE DEF moved
<1>3. moved.this \in PayloadType /\ moved.other \in PayloadType
  BY <1>1 DEF Good
<1>4. /\ MoveItem(this, other).this \in ItemType
      /\ MoveItem(this, other).this.payload = moved.this
      /\ MoveItem(this, other).other \in ItemType
      /\ MoveItem(this, other).other.payload = moved.other
  BY <1>2, <1>3 DEF GoodItem, ItemType
<1> QED
  BY <1>1, <1>4 DEF GoodItem

\* Positions less than a lap apart are in different cells.
LEMMA CellsDiffer ==
    ASSUME NEW p \in Nat, NEW q \in Nat, p < q, q < p + Cells
    PROVE  p % Cells \in 0 .. Cells - 1 /\ q % Cells \in 0 .. Cells - 1 /\ p % Cells # q % Cells
<1>1. Cells \in Nat /\ Cells > 0
  BY PathAssumption
<1>2. p % Cells \in 0 .. Cells - 1 /\ q % Cells \in 0 .. Cells - 1
  BY <1>1
<1>3. PICK a \in Nat, b \in Nat : q = Cells * a + (q % Cells) /\ p = Cells * b + (p % Cells)
  <2>1. p = Cells * (p \div Cells) + (p % Cells) /\ p \div Cells \in Nat
    BY <1>1
  <2>2. q = Cells * (q \div Cells) + (q % Cells) /\ q \div Cells \in Nat
    BY <1>1
  <2> QED
    BY <2>1, <2>2
<1>4. \A k \in Nat : Cells * k \in Nat
  BY <1>1
<1>5. ASSUME p % Cells = q % Cells PROVE FALSE
  <2>1. Cells * a \in Nat /\ Cells * b \in Nat /\ p % Cells \in Nat
    BY <1>2, <1>4
  <2>2. q - p = Cells * a - Cells * b
    <3>1. ASSUME NEW x \in Nat, NEW y \in Nat, NEW r \in Nat, q = x + r, p = y + r
          PROVE  q - p = x - y
      BY <3>1
    <3> QED
      BY <1>3, <1>5, <2>1, <3>1
  <2>3. CASE a <= b
    <3>1. PICK k \in Nat : b = a + k
      BY <2>3
    <3>2. Cells * b = Cells * a + Cells * k
      BY <1>1, <3>1
    <3> QED
      BY <1>4, <2>1, <2>2, <3>2
  <2>4. CASE b < a
    <3>1. PICK k \in Nat : a = b + 1 + k
      BY <2>4
    <3>2. Cells * a = Cells * b + Cells + Cells * k
      BY <1>1, <3>1
    <3>3. q - p = Cells + Cells * k /\ Cells * k \in Nat
      BY <1>1, <1>4, <2>1, <2>2, <3>2
    <3> QED
      BY <1>1, <3>3
  <2> QED
    BY <2>3, <2>4
<1> QED
  BY <1>2, <1>5

LEMMA CellIs == ASSUME NEW p \in Nat PROVE p % Cells \in 0 .. Cells - 1
BY PathAssumption

LEMMA PathInit == Init => PathInv
<1> SUFFICES ASSUME Init PROVE PathInv
  OBVIOUS
<1>1. GoodItem(NewItem)
  BY NewItemIs
<1>2. Types
  <2>1. NewItem \in ItemType
    BY <1>1 DEF GoodItem
  <2>2. cells \in [0 .. Cells - 1 -> ItemType] /\ \A c \in 0 .. Cells - 1 : GoodItem(cells[c])
    BY <1>1, <2>1 DEF Init
  <2>3. texts \in Seq(Texts)
    BY DEF Init
  <2> QED
    BY <1>1, <2>2, <2>3 DEF Init, Types
<1>3. CountInv /\ TextsAreWhole
  BY PathAssumption DEF Init, CountInv, TextsAreWhole
<1> QED
  BY <1>2, <1>3 DEF PathInv

LEMMA LogSteps == ASSUME PathInv, Log PROVE PathInv'
<1>1. Types /\ CountInv /\ TextsAreWhole
  BY DEF PathInv
<1>2. PICK level \in Levels, l \in Lines :
         message' = [payload |-> NewPayload, level |-> level, line |-> l]
  BY DEF Log
<1>3. GoodItem(message') /\ View(message'.payload) = <<>>
  BY <1>2, NewIs DEF GoodItem, ItemType, Good
<1>4. /\ texts' \in Seq(Texts) /\ Len(texts') = Len(texts) + 1
      /\ texts'[Len(texts')] = <<>>
      /\ \A k \in 1 .. Len(texts) : texts'[k] = texts[k]
  BY <1>1 DEF Log, Types, Texts
<1>5. Types'
  BY <1>1, <1>3, <1>4 DEF Log, Types
<1>6. CountInv' /\ Len(texts) = enqueued - dequeued
  BY <1>1, <1>4 DEF Log, Types, CountInv
<1>7. TextsAreWhole'
  BY <1>1, <1>3, <1>4, <1>6 DEF Log, TextsAreWhole
<1> QED
  BY <1>5, <1>6, <1>7 DEF PathInv

LEMMA AppendSteps == ASSUME PathInv, AppendPayloadPart PROVE PathInv'
<1>1. Types /\ CountInv /\ TextsAreWhole
  BY DEF PathInv
<1>2. PICK text \in Parts :
         /\ texts' = [texts EXCEPT ![Len(texts)] = @ \o text]
         /\ \/ message' = [message EXCEPT !.payload = AppendText(@, text)]
            \/ Len(text) = 1 /\ message' = [message EXCEPT !.payload = PushBack(@, text[1])]
  BY DEF AppendPayloadPart
<1>3. text \in Texts
  BY PathAssumption DEF Texts
<1>4. Good(message.payload) /\ message \in ItemType
  BY <1>1 DEF Types, GoodItem
<1>5. \E p : /\ Good(p) /\ View(p) = View(message.payload) \o text
             /\ message' = [message EXCEPT !.payload = p]
  <2>1. CASE message' = [message EXCEPT !.payload = AppendText(@, text)]
    <3>1. message' = [message EXCEPT !.payload = AppendText(message.payload, text)]
      BY <1>4, <2>1 DEF ItemType
    <3> QED
      BY <1>3, <1>4, <3>1, AppendIs
  <2>2. CASE Len(text) = 1 /\ message' = [message EXCEPT !.payload = PushBack(@, text[1])]
    <3>1. text[1] \in Characters /\ text = <<text[1]>>
      BY <1>3, <2>2 DEF Texts
    <3>2. message' = [message EXCEPT !.payload = PushBack(message.payload, text[1])]
      BY <1>4, <2>2 DEF ItemType
    <3> QED
      BY <1>4, <3>1, <3>2, PushIs
  <2> QED
    BY <1>2, <2>1, <2>2
<1>6. PICK p : /\ Good(p) /\ View(p) = View(message.payload) \o text
               /\ message' = [message EXCEPT !.payload = p]
  BY <1>5
<1>7. GoodItem(message') /\ message'.payload = p
  <2>1. p \in PayloadType
    BY <1>6 DEF Good
  <2>2. message' \in ItemType /\ message'.payload = p
    BY <1>4, <1>6, <2>1 DEF ItemType
  <2> QED
    BY <1>6, <2>2 DEF GoodItem
<1>8. /\ building /\ Len(texts) \in Nat /\ enqueued - dequeued \in Nat
      /\ Len(texts) = enqueued - dequeued + 1
      /\ \A k \in 1 .. Len(texts) : texts[k] \in Texts
  BY <1>1 DEF AppendPayloadPart, Types, CountInv
<1>9. View(message.payload) = texts[Len(texts)] /\ texts[Len(texts)] \in Texts
  BY <1>1, <1>8 DEF TextsAreWhole
<1>10. texts[Len(texts)] \o text \in Texts
  BY <1>3, <1>9, ConcatProperties DEF Texts
<1>11. /\ texts' \in Seq(Texts) /\ Len(texts') = Len(texts)
       /\ texts'[Len(texts)] = texts[Len(texts)] \o text
       /\ \A k \in 1 .. Len(texts) - 1 : texts'[k] = texts[k]
  <2>1. texts' = [texts EXCEPT ![Len(texts)] = texts[Len(texts)] \o text]
    BY <1>2, <1>8
  <2> QED
    BY <1>1, <1>8, <1>10, <2>1, ExceptSeq DEF Types
<1>12. Types'
  BY <1>1, <1>7, <1>11 DEF AppendPayloadPart, Types
<1>13. CountInv'
  BY <1>1, <1>11 DEF AppendPayloadPart, CountInv
<1>14. TextsAreWhole'
  <2>1. building' => View(message'.payload) = texts'[Len(texts')]
    BY <1>6, <1>7, <1>9, <1>11
  <2>2. ASSUME NEW k \in 1 .. enqueued - dequeued
        PROVE  View(cells[(dequeued + k - 1) % Cells].payload) = texts'[k]
    <3>1. k \in 1 .. Len(texts) - 1
      BY <1>8
    <3> QED
      BY <1>1, <1>11, <3>1 DEF TextsAreWhole
  <2>3. UNCHANGED <<cells, enqueued, dequeued>>
    BY DEF AppendPayloadPart
  <2> QED
    BY <2>1, <2>2, <2>3 DEF TextsAreWhole
<1> QED
  BY <1>12, <1>13, <1>14 DEF PathInv

LEMMA EnqueueSteps == ASSUME PathInv, Enqueue PROVE PathInv'
<1> DEFINE c == enqueued % Cells
           moved == MoveItem(cells[c], message)
<1>1. Types /\ CountInv /\ TextsAreWhole
  BY DEF PathInv
<1>2. /\ enqueued \in Nat /\ dequeued \in Nat /\ dequeued <= enqueued /\ Cells \in Nat
      /\ enqueued - dequeued < Cells
      /\ building /\ Len(texts) = enqueued - dequeued + 1 /\ texts \in Seq(Texts)
  BY <1>1, PathAssumption DEF Enqueue, Types, CountInv
<1>3. c \in 0 .. Cells - 1
  BY <1>2, CellIs
<1>4. /\ cells' = [cells EXCEPT ![c] = moved.this] /\ message' = moved.other
      /\ enqueued' = enqueued + 1 /\ building' = FALSE
      /\ UNCHANGED <<dequeued, item, texts>>
  BY DEF Enqueue
<1> HIDE DEF c
<1>5. /\ GoodItem(moved.this) /\ GoodItem(moved.other)
      /\ View(moved.this.payload) = View(message.payload)
  BY <1>1, <1>3, MoveItemIs DEF Types
<1> HIDE DEF moved
<1>6. Types'
  <2>1. moved.this \in ItemType
    BY <1>5 DEF GoodItem
  <2>2. cells' \in [0 .. Cells - 1 -> ItemType]
    BY <1>1, <1>4, <2>1 DEF Types
  <2>3. \A d \in 0 .. Cells - 1 : GoodItem(cells'[d])
    BY <1>1, <1>4, <1>5 DEF Types
  <2>4. GoodItem(message') /\ GoodItem(item')
    BY <1>1, <1>4, <1>5 DEF Types
  <2>5. enqueued' \in Nat /\ dequeued' \in Nat /\ texts' \in Seq(Texts)
    BY <1>2, <1>4
  <2>6. building' \in BOOLEAN
    BY <1>4
  <2> QED
    BY <2>2, <2>3, <2>4, <2>5, <2>6 DEF Types
<1>7. CountInv'
  BY <1>2, <1>4 DEF CountInv
<1>8. ASSUME NEW k \in 1 .. enqueued + 1 - dequeued
      PROVE  View(cells'[(dequeued + k - 1) % Cells].payload) = texts[k]
  <2>1. CASE k = enqueued + 1 - dequeued
    <3>1. dequeued + k - 1 = enqueued /\ k = Len(texts)
      BY <1>2, <2>1
    <3>2. cells'[c] = moved.this
      BY <1>1, <1>3, <1>4 DEF Types
    <3>3. View(message.payload) = texts[Len(texts)]
      BY <1>1, <1>2 DEF TextsAreWhole
    <3> QED
      BY <1>5, <3>1, <3>2, <3>3 DEF c
  <2>2. CASE k # enqueued + 1 - dequeued
    <3>1. k \in 1 .. enqueued - dequeued
      BY <1>2, <2>2
    <3>2. /\ dequeued + k - 1 \in Nat /\ dequeued + k - 1 < enqueued
          /\ enqueued < dequeued + k - 1 + Cells
      BY <1>2, <3>1
    <3>3. /\ (dequeued + k - 1) % Cells \in 0 .. Cells - 1
          /\ (dequeued + k - 1) % Cells # c
      BY <1>2, <3>2, CellsDiffer DEF c
    <3>4. cells'[(dequeued + k - 1) % Cells] = cells[(dequeued + k - 1) % Cells]
      BY <1>1, <1>4, <3>3 DEF Types
    <3> QED
      BY <1>1, <3>1, <3>4 DEF TextsAreWhole
  <2> QED
    BY <2>1, <2>2
<1>9. TextsAreWhole'
  <2>1. ~ building'
    BY <1>4
  <2>2. /\ enqueued' - dequeued' = enqueued + 1 - dequeued
        /\ dequeued' = dequeued /\ texts' = texts
    BY <1>2, <1>4
  <2>3. \A k \in 1 .. enqueued' - dequeued' :
           View(cells'[(dequeued' + k - 1) % Cells].payload) = texts'[k]
    BY <1>8, <2>2
  <2> QED
    BY <2>1, <2>3 DEF TextsAreWhole
<1> QED
  BY <1>6, <1>7, <1>9 DEF PathInv

LEMMA DequeueSteps ==
    ASSUME PathInv, Dequeue
    PROVE  PathInv' /\ View(item'.payload) = texts[1]
<1> DEFINE c == dequeued % Cells
           moved == MoveItem(item, cells[c])
<1>1. Types /\ CountInv /\ TextsAreWhole
  BY DEF PathInv
<1>2. /\ enqueued \in Nat /\ dequeued \in Nat /\ dequeued < enqueued /\ Cells \in Nat
      /\ enqueued - dequeued <= Cells
      /\ Len(texts) = enqueued - dequeued + (IF building THEN 1 ELSE 0)
      /\ texts \in Seq(Texts) /\ texts # <<>>
  BY <1>1, PathAssumption DEF Dequeue, Types, CountInv
<1>3. c \in 0 .. Cells - 1
  BY <1>2, CellIs
<1>4. /\ cells' = [cells EXCEPT ![c] = moved.other] /\ item' = moved.this
      /\ dequeued' = dequeued + 1 /\ texts' = Tail(texts)
      /\ UNCHANGED <<enqueued, message, building>>
  BY DEF Dequeue
<1>5. View(cells[c].payload) = texts[1]
  <2>1. 1 \in 1 .. enqueued - dequeued /\ dequeued + 1 - 1 = dequeued
    BY <1>2
  <2> QED
    BY <1>1, <2>1 DEF TextsAreWhole
<1> HIDE DEF c
<1>6. /\ GoodItem(moved.this) /\ GoodItem(moved.other)
      /\ View(moved.this.payload) = View(cells[c].payload)
  BY <1>1, <1>3, MoveItemIs DEF Types
<1> HIDE DEF moved
<1>7. /\ texts' \in Seq(Texts) /\ Len(texts') = Len(texts) - 1
      /\ \A k \in 1 .. Len(texts) - 1 : texts'[k] = texts[k + 1]
  BY <1>2, <1>4, HeadTailProperties
<1>8. Types'
  <2>1. moved.other \in ItemType
    BY <1>6 DEF GoodItem
  <2>2. cells' \in [0 .. Cells - 1 -> ItemType]
    BY <1>1, <1>4, <2>1 DEF Types
  <2>3. \A d \in 0 .. Cells - 1 : GoodItem(cells'[d])
    BY <1>1, <1>4, <1>6 DEF Types
  <2> QED
    BY <1>1, <1>2, <1>4, <1>6, <1>7, <2>2, <2>3 DEF Types
<1>9. CountInv'
  BY <1>1, <1>2, <1>4, <1>7 DEF CountInv
<1>10. TextsAreWhole'
  <2>1. ASSUME building PROVE View(message.payload) = texts'[Len(texts')]
    <3>1. Len(texts') \in 1 .. Len(texts) - 1 /\ Len(texts') + 1 = Len(texts)
      BY <1>2, <1>7, <2>1
    <3>2. texts'[Len(texts')] = texts[Len(texts)]
      BY <1>7, <3>1
    <3> QED
      BY <1>1, <2>1, <3>2 DEF TextsAreWhole
  <2>2. ASSUME NEW k \in 1 .. enqueued - (dequeued + 1)
        PROVE  View(cells'[(dequeued + 1 + k - 1) % Cells].payload) = texts'[k]
    <3>1. /\ k + 1 \in 1 .. enqueued - dequeued /\ k \in 1 .. Len(texts) - 1
          /\ dequeued + 1 + k - 1 = dequeued + k /\ dequeued + (k + 1) - 1 = dequeued + k
          /\ dequeued + k \in Nat /\ dequeued < dequeued + k /\ dequeued + k < dequeued + Cells
      BY <1>2
    <3>2. (dequeued + k) % Cells \in 0 .. Cells - 1 /\ (dequeued + k) % Cells # c
      BY <1>2, <3>1, CellsDiffer DEF c
    <3>3. cells'[(dequeued + k) % Cells] = cells[(dequeued + k) % Cells]
      BY <1>1, <1>4, <3>2 DEF Types
    <3>4. View(cells[(dequeued + (k + 1) - 1) % Cells].payload) = texts[k + 1]
      BY <1>1, <3>1 DEF TextsAreWhole
    <3> QED
      BY <1>7, <3>1, <3>3, <3>4
  <2> QED
    BY <1>4, <2>1, <2>2 DEF TextsAreWhole
<1> QED
  BY <1>4, <1>5, <1>6, <1>8, <1>9, <1>10 DEF PathInv

LEMMA PathNext == PathInv /\ [Next]_vars => PathInv'
<1> SUFFICES ASSUME PathInv, [Next]_vars PROVE PathInv'
  OBVIOUS
<1>1. CASE NextIteration
  BY <1>1, NewItemIs DEF PathInv, Types, CountInv, TextsAreWhole, NextIteration
<1>2. CASE UNCHANGED vars
  BY <1>2 DEF PathInv, Types, CountInv, TextsAreWhole, vars
<1> QED
  BY <1>1, <1>2, LogSteps, AppendSteps, EnqueueSteps, DequeueSteps DEF Next

(***************************************************************************)
(* Lines.  What the formatter computes piece by piece is followed with the *)
(* set of the positions up to which something holds.                       *)
(***************************************************************************)

\* A set that has 0 and with every number the next one has all of them up to n.
LEMMA Upwards ==
    ASSUME NEW n \in Nat, NEW G,
           0 \in G, \A i \in 1 .. n : i - 1 \in G => i \in G
    PROVE  \A i \in 0 .. n : i \in G
<1> DEFINE Bad == { i \in 0 .. n : i \notin G }
           R == { ss \in Nat \X Nat : ss[1] < ss[2] }
<1> SUFFICES ASSUME Bad # {} PROVE FALSE
  OBVIOUS
<1>1. IsWellFoundedOn(R, Nat)
  BY NatLessThanWellFounded DEF OpToRel
<1>2. \A p, q \in Bad : q < p => <<q, p>> \in R
  OBVIOUS
<1>3. Bad \in SUBSET Nat
  OBVIOUS
<1>4. PICK p \in Bad : \A q \in Bad : ~ (<<q, p>> \in R)
  <2> HIDE DEF R, Bad
  <2> QED
    BY <1>1, <1>3, WFMin
<1>5. p \in 1 .. n /\ p - 1 \in 0 .. n /\ p - 1 < p
  OBVIOUS
<1>6. p - 1 \in G
  <2>1. p - 1 \notin G => p - 1 \in Bad
    BY <1>5
  <2> HIDE DEF R, Bad
  <2> QED
    BY <1>2, <1>4, <1>5, <2>1
<1> QED
  BY <1>5, <1>6

\* A function on 0 .. n may be defined from its values at smaller arguments; S is the step.
Recurs(f, n, z, S) ==
    f[0] = z /\ \A i \in 1 .. n : f[i] = S[<<i, f[i - 1]>>]

LEMMA Recursion ==
    ASSUME NEW D, NEW z \in D, NEW n \in Nat, NEW S \in [(1 .. n) \X D -> D]
    PROVE  \E f \in [0 .. n -> D] : Recurs(f, n, z, S)
<1> USE DEF Recurs
<1> DEFINE Has(m) == \E f \in [0 .. m -> D] : Recurs(f, m, z, S)
           G == { m \in 0 .. n : Has(m) }
<1>1. 0 \in G
  <2> DEFINE f == [i \in 0 .. 0 |-> z]
  <2>1. f \in [0 .. 0 -> D] /\ f[0] = z /\ 1 .. 0 = {}
    OBVIOUS
  <2> HIDE DEF f
  <2>2. Has(0)
    BY <2>1
  <2> QED
    BY <2>2
<1>2. ASSUME NEW m \in 1 .. n, m - 1 \in G PROVE m \in G
  <2>1. PICK g \in [0 .. m - 1 -> D] :
            g[0] = z /\ \A i \in 1 .. m - 1 : g[i] = S[<<i, g[i - 1]>>]
    BY <1>2
  <2> DEFINE f == [i \in 0 .. m |-> IF i = m THEN S[<<m, g[m - 1]>>] ELSE g[i]]
  <2>2. /\ m \in Nat /\ m # 0 /\ m - 1 \in 0 .. m - 1 /\ 0 \in 0 .. m - 1
        /\ g[m - 1] \in D /\ <<m, g[m - 1]>> \in (1 .. n) \X D
    OBVIOUS
  <2>3. f \in [0 .. m -> D]
    BY <2>2
  <2>4. f[0] = z /\ f[m] = S[<<m, g[m - 1]>>] /\ \A i \in 0 .. m - 1 : f[i] = g[i]
    BY <2>1, <2>2
  <2> HIDE DEF f
  <2>5. ASSUME NEW i \in 1 .. m PROVE f[i] = S[<<i, f[i - 1]>>]
    <3>1. CASE i = m
      <4>1. f[m - 1] = g[m - 1]
        BY <2>2, <2>4
      <4> QED
        BY <3>1, <2>4, <4>1
    <3>2. CASE i # m
      <4>1. i \in 1 .. m - 1 /\ i \in 0 .. m - 1 /\ i - 1 \in 0 .. m - 1
        BY <3>2, <2>2
      <4> QED
        BY <2>1, <2>4, <4>1
    <3> QED
      BY <3>1, <3>2
  <2>6. Has(m)
    BY <2>3, <2>4, <2>5
  <2> HIDE DEF Has
  <2> QED
    BY <2>6
<1> HIDE DEF G, Has
<1>3. n \in G
  BY <1>1, <1>2, Upwards
<1> QED
  BY <1>3 DEF G, Has

Associate(x, y, z) == (x \o y) \o z = x \o (y \o z)

LEMMA Associativity ==
    ASSUME NEW G, NEW x \in Seq(G), NEW y \in Seq(G), NEW z \in Seq(G)
    PROVE  Associate(x, y, z)
BY ConcatAssociative DEF Associate

FieldTypes == { TypeOf[char] : char \in DOMAIN TypeOf }
Tokens(G) == [type : FieldTypes \cup {"Literal"}, literal : Seq(G)]

\* The fields of a message are texts over G.
Fields(G, m) == \A type \in FieldTypes : Field(type, m) \in Seq(G)

LEMMA PieceIs ==
    ASSUME NEW G, NEW m, Fields(G, m), NEW token \in Tokens(G)
    PROVE  Piece(token, m) \in Seq(G)
BY DEF Fields, Tokens, Piece

\* f is what FormatTo has appended to o after each of the tokens.
Appended(f, o, ts, m, G) ==
    /\ f[0] = o /\ \A i \in 1 .. Len(ts) : f[i] = f[i - 1] \o Piece(ts[i], m)
    /\ \A i \in 0 .. Len(ts) : f[i] \in Seq(G)
    /\ FormatTo(o, ts, m) = f[Len(ts)]

LEMMA FormatSteps ==
    ASSUME NEW G, NEW m, Fields(G, m), NEW ts \in Seq(Tokens(G)), NEW o \in Seq(G)
    PROVE  \E f : Appended(f, o, ts, m, G)
<1> DEFINE n == Len(ts)
           Is(f) == f = [i \in 0 .. n |-> IF i = 0 THEN o ELSE f[i - 1] \o Piece(ts[i], m)]
           S == [x \in (1 .. n) \X Seq(G) |-> x[2] \o Piece(ts[x[1]], m)]
<1>1. n \in Nat /\ \A i \in 1 .. n : Piece(ts[i], m) \in Seq(G)
  <2>1. n \in Nat /\ \A i \in 1 .. n : ts[i] \in Tokens(G)
    OBVIOUS
  <2> QED
    BY <2>1, PieceIs
<1> HIDE DEF n
<1>2. S \in [(1 .. n) \X Seq(G) -> Seq(G)]
  BY <1>1, ConcatProperties
<1>3. \A i \in 1 .. n, t \in Seq(G) : S[<<i, t>>] = t \o Piece(ts[i], m)
  OBVIOUS
<1> HIDE DEF S
<1>4. PICK f \in [0 .. n -> Seq(G)] : Recurs(f, n, o, S)
  BY <1>1, <1>2, Recursion
<1>5. f[0] = o /\ \A i \in 1 .. n : f[i] = f[i - 1] \o Piece(ts[i], m)
  <2>1. f[0] = o /\ \A i \in 1 .. n : f[i] = S[<<i, f[i - 1]>>]
    BY <1>4 DEF Recurs
  <2>2. \A i \in 1 .. n : f[i - 1] \in Seq(G)
    BY <1>1
  <2> QED
    BY <1>3, <2>1, <2>2
<1>6. Is(f)
  <2>1. ASSUME NEW i \in 0 .. n
        PROVE  f[i] = IF i = 0 THEN o ELSE f[i - 1] \o Piece(ts[i], m)
    <3>1. i # 0 => i \in 1 .. n
      BY <1>1
    <3> QED
      BY <1>5, <3>1
  <2>2. f = [i \in 0 .. n |-> f[i]]
    BY <1>4
  <2> QED
    BY <2>1, <2>2, Zenon
<1> DEFINE g == CHOOSE h : Is(h)
<1>7. Is(g)
  <2> HIDE DEF Is
  <2> QED
    BY <1>6
<1>8. FormatTo(o, ts, m) = g[n]
  BY DEF FormatTo, n
<1> HIDE DEF g
<1>9. g[0] = o /\ \A i \in 1 .. n : g[i] = g[i - 1] \o Piece(ts[i], m)
  <2>1. \A i \in 0 .. n : g[i] = IF i = 0 THEN o ELSE g[i - 1] \o Piece(ts[i], m)
    BY <1>7
  <2>2. 0 \in 0 .. n /\ \A i \in 1 .. n : i \in 0 .. n /\ i # 0
    BY <1>1
  <2> HIDE DEF Is
  <2> QED
    BY <2>1, <2>2, Zenon
<1> DEFINE Good0 == { i \in 0 .. n : g[i] \in Seq(G) }
<1>10. 0 \in Good0
  BY <1>1, <1>9
<1>11. ASSUME NEW i \in 1 .. n, i - 1 \in Good0 PROVE i \in Good0
  <2>1. g[i - 1] \in Seq(G) /\ Piece(ts[i], m) \in Seq(G) /\ i \in 0 .. n
    BY <1>1, <1>11
  <2>2. g[i - 1] \o Piece(ts[i], m) \in Seq(G)
    BY <2>1, ConcatProperties
  <2> QED
    BY <1>9, <2>1, <2>2
<1>12. \A i \in 0 .. n : i \in Good0
  <2> HIDE DEF Good0
  <2> QED
    BY <1>1, <1>10, <1>11, Upwards
<1>13. Appended(g, o, ts, m, G)
  BY <1>8, <1>9, <1>12 DEF Appended, n
<1> QED
  BY <1>13

LEMMA FormatEmpty == ASSUME NEW G, NEW m, Fields(G, m) PROVE FormatTo(<<>>, <<>>, m) = <<>>
<1>1. <<>> \in Seq(Tokens(G)) /\ <<>> \in Seq(G) /\ Len(<<>>) = 0
  BY EmptySeq
<1>2. PICK f : Appended(f, <<>>, <<>>, m, G)
  BY <1>1, FormatSteps
<1> QED
  BY <1>1, <1>2 DEF Appended

\* The tokens of two lists show what one and the other show.
LEMMA FormatTwo ==
    ASSUME NEW G, NEW m, Fields(G, m), NEW ts \in Seq(Tokens(G)), NEW us \in Seq(Tokens(G))
    PROVE  /\ FormatTo(<<>>, ts \o us, m) = FormatTo(<<>>, ts, m) \o FormatTo(<<>>, us, m)
           /\ FormatTo(<<>>, ts, m) \in Seq(G)
<1> DEFINE n == Len(ts)
           k == Len(us)
           E == <<>>
<1>1. /\ n \in Nat /\ k \in Nat /\ ts \o us \in Seq(Tokens(G)) /\ Len(ts \o us) = n + k
      /\ \A i \in 1 .. n : (ts \o us)[i] = ts[i]
      /\ \A i \in 1 .. k : (ts \o us)[n + i] = us[i]
      /\ E \in Seq(G)
  BY ConcatProperties
<1>2. PICK f : Appended(f, E, ts \o us, m, G)
  BY <1>1, FormatSteps
<1>3. PICK g : Appended(g, E, ts, m, G)
  BY <1>1, FormatSteps
<1>4. PICK h : Appended(h, E, us, m, G)
  BY <1>1, FormatSteps
<1>n. n \in Nat /\ k \in Nat /\ n \in 0 .. n /\ k \in 0 .. k /\ 0 \in 0 .. k
  BY <1>1
<1> HIDE DEF n, k
<1>5. /\ f[0] = E /\ \A i \in 1 .. n + k : f[i] = f[i - 1] \o Piece((ts \o us)[i], m)
      /\ g[0] = E /\ \A i \in 1 .. n : g[i] = g[i - 1] \o Piece(ts[i], m)
      /\ h[0] = E /\ \A i \in 1 .. k : h[i] = h[i - 1] \o Piece(us[i], m)
  BY <1>1, <1>2, <1>3, <1>4 DEF Appended, n, k
<1>r. /\ \A i \in 0 .. n : g[i] \in Seq(G)
      /\ \A i \in 0 .. k : h[i] \in Seq(G)
      /\ FormatTo(E, ts \o us, m) = f[n + k]
      /\ FormatTo(E, ts, m) = g[n] /\ FormatTo(E, us, m) = h[k]
  BY <1>1, <1>2, <1>3, <1>4 DEF Appended, n, k
<1>6. \A i \in 1 .. k : us[i] \in Tokens(G) /\ Piece(us[i], m) \in Seq(G)
  <2>1. \A i \in 1 .. k : us[i] \in Tokens(G)
    BY DEF k
  <2> QED
    BY <2>1, PieceIs
<1> DEFINE A == { i \in 0 .. n : f[i] = g[i] }
<1>7. 0 \in A
  BY <1>1, <1>5
<1>8. ASSUME NEW i \in 1 .. n, i - 1 \in A PROVE i \in A
  <2>1. i \in 1 .. n + k
    BY <1>1
  <2>2. f[i] = f[i - 1] \o Piece((ts \o us)[i], m) /\ (ts \o us)[i] = ts[i] /\ f[i - 1] = g[i - 1]
    BY <1>1, <1>5, <1>8, <2>1
  <2>3. f[i] = g[i]
    BY <1>5, <2>2
  <2> QED
    BY <1>1, <2>3
<1>9. f[n] = g[n]
  <2>1. n \in A
    <3> HIDE DEF A
    <3> QED
      BY <1>n, <1>7, <1>8, Upwards
  <2> QED
    BY <2>1
<1>10. g[n] \in Seq(G)
  BY <1>n, <1>r
<1> DEFINE B == { i \in 0 .. k : f[n + i] = g[n] \o h[i] }
<1>11. 0 \in B
  <2>1. g[n] \o E = g[n]
    BY <1>10, ConcatEmptySeq
  <2>2. f[n + 0] = g[n] \o h[0]
    BY <1>n, <1>5, <1>9, <2>1
  <2> QED
    BY <1>n, <2>2
<1>12. ASSUME NEW i \in 1 .. k, i - 1 \in B PROVE i \in B
  <2>1. n + i \in 1 .. n + k /\ (n + i) - 1 = n + (i - 1) /\ i - 1 \in 0 .. k /\ i \in 0 .. k
    BY <1>1
  <2>2. f[n + i] = f[n + (i - 1)] \o Piece(us[i], m)
    BY <1>1, <1>5, <2>1
  <2>3. f[n + (i - 1)] = g[n] \o h[i - 1] /\ h[i - 1] \in Seq(G)
    BY <1>r, <1>12, <2>1
  <2>4. h[i] = h[i - 1] \o Piece(us[i], m) /\ Piece(us[i], m) \in Seq(G)
    BY <1>5, <1>6
  <2>5. (g[n] \o h[i - 1]) \o Piece(us[i], m) = g[n] \o (h[i - 1] \o Piece(us[i], m))
    <3>1. h[i - 1] \in Seq(G) /\ Piece(us[i], m) \in Seq(G)
      BY <2>3, <2>4
    <3>2. Associate(g[n], h[i - 1], Piece(us[i], m))
      BY <1>10, <3>1, Associativity
    <3> QED
      BY <3>2 DEF Associate
  <2>6. f[n + i] = g[n] \o h[i]
    BY <2>2, <2>3, <2>4, <2>5
  <2> QED
    BY <2>1, <2>6
<1>13. f[n + k] = g[n] \o h[k]
  <2>1. k \in B
    <3> HIDE DEF B
    <3> QED
      BY <1>n, <1>11, <1>12, Upwards
  <2> QED
    BY <2>1
<1> QED
  BY <1>r, <1>10, <1>13

LEMMA FormatOne ==
    ASSUME NEW G, NEW m, Fields(G, m), NEW ts \in Seq(Tokens(G)), NEW token \in Tokens(G)
    PROVE  FormatTo(<<>>, Append(ts, token), m) = FormatTo(<<>>, ts, m) \o Piece(token, m)
<1>1. <<token>> \in Seq(Tokens(G)) /\ Append(ts, token) = ts \o <<token>> /\ <<>> \in Seq(G)
  BY AppendIsConcat
<1>2. PICK f : Appended(f, <<>>, <<token>>, m, G)
  BY <1>1, FormatSteps
<1>3. FormatTo(<<>>, <<token>>, m) = <<>> \o Piece(token, m)
  <2>1. Len(<<token>>) = 1 /\ <<token>>[1] = token
    OBVIOUS
  <2>2. f[0] = <<>> /\ \A i \in 1 .. 1 : f[i] = f[i - 1] \o Piece(<<token>>[i], m)
    BY <1>2, <2>1 DEF Appended
  <2> QED
    BY <1>2, <2>1, <2>2, 1 \in 1 .. 1, 1 - 1 = 0 DEF Appended
<1>4. FormatTo(<<>>, <<token>>, m) = Piece(token, m)
  BY <1>3, PieceIs, ConcatEmptySeq
<1>5. FormatTo(<<>>, ts \o <<token>>, m)
          = FormatTo(<<>>, ts, m) \o FormatTo(<<>>, <<token>>, m)
  BY <1>1, FormatTwo
<1> QED
  BY <1>1, <1>4, <1>5

\* The compiler of patterns, between two characters: what its tokens and its literal show.
States(G) == [tokens : Seq(Tokens(G)), literal : Seq(G), escaped : BOOLEAN]
Shows(c, m) == FormatTo(<<>>, c.tokens, m) \o c.literal

LEMMA ShowsIs ==
    ASSUME NEW G, NEW m, Fields(G, m), NEW c \in States(G)
    PROVE  FormatTo(<<>>, c.tokens, m) \in Seq(G) /\ c.literal \in Seq(G) /\ Shows(c, m) \in Seq(G)
<1>1. c.tokens \in Seq(Tokens(G)) /\ c.literal \in Seq(G)
  BY DEF States
<1>2. FormatTo(<<>>, c.tokens, m) \in Seq(G)
  BY <1>1, FormatTwo
<1> QED
  BY <1>1, <1>2, ConcatProperties DEF Shows

LEMMA FlushLiteralIs ==
    ASSUME NEW G, NEW m, Fields(G, m), NEW c \in States(G)
    PROVE  /\ FlushLiteral(c) \in States(G) /\ FlushLiteral(c).literal = <<>>
           /\ FlushLiteral(c).escaped = c.escaped
           /\ FormatTo(<<>>, FlushLiteral(c).tokens, m) = Shows(c, m)
<1>1. c.tokens \in Seq(Tokens(G)) /\ c.literal \in Seq(G) /\ c.escaped \in BOOLEAN
  BY DEF States
<1>2. CASE c.literal = <<>>
  <2>1. FlushLiteral(c) = c
    BY <1>2 DEF FlushLiteral
  <2>2. Shows(c, m) = FormatTo(<<>>, c.tokens, m)
    BY <1>2, ShowsIs, ConcatEmptySeq DEF Shows
  <2> QED
    BY <1>1, <1>2, <2>1, <2>2
<1>3. CASE c.literal # <<>>
  <2> DEFINE token == Token("Literal", c.literal)
             ts == Append(c.tokens, token)
  <2>1. token \in Tokens(G) /\ Piece(token, m) = c.literal
    BY <1>1 DEF Token, Tokens, Piece
  <2>2. ts \in Seq(Tokens(G))
    BY <1>1, <2>1, AppendProperties
  <2>3. FormatTo(<<>>, ts, m) = Shows(c, m)
    <3> HIDE DEF token
    <3> QED
      BY <1>1, <2>1, FormatOne DEF Shows
  <2> HIDE DEF token, ts
  <2>4. /\ FlushLiteral(c) \in States(G) /\ FlushLiteral(c).tokens = ts
        /\ FlushLiteral(c).literal = <<>> /\ FlushLiteral(c).escaped = c.escaped
    <3>1. FlushLiteral(c) = [c EXCEPT !.tokens = ts, !.literal = <<>>]
      BY <1>1, <1>3 DEF FlushLiteral, States, ts, token
    <3>2. <<>> \in Seq(G)
      BY EmptySeq
    <3> QED
      BY <2>2, <3>1, <3>2 DEF States
  <2> QED
    BY <2>3, <2>4
<1> QED
  BY <1>2, <1>3

LEMMA AddLiteralIs ==
    ASSUME NEW G, NEW m, Fields(G, m), NEW c \in States(G), NEW text \in Seq(G)
    PROVE  /\ AddLiteral(c, text) \in States(G) /\ AddLiteral(c, text).escaped = c.escaped
           /\ Shows(AddLiteral(c, text), m) = Shows(c, m) \o text
<1>1. c.literal \in Seq(G) /\ FormatTo(<<>>, c.tokens, m) \in Seq(G) /\ c.literal \o text \in Seq(G)
  BY ShowsIs, ConcatProperties
<1>2. AddLiteral(c, text) = [c EXCEPT !.literal = c.literal \o text]
  BY DEF AddLiteral, States
<1>3. /\ AddLiteral(c, text) \in States(G) /\ AddLiteral(c, text).escaped = c.escaped
      /\ AddLiteral(c, text).tokens = c.tokens
      /\ AddLiteral(c, text).literal = c.literal \o text
  BY <1>1, <1>2 DEF States
<1>4. FormatTo(<<>>, c.tokens, m) \o (c.literal \o text)
          = (FormatTo(<<>>, c.tokens, m) \o c.literal) \o text
  <2>1. Associate(FormatTo(<<>>, c.tokens, m), c.literal, text)
    BY <1>1, Associativity
  <2> QED
    BY <2>1 DEF Associate
<1> QED
  BY <1>3, <1>4 DEF Shows

\* The tokens that stand behind those of c and its literal, if any.
WithTokens(c, ts) == [FlushLiteral(c) EXCEPT !.tokens = @ \o ts]

LEMMA AddTokensIs ==
    ASSUME NEW G, NEW m, Fields(G, m), NEW c \in States(G), NEW ts \in Seq(Tokens(G))
    PROVE  /\ WithTokens(c, ts) \in States(G) /\ WithTokens(c, ts).escaped = c.escaped
           /\ Shows(WithTokens(c, ts), m) = Shows(c, m) \o FormatTo(<<>>, ts, m)
<1> DEFINE b == FlushLiteral(c)
           d == [b EXCEPT !.tokens = @ \o ts]
<1>1. /\ b \in States(G) /\ b.literal = <<>> /\ b.escaped = c.escaped
      /\ FormatTo(<<>>, b.tokens, m) = Shows(c, m)
  BY FlushLiteralIs
<1> HIDE DEF b
<1>2. b.tokens \in Seq(Tokens(G)) /\ b.tokens \o ts \in Seq(Tokens(G))
  BY <1>1, ConcatProperties DEF States
<1>3. /\ d \in States(G) /\ d.escaped = c.escaped /\ d.tokens = b.tokens \o ts
      /\ d.literal = <<>>
  BY <1>1, <1>2 DEF States
<1> HIDE DEF d
<1>4. FormatTo(<<>>, d.tokens, m) = Shows(c, m) \o FormatTo(<<>>, ts, m)
  <2>1. FormatTo(<<>>, b.tokens \o ts, m) = FormatTo(<<>>, b.tokens, m) \o FormatTo(<<>>, ts, m)
    BY <1>2, FormatTwo
  <2> QED
    BY <1>1, <1>3, <2>1
<1>5. Shows(d, m) = FormatTo(<<>>, d.tokens, m)
  BY <1>3, ShowsIs, ConcatEmptySeq DEF Shows
<1> QED
  BY <1>3, <1>4, <1>5 DEF d, b, WithTokens

\* What the character behind a % stands for, in a line.
Meaning(char, plus, m) ==
    CASE char = "%" -> <<"%">>
      [] char = "+" -> plus
      [] char \in DOMAIN TypeOf -> Field(TypeOf[char], m)
      [] OTHER -> <<"%", char>>

LEMMA TypeOfIs ==
    /\ "%" \notin DOMAIN TypeOf /\ "+" \notin DOMAIN TypeOf
    /\ "v" \in DOMAIN TypeOf /\ TypeOf["v"] = "Payload"
    /\ "Literal" \notin FieldTypes
<1>1. DOMAIN TypeOf = {"Y", "m", "d", "H", "M", "S", "e", "l", "n", "t", "v", "s", "#", "!"}
  BY DEF TypeOf
<1>2. /\ TypeOf["Y"] = "Year" /\ TypeOf["m"] = "Month" /\ TypeOf["d"] = "Day"
      /\ TypeOf["H"] = "Hour" /\ TypeOf["M"] = "Minute" /\ TypeOf["S"] = "Second"
      /\ TypeOf["e"] = "Millisecond" /\ TypeOf["l"] = "Level" /\ TypeOf["n"] = "LoggerName"
      /\ TypeOf["t"] = "ThreadId" /\ TypeOf["v"] = "Payload" /\ TypeOf["s"] = "SourceFile"
      /\ TypeOf["#"] = "SourceLine" /\ TypeOf["!"] = "SourceFunction"
  BY DEF TypeOf
<1> QED
  BY <1>1, <1>2 DEF FieldTypes

LEMMA MeaningIs ==
    ASSUME NEW G, NEW m, Fields(G, m), "%" \in G, NEW char \in G, NEW plus \in Seq(G)
    PROVE  Meaning(char, plus, m) \in Seq(G)
<1>1. CASE char \in DOMAIN TypeOf
  <2>1. TypeOf[char] \in FieldTypes
    BY <1>1 DEF FieldTypes
  <2> QED
    BY <1>1, <2>1, TypeOfIs DEF Fields, Meaning
<1>2. CASE char \notin DOMAIN TypeOf
  <2>1. <<"%">> \in Seq(G) /\ <<"%", char>> \in Seq(G)
    OBVIOUS
  <2> QED
    BY <1>2, <2>1, TypeOfIs DEF Meaning
<1> QED
  BY <1>1, <1>2

\* What %+ stands for, in a line.
Plus(allowed, expansion, m) == IF allowed THEN FormatTo(<<>>, expansion, m) ELSE <<"%", "+">>

LEMMA SpecifierIs ==
    ASSUME NEW G, NEW m, Fields(G, m), "%" \in G, "+" \in G, NEW c \in States(G), NEW char \in G,
           NEW allowed \in BOOLEAN, NEW expansion \in Seq(Tokens(G))
    PROVE  /\ Specifier(c, char, allowed, expansion) \in States(G)
           /\ Shows(Specifier(c, char, allowed, expansion), m)
                  = Shows(c, m) \o Meaning(char, Plus(allowed, expansion, m), m)
<1> DEFINE plus == Plus(allowed, expansion, m)
           d == Specifier(c, char, allowed, expansion)
<1>1. CASE char = "%"
  <2>1. d = AddLiteral(c, <<"%">>) /\ Meaning(char, plus, m) = <<"%">>
    BY <1>1, TypeOfIs DEF Specifier, Meaning
  <2>2. <<"%">> \in Seq(G)
    OBVIOUS
  <2>3. /\ AddLiteral(c, <<"%">>) \in States(G)
        /\ Shows(AddLiteral(c, <<"%">>), m) = Shows(c, m) \o <<"%">>
    BY <2>2, AddLiteralIs
  <2> QED
    BY <2>1, <2>3
<1>2. CASE char = "+" /\ allowed
  <2> DEFINE b == WithTokens(c, expansion)
  <2>1. d = b /\ Meaning(char, plus, m) = plus
    BY <1>2, TypeOfIs DEF Specifier, Meaning, WithTokens
  <2>2. b \in States(G) /\ Shows(b, m) = Shows(c, m) \o FormatTo(<<>>, expansion, m)
    BY AddTokensIs
  <2>3. plus = FormatTo(<<>>, expansion, m) /\ d = b
    <3>1. plus = FormatTo(<<>>, expansion, m)
      BY <1>2 DEF Plus
    <3> QED
      BY <2>1, <3>1, Zenon
  <2> HIDE DEF b, d
  <2>4. d \in States(G) /\ Shows(d, m) = Shows(c, m) \o Meaning(char, plus, m)
    BY <2>1, <2>2, <2>3
  <2> QED
    BY <2>4 DEF d
<1>3. CASE char = "+" /\ ~ allowed
  <2>1. d = AddLiteral(FlushLiteral(c), <<"%", "+">>) /\ Meaning(char, plus, m) = plus
    BY <1>3, TypeOfIs DEF Specifier, Meaning
  <2>2. <<"%", "+">> \in Seq(G) /\ plus = <<"%", "+">>
    BY <1>3 DEF Plus
  <2> DEFINE b == FlushLiteral(c)
  <2>3. b \in States(G) /\ b.literal = <<>> /\ FormatTo(<<>>, b.tokens, m) = Shows(c, m)
    BY FlushLiteralIs
  <2> HIDE DEF b
  <2>4. Shows(b, m) = Shows(c, m)
    <3>1. Shows(c, m) \in Seq(G)
      BY ShowsIs
    <3>2. Shows(c, m) \o <<>> = Shows(c, m)
      BY <3>1, ConcatEmptySeq
    <3>3. Shows(b, m) = FormatTo(<<>>, b.tokens, m) \o b.literal
      BY DEF Shows
    <3> QED
      BY <2>3, <3>2, <3>3, Zenon
  <2>5. d = AddLiteral(b, <<"%", "+">>)
    BY <2>1 DEF b
  <2> QED
    <3>1. /\ AddLiteral(b, <<"%", "+">>) \in States(G)
          /\ Shows(AddLiteral(b, <<"%", "+">>), m) = Shows(b, m) \o <<"%", "+">>
      <4>1. b \in States(G) /\ <<"%", "+">> \in Seq(G)
        BY <2>2, <2>3
      <4>2. PICK text \in Seq(G) : text = <<"%", "+">>
        BY <4>1
      <4>3. AddLiteral(b, text) \in States(G) /\ Shows(AddLiteral(b, text), m) = Shows(b, m) \o text
        BY <4>1, AddLiteralIs
      <4> QED
        BY <4>2, <4>3, Zenon
    <3> QED
      BY <2>1, <2>2, <2>4, <2>5, <3>1, Zenon
<1>4. CASE char \in DOMAIN TypeOf
  <2> DEFINE token == Token(TypeOf[char], <<>>)
  <2>1. d = PushToken(c, TypeOf[char]) /\ Meaning(char, plus, m) = Field(TypeOf[char], m)
    BY <1>4, TypeOfIs DEF Specifier, Meaning
  <2>2. TypeOf[char] \in FieldTypes /\ TypeOf[char] # "Literal" /\ <<>> \in Seq(G)
    BY <1>4, TypeOfIs, EmptySeq DEF FieldTypes
  <2>3. token \in Tokens(G) /\ Piece(token, m) = Field(TypeOf[char], m)
    BY <2>2 DEF Token, Tokens, Piece
  <2> HIDE DEF token
  <2>4. /\ <<token>> \in Seq(Tokens(G)) /\ <<>> \in Seq(Tokens(G))
        /\ Append(<<>>, token) = <<token>>
    BY <2>3
  <2>5. FormatTo(<<>>, <<token>>, m) = Piece(token, m)
    <3>1. FormatTo(<<>>, Append(<<>>, token), m) = FormatTo(<<>>, <<>>, m) \o Piece(token, m)
      BY <2>3, <2>4, FormatOne
    <3>2. FormatTo(<<>>, <<>>, m) = <<>> /\ Piece(token, m) \in Seq(G)
      BY <2>3, FormatEmpty, PieceIs
    <3>3. <<>> \o Piece(token, m) = Piece(token, m)
      BY <3>2, ConcatEmptySeq
    <3> QED
      BY <2>4, <3>1, <3>2, <3>3
  <2>6. PushToken(c, TypeOf[char]) = [FlushLiteral(c) EXCEPT !.tokens = @ \o <<token>>]
    <3>1. FlushLiteral(c).tokens \in Seq(Tokens(G)) /\ FlushLiteral(c) \in States(G)
      BY FlushLiteralIs DEF States
    <3>2. Append(FlushLiteral(c).tokens, token) = FlushLiteral(c).tokens \o <<token>>
      BY <2>3, <3>1, AppendIsConcat
    <3>3. PushToken(c, TypeOf[char])
            = [FlushLiteral(c) EXCEPT !.tokens = Append(FlushLiteral(c).tokens, token)]
      BY DEF PushToken, token
    <3> QED
      BY <3>2, <3>3
  <2> QED
    <3> DEFINE b == WithTokens(c, <<token>>)
    <3>1. b \in States(G) /\ Shows(b, m) = Shows(c, m) \o FormatTo(<<>>, <<token>>, m)
      <4>1. PICK ts \in Seq(Tokens(G)) : ts = <<token>>
        BY <2>4
      <4>2. /\ WithTokens(c, ts) \in States(G)
            /\ Shows(WithTokens(c, ts), m) = Shows(c, m) \o FormatTo(<<>>, ts, m)
        BY AddTokensIs
      <4> QED
        BY <4>1, <4>2, Zenon
    <3>2. d = b
      BY <2>1, <2>6 DEF WithTokens
    <3> HIDE DEF b, d
    <3>3. d \in States(G) /\ Shows(d, m) = Shows(c, m) \o Meaning(char, plus, m)
      BY <2>1, <2>3, <2>5, <3>1, <3>2
    <3> QED
      BY <3>3 DEF d
<1>5. CASE char # "%" /\ char # "+" /\ char \notin DOMAIN TypeOf
  <2>1. d = AddLiteral(c, <<"%", char>>) /\ Meaning(char, plus, m) = <<"%", char>>
    BY <1>5 DEF Specifier, Meaning
  <2>2. <<"%", char>> \in Seq(G)
    OBVIOUS
  <2> QED
    <3>1. /\ AddLiteral(c, <<"%", char>>) \in States(G)
          /\ Shows(AddLiteral(c, <<"%", char>>), m) = Shows(c, m) \o <<"%", char>>
      BY <2>2, AddLiteralIs
    <3> QED
      BY <2>1, <3>1
<1> QED
  BY <1>1, <1>2, <1>3, <1>4, <1>5

\* d is what reading char makes of c.
ReadsOn(c, char, d, plus, m, G) ==
    /\ d \in States(G)
    /\ c.escaped => ~ d.escaped /\ Shows(d, m) = Shows(c, m) \o Meaning(char, plus, m)
    /\ ~ c.escaped /\ char = "%" => d.escaped /\ Shows(d, m) = Shows(c, m)
    /\ ~ c.escaped /\ char # "%" => ~ d.escaped /\ Shows(d, m) = Shows(c, m) \o <<char>>

LEMMA ReadCharIs ==
    ASSUME NEW G, NEW m, Fields(G, m), "%" \in G, "+" \in G, NEW c \in States(G), NEW char \in G,
           NEW allowed \in BOOLEAN, NEW expansion \in Seq(Tokens(G))
    PROVE  ReadsOn(c, char, ReadChar(c, char, allowed, expansion), Plus(allowed, expansion, m),
                   m, G)
<1> DEFINE plus == Plus(allowed, expansion, m)
           d == ReadChar(c, char, allowed, expansion)
<1>t. c.escaped \in BOOLEAN
  BY DEF States
<1>1. CASE c.escaped
  <2> DEFINE b == Specifier(c, char, allowed, expansion)
  <2>1. /\ Specifier(c, char, allowed, expansion) \in States(G)
        /\ Shows(Specifier(c, char, allowed, expansion), m) = Shows(c, m) \o Meaning(char, plus, m)
    BY SpecifierIs
  <2>b. b \in States(G) /\ Shows(b, m) = Shows(c, m) \o Meaning(char, plus, m)
    BY <2>1
  <2>2. d = [b EXCEPT !.escaped = FALSE]
    BY <1>1 DEF ReadChar
  <2> HIDE DEF b, d
  <2>3. /\ d \in States(G) /\ d.escaped = FALSE
        /\ d.tokens = b.tokens /\ d.literal = b.literal
    BY <2>b, <2>2 DEF States
  <2>4. Shows(d, m) = Shows(b, m)
    BY <2>3 DEF Shows
  <2> QED
    BY <1>1, <2>b, <2>3, <2>4 DEF d, ReadsOn
<1>2. CASE ~ c.escaped /\ char = "%"
  <2>1. d = [c EXCEPT !.escaped = TRUE]
    BY <1>2 DEF ReadChar
  <2> HIDE DEF d, ReadsOn
  <2>2. /\ d \in States(G) /\ d.escaped = TRUE
        /\ d.tokens = c.tokens /\ d.literal = c.literal
    BY <2>1 DEF States
  <2>3. Shows(d, m) = Shows(c, m)
    BY <2>2 DEF Shows
  <2> QED
    BY <1>2, <2>2, <2>3 DEF d, ReadsOn
<1>3. CASE ~ c.escaped /\ char # "%"
  <2>1. d = AddLiteral(c, <<char>>)
    BY <1>3 DEF ReadChar
  <2>2. /\ AddLiteral(c, <<char>>) \in States(G) /\ AddLiteral(c, <<char>>).escaped = c.escaped
        /\ Shows(AddLiteral(c, <<char>>), m) = Shows(c, m) \o <<char>>
    <3>1. <<char>> \in Seq(G)
      OBVIOUS
    <3> QED
      BY <3>1, AddLiteralIs
  <2> QED
    BY <1>3, <2>1, <2>2 DEF ReadsOn
<1> QED
  BY <1>t, <1>1, <1>2, <1>3 DEF ReadsOn

\* The run of % that ends at i begins at j.
RunFrom(p, j, i) == /\ j \in 1 .. i /\ \A k \in j .. i : p[k] = "%"
                    /\ j > 1 => p[j - 1] # "%"

LEMMA OneRun ==
    ASSUME NEW p, NEW i \in Nat, NEW j, NEW k, RunFrom(p, j, i), RunFrom(p, k, i)
    PROVE  j = k
<1>1. j \in 1 .. i /\ k \in 1 .. i
  BY DEF RunFrom
<1>2. ~ (j < k)
  <2>1. j < k => k - 1 \in j .. i /\ k > 1
    BY <1>1
  <2> QED
    BY <2>1 DEF RunFrom
<1>3. ~ (k < j)
  <2>1. k < j => j - 1 \in k .. i /\ j > 1
    BY <1>1
  <2> QED
    BY <2>1 DEF RunFrom
<1> QED
  BY <1>1, <1>2, <1>3

LEMMA SomeRun ==
    ASSUME NEW p, NEW n \in Nat, NEW i \in 1 .. n, p[i] = "%"
    PROVE  \E j : RunFrom(p, j, i)
<1> DEFINE Run(k) == k > 0 /\ p[k] = "%" => \E j : RunFrom(p, j, k)
           A == { k \in 0 .. n : Run(k) }
<1>1. 0 \in A
  OBVIOUS
<1>2. ASSUME NEW k \in 1 .. n, k - 1 \in A, p[k] = "%" PROVE \E j : RunFrom(p, j, k)
  <2>1. CASE k > 1 /\ p[k - 1] = "%"
    <3>1. PICK j : RunFrom(p, j, k - 1)
      BY <1>2, <2>1
    <3>2. RunFrom(p, j, k)
      <4>1. j \in 1 .. k - 1 /\ \A l \in j .. k : l \in j .. k - 1 \/ l = k
        BY <3>1 DEF RunFrom
      <4> QED
        BY <1>2, <3>1, <4>1 DEF RunFrom
    <3> QED
      BY <3>2
  <2>2. CASE ~ (k > 1 /\ p[k - 1] = "%")
    <3>1. RunFrom(p, k, k)
      BY <1>2, <2>2 DEF RunFrom
    <3> QED
      BY <3>1
  <2> QED
    BY <2>1, <2>2
<1>3. ASSUME NEW k \in 1 .. n, k - 1 \in A PROVE k \in A
  <2>1. Run(k)
    BY <1>2, <1>3
  <2> HIDE DEF Run
  <2> QED
    BY <2>1
<1>4. i \in A
  <2>1. i \in 0 .. n
    OBVIOUS
  <2> HIDE DEF A
  <2> QED
    BY <1>1, <1>3, <2>1, Upwards
<1> QED
  BY <1>4

\* A % begins a specifier unless the one before it does.
LEMMA BeginsSteps ==
    ASSUME NEW p, NEW i \in Nat \ {0}
    PROVE  Begins(p, i) <=> p[i] = "%" /\ ~ (i > 1 /\ Begins(p, i - 1))
<1>b. \A k : Begins(p, k) <=> p[k] = "%" /\ \E j : (k - j) % 2 = 0 /\ RunFrom(p, j, k)
  BY DEF Begins, RunFrom
<1>1. ASSUME Begins(p, i), i > 1, Begins(p, i - 1) PROVE FALSE
  <2>1. PICK j : (i - j) % 2 = 0 /\ RunFrom(p, j, i)
    BY <1>1, <1>b
  <2>2. PICK k : (i - 1 - k) % 2 = 0 /\ RunFrom(p, k, i - 1)
    BY <1>1, <1>b
  <2>3. p[i - 1] = "%"
    BY <1>1, <1>b
  <2>4. j \in 1 .. i /\ j # i
    BY <1>1, <2>1, <2>3 DEF RunFrom
  <2>5. RunFrom(p, j, i - 1)
    <3>1. j \in 1 .. i - 1 /\ \A l \in j .. i - 1 : l \in j .. i
      BY <2>4
    <3> QED
      BY <2>1, <3>1 DEF RunFrom
  <2>6. j = k
    BY <1>1, <2>2, <2>5, OneRun
  <2> QED
    BY <2>1, <2>2, <2>4, <2>6
<1>2. ASSUME p[i] = "%", ~ (i > 1 /\ Begins(p, i - 1)) PROVE Begins(p, i)
  <2>1. CASE i > 1 /\ p[i - 1] = "%"
    <3>1. i - 1 \in 1 .. i
      BY <2>1
    <3>2. PICK j : RunFrom(p, j, i - 1)
      BY <2>1, <3>1, SomeRun
    <3>3. (i - 1 - j) % 2 # 0
      BY <1>2, <1>b, <2>1, <3>2
    <3>4. j \in 1 .. i - 1
      BY <3>2 DEF RunFrom
    <3>5. (i - j) % 2 = 0
      BY <3>3, <3>4
    <3>6. RunFrom(p, j, i)
      <4>1. \A l \in j .. i : l \in j .. i - 1 \/ l = i
        BY <3>4
      <4> QED
        BY <1>2, <3>2, <3>4, <4>1 DEF RunFrom
    <3> QED
      BY <1>2, <1>b, <3>5, <3>6
  <2>2. CASE ~ (i > 1 /\ p[i - 1] = "%")
    <3>1. RunFrom(p, i, i) /\ (i - i) % 2 = 0
      BY <1>2, <2>2 DEF RunFrom
    <3> QED
      BY <1>2, <1>b, <3>1
  <2> QED
    BY <2>1, <2>2
<1> QED
  BY <1>1, <1>2, <1>b

\* e is what FlattenSeq has put together after each of the texts s.
Flattened(e, s, n, G) ==
    /\ e[0] = <<>> /\ \A i \in 1 .. n : e[i] = e[i - 1] \o s[i]
    /\ \A i \in 0 .. n : e[i] \in Seq(G)
    /\ FlattenSeq(s) = e[n]

LEMMA FlattenSteps ==
    ASSUME NEW G, NEW n \in Nat, NEW s \in [1 .. n -> Seq(G)]
    PROVE  \E e : Flattened(e, s, n, G)
<1> DEFINE E == <<>>
           S == [x \in (1 .. n) \X Seq(G) |-> x[2] \o s[x[1]]]
           Is(f) == f = [i \in 1 .. n |-> IF i = 1 THEN s[i] ELSE f[i - 1] \o s[i]]
<1>1. E \in Seq(G) /\ S \in [(1 .. n) \X Seq(G) -> Seq(G)]
  BY ConcatProperties, EmptySeq
<1>2. \A i \in 1 .. n, t \in Seq(G) : S[<<i, t>>] = t \o s[i]
  OBVIOUS
<1> HIDE DEF S
<1>3. PICK e \in [0 .. n -> Seq(G)] : Recurs(e, n, E, S)
  BY <1>1, Recursion
<1>4. e[0] = E /\ \A i \in 1 .. n : e[i] = e[i - 1] \o s[i]
  <2>1. e[0] = E /\ \A i \in 1 .. n : e[i] = S[<<i, e[i - 1]>>]
    BY <1>3 DEF Recurs
  <2>2. \A i \in 1 .. n : e[i - 1] \in Seq(G)
    OBVIOUS
  <2> QED
    BY <1>2, <2>1, <2>2
<1>5. n > 0 => e[1] = s[1]
  <2>1. n > 0 => 1 \in 1 .. n /\ 1 - 1 = 0
    OBVIOUS
  <2>2. n > 0 => e[1] = E \o s[1] /\ s[1] \in Seq(G)
    BY <1>4, <2>1
  <2> QED
    BY <2>2, ConcatEmptySeq
<1> DEFINE f0 == [i \in 1 .. n |-> e[i]]
<1>6. Is(f0)
  <2>1. ASSUME NEW i \in 1 .. n
        PROVE  f0[i] = IF i = 1 THEN s[i] ELSE f0[i - 1] \o s[i]
    <3>1. CASE i = 1
      BY <1>5, <3>1
    <3>2. CASE i # 1
      <4>1. i - 1 \in 1 .. n
        BY <3>2
      <4>2. f0[i] = e[i] /\ f0[i - 1] = e[i - 1]
        BY <4>1
      <4> QED
        BY <1>4, <3>2, <4>2
    <3> QED
      BY <3>1, <3>2
  <2> QED
    BY <2>1, Zenon
<1> DEFINE g == CHOOSE h : Is(h)
<1>7. Is(g)
  <2> HIDE DEF Is, f0
  <2> QED
    BY <1>6
<1>8. n > 0 => FlattenSeq(s) = g[n]
  <2>1. Len(s) = n
    OBVIOUS
  <2> QED
    BY <2>1 DEF FlattenSeq
<1>9. n = 0 => FlattenSeq(s) = E
  <2>1. Len(s) = n /\ (n = 0 => s = <<>>)
    OBVIOUS
  <2> QED
    BY <2>1 DEF FlattenSeq
<1> HIDE DEF g
<1>10. \A i \in 1 .. n : g[i] = IF i = 1 THEN s[i] ELSE g[i - 1] \o s[i]
  BY <1>7
<1> DEFINE A == { i \in 0 .. n : i > 0 => g[i] = e[i] }
<1>11. 0 \in A
  OBVIOUS
<1>12. ASSUME NEW i \in 1 .. n, i - 1 \in A PROVE i \in A
  <2>1. CASE i = 1
    BY <1>5, <1>10, <2>1
  <2>2. CASE i # 1
    <3>0. i - 1 \in 0 .. n /\ i - 1 > 0
      BY <2>2
    <3>1. g[i] = g[i - 1] \o s[i] /\ g[i - 1] = e[i - 1]
      BY <1>10, <1>12, <2>2, <3>0
    <3>2. g[i] = e[i]
      BY <1>4, <3>1
    <3> QED
      BY <3>2
  <2> QED
    BY <2>1, <2>2
<1>13. n > 0 => g[n] = e[n]
  <2>1. n \in A
    <3>1. n \in 0 .. n
      OBVIOUS
    <3> HIDE DEF A
    <3> QED
      BY <1>11, <1>12, <3>1, Upwards
  <2> QED
    BY <2>1
<1>14. Flattened(e, s, n, G)
  <2>1. n > 0 => FlattenSeq(s) = e[n]
    BY <1>8, <1>13
  <2>2. n = 0 => FlattenSeq(s) = e[n]
    BY <1>4, <1>9
  <2>3. FlattenSeq(s) = e[n]
    BY <2>1, <2>2
  <2> QED
    BY <1>4, <2>3 DEF Flattened
<1> QED
  BY <1>14

\* What a line shows for a character: for a % that begins a specifier what the specifier
\* means, for the specifier nothing, for another character the character.
LEMMA ShownIs ==
    ASSUME NEW G, NEW m, Fields(G, m), "%" \in G, NEW p \in Seq(G), NEW plus \in Seq(G),
           NEW i \in 1 .. Len(p)
    PROVE  LET shown == Shown(p, i, plus, m, View(m.payload)) IN
           /\ shown \in Seq(G)
           /\ i > 1 /\ Begins(p, i - 1) => shown = <<>>
           /\ ~ (i > 1 /\ Begins(p, i - 1)) /\ ~ Begins(p, i) => shown = <<p[i]>>
           /\ Begins(p, i) /\ i = Len(p) => shown = <<"%">>
           /\ Begins(p, i) /\ i # Len(p) => shown = Meaning(p[i + 1], plus, m)
<1> DEFINE text == View(m.payload)
           shown == Shown(p, i, plus, m, text)
           after == i > 1 /\ Begins(p, i - 1)
<1>1. Begins(p, i) => ~ after
  BY BeginsSteps
<1>2. p[i] \in G /\ <<p[i]>> \in Seq(G) /\ <<"%">> \in Seq(G) /\ <<>> \in Seq(G)
  OBVIOUS
<1>3. after => shown = <<>>
  BY DEF Shown
<1>4. ~ after /\ ~ Begins(p, i) => shown = <<p[i]>>
  BY DEF Shown
<1>5. Begins(p, i) /\ i = Len(p) => shown = <<"%">>
  BY <1>1 DEF Shown
<1>6. ASSUME Begins(p, i), i # Len(p)
      PROVE  shown = Meaning(p[i + 1], plus, m) /\ shown \in Seq(G)
  <2> DEFINE c == p[i + 1]
  <2>1. c \in G
    BY <1>6
  <2>2. shown = CASE c = "%" -> <<"%">>
                  [] c = "+" -> plus
                  [] c = "v" -> text
                  [] c \in DOMAIN TypeOf \ {"v"} -> Field(TypeOf[c], m)
                  [] OTHER   -> <<"%", c>>
    BY <1>1, <1>6 DEF Shown
  <2> HIDE DEF c, shown
  <2>3. shown = Meaning(c, plus, m)
    <3>1. Field(TypeOf["v"], m) = text
      BY TypeOfIs DEF Field
    <3> HIDE DEF text
    <3>2. CASE c = "%"
      BY <2>2, <3>2, TypeOfIs DEF Meaning
    <3>3. CASE c = "+"
      BY <2>2, <3>3, TypeOfIs DEF Meaning
    <3>4. CASE c = "v"
      <4>1. shown = text
        BY <2>2, <3>4, TypeOfIs
      <4>2. Meaning(c, plus, m) = Field(TypeOf["v"], m)
        BY <3>4, TypeOfIs DEF Meaning
      <4> QED
        BY <3>1, <4>1, <4>2
    <3>5. CASE c \in DOMAIN TypeOf \ {"v"}
      <4>1. c # "%" /\ c # "+" /\ c # "v" /\ c \in DOMAIN TypeOf
        BY <3>5, TypeOfIs
      <4>2. shown = Field(TypeOf[c], m)
        BY <2>2, <3>5, <4>1
      <4>3. Meaning(c, plus, m) = Field(TypeOf[c], m)
        BY <4>1 DEF Meaning
      <4> QED
        BY <4>2, <4>3
    <3>6. CASE c \notin DOMAIN TypeOf /\ c # "%" /\ c # "+"
      <4>1. c # "v"
        BY <3>6, TypeOfIs
      <4> QED
        BY <2>2, <3>6, <4>1 DEF Meaning
    <3> QED
      BY <3>2, <3>3, <3>4, <3>5, <3>6
  <2>4. Meaning(c, plus, m) \in Seq(G)
    BY <2>1, MeaningIs
  <2> QED
    BY <2>3, <2>4 DEF c
<1> HIDE DEF shown
<1>7. shown \in Seq(G)
  BY <1>1, <1>2, <1>3, <1>4, <1>5, <1>6
<1> QED
  BY <1>3, <1>4, <1>5, <1>6, <1>7 DEF shown

\* r is what Compile has made of the pattern after each of its characters.
Start == [tokens |-> <<>>, literal |-> <<>>, escaped |-> FALSE]
End(c) == IF c.escaped THEN AddLiteral(c, <<"%">>) ELSE c
Reading(r, p, allowed, expansion, G) ==
    /\ r[0] = Start
    /\ \A i \in 1 .. Len(p) : r[i] = ReadChar(r[i - 1], p[i], allowed, expansion)
    /\ \A i \in 0 .. Len(p) : r[i] \in States(G)
    /\ Compile(p, allowed, expansion) = FlushLiteral(End(r[Len(p)])).tokens

LEMMA ReadingExists ==
    ASSUME NEW G, NEW m, Fields(G, m), "%" \in G, "+" \in G, NEW p \in Seq(G),
           NEW allowed \in BOOLEAN, NEW expansion \in Seq(Tokens(G))
    PROVE  \E r : Reading(r, p, allowed, expansion, G)
<1> DEFINE n == Len(p)
           Step(c, i) == ReadChar(c, p[i], allowed, expansion)
           Is(r) == r = [i \in 0 .. n |-> IF i = 0 THEN Start ELSE Step(r[i - 1], i)]
           S == [x \in (1 .. n) \X States(G) |-> Step(x[2], x[1])]
<1>1. n \in Nat /\ \A i \in 1 .. n : p[i] \in G
  OBVIOUS
<1>2. Start \in States(G)
  BY EmptySeq DEF Start, States
<1>3. \A c \in States(G), i \in 1 .. n : Step(c, i) \in States(G)
  BY <1>1, ReadCharIs DEF ReadsOn
<1>8. \A r : Is(r) => r[n] = IF n = 0 THEN Start ELSE Step(r[n - 1], n)
  BY <1>1
<1>c. Compile(p, allowed, expansion) = FlushLiteral(End((CHOOSE r : Is(r))[n])).tokens
  BY DEF Compile, Start, End
<1> HIDE DEF n, Step
<1>4. S \in [(1 .. n) \X States(G) -> States(G)]
  BY <1>3
<1>5. \A i \in 1 .. n, c \in States(G) : S[<<i, c>>] = Step(c, i)
  OBVIOUS
<1> HIDE DEF S
<1>6. PICK r \in [0 .. n -> States(G)] : Recurs(r, n, Start, S)
  BY <1>1, <1>2, <1>4, Recursion
<1>7. Is(r)
  <2>1. r[0] = Start /\ \A i \in 1 .. n : r[i] = S[<<i, r[i - 1]>>]
    BY <1>6 DEF Recurs
  <2>2. ASSUME NEW i \in 0 .. n
        PROVE  r[i] = IF i = 0 THEN Start ELSE Step(r[i - 1], i)
    <3>1. CASE i = 0
      BY <2>1, <3>1
    <3>2. CASE i # 0
      <4>1. i \in 1 .. n /\ i - 1 \in 0 .. n
        BY <1>1, <3>2
      <4>2. r[i - 1] \in States(G)
        BY <4>1
      <4> QED
        BY <1>5, <2>1, <3>2, <4>1, <4>2
    <3> QED
      BY <3>1, <3>2
  <2>3. r = [i \in 0 .. n |-> r[i]]
    BY <1>6
  <2> QED
    BY <2>2, <2>3, Zenon
<1> DEFINE g == CHOOSE h : Is(h)
<1>9. Is(g)
  <2> HIDE DEF Is
  <2> QED
    BY <1>7
<1>10. Compile(p, allowed, expansion) = FlushLiteral(End(g[n])).tokens
  BY <1>c
<1> HIDE DEF g
<1>11. g[0] = Start /\ \A i \in 1 .. n : g[i] = Step(g[i - 1], i)
  <2>1. \A i \in 0 .. n : g[i] = IF i = 0 THEN Start ELSE Step(g[i - 1], i)
    BY <1>9
  <2>2. 0 \in 0 .. n /\ \A i \in 1 .. n : i \in 0 .. n /\ i # 0
    BY <1>1
  <2> HIDE DEF Is
  <2> QED
    BY <2>1, <2>2, Zenon
<1> DEFINE Good0 == { i \in 0 .. n : g[i] \in States(G) }
<1>12. 0 \in Good0
  BY <1>1, <1>2, <1>11
<1>13. ASSUME NEW i \in 1 .. n, i - 1 \in Good0 PROVE i \in Good0
  <2>1. i \in 0 .. n /\ g[i - 1] \in States(G)
    BY <1>1, <1>13
  <2> QED
    BY <1>3, <1>11, <2>1
<1>14. \A i \in 0 .. n : i \in Good0
  <2> HIDE DEF Good0
  <2> QED
    BY <1>1, <1>12, <1>13, Upwards
<1>15. Reading(g, p, allowed, expansion, G)
  BY <1>10, <1>11, <1>14 DEF Reading, n, Step
<1> QED
  BY <1>15

\* The tokens of a pattern show what the pattern means.
LEMMA CompileShows ==
    ASSUME NEW G, NEW m, Fields(G, m), "%" \in G, "+" \in G, NEW p \in Seq(G),
           NEW allowed \in BOOLEAN, NEW expansion \in Seq(Tokens(G))
    PROVE  /\ Compile(p, allowed, expansion) \in Seq(Tokens(G))
           /\ FormatTo(<<>>, Compile(p, allowed, expansion), m)
                  = Expansion(p, Plus(allowed, expansion, m), m, View(m.payload))
<1> DEFINE n == Len(p)
           plus == Plus(allowed, expansion, m)
           text == View(m.payload)
           s == [i \in 1 .. n |-> Shown(p, i, plus, m, text)]
<1>1. n \in Nat /\ n = Len(p) /\ \A i \in 1 .. n : p[i] \in G /\ <<p[i]>> \in Seq(G)
  OBVIOUS
<1>2. plus \in Seq(G)
  <2>1. FormatTo(<<>>, expansion, m) \in Seq(G) /\ <<"%", "+">> \in Seq(G)
    BY FormatTwo
  <2> QED
    BY <2>1 DEF Plus
<1>3. ASSUME NEW i \in 1 .. n
      PROVE  /\ s[i] \in Seq(G)
             /\ i > 1 /\ Begins(p, i - 1) => s[i] = <<>>
             /\ ~ (i > 1 /\ Begins(p, i - 1)) /\ ~ Begins(p, i) => s[i] = <<p[i]>>
             /\ Begins(p, i) /\ i = n => s[i] = <<"%">>
             /\ Begins(p, i) /\ i # n => s[i] = Meaning(p[i + 1], plus, m)
  <2>1. s[i] = Shown(p, i, plus, m, text)
    OBVIOUS
  <2> HIDE DEF s, plus
  <2> QED
    BY <1>2, <2>1, ShownIs
<1>4. Expansion(p, plus, m, text) = FlattenSeq(s)
  BY DEF Expansion
<1>5. s \in [1 .. n -> Seq(G)]
  <2>1. \A i \in 1 .. n : Shown(p, i, plus, m, text) \in Seq(G)
    BY <1>3
  <2> QED
    BY <2>1
<1> HIDE DEF s
<1>6. PICK e : Flattened(e, s, n, G)
  BY <1>1, <1>5, FlattenSteps
<1>7. PICK r : Reading(r, p, allowed, expansion, G)
  BY ReadingExists
<1> HIDE DEF n
<1>8. /\ e[0] = <<>> /\ \A i \in 1 .. n : e[i] = e[i - 1] \o s[i]
      /\ \A i \in 0 .. n : e[i] \in Seq(G)
      /\ Expansion(p, plus, m, text) = e[n]
  BY <1>4, <1>6 DEF Flattened
<1>9. /\ r[0] = Start
      /\ \A i \in 1 .. n : r[i] = ReadChar(r[i - 1], p[i], allowed, expansion)
      /\ \A i \in 0 .. n : r[i] \in States(G)
      /\ Compile(p, allowed, expansion) = FlushLiteral(End(r[n])).tokens
  BY <1>7 DEF Reading, n
<1> HIDE DEF plus, text
<1>10. ASSUME NEW i \in 1 .. n
       PROVE  LET c == r[i - 1]
                  d == r[i]
              IN  /\ d \in States(G)
                  /\ c.escaped =>
                        ~ d.escaped /\ Shows(d, m) = Shows(c, m) \o Meaning(p[i], plus, m)
                  /\ ~ c.escaped /\ p[i] = "%" => d.escaped /\ Shows(d, m) = Shows(c, m)
                  /\ ~ c.escaped /\ p[i] # "%" =>
                        ~ d.escaped /\ Shows(d, m) = Shows(c, m) \o <<p[i]>>
  <2>1. r[i - 1] \in States(G) /\ p[i] \in G
    BY <1>1, <1>9
  <2>2. r[i] = ReadChar(r[i - 1], p[i], allowed, expansion)
    BY <1>9
  <2>3. \A c \in States(G), char \in G :
            ReadsOn(c, char, ReadChar(c, char, allowed, expansion), plus, m, G)
    BY ReadCharIs DEF plus
  <2>4. ReadsOn(r[i - 1], p[i], r[i], plus, m, G)
    BY <2>1, <2>2, <2>3
  <2> QED
    BY <2>4 DEF ReadsOn
\* Behind a % that begins a specifier what the specifier means is still to come.
<1> DEFINE Follows(i) ==
             /\ r[i].escaped <=> i > 0 /\ Begins(p, i)
             /\ ~ r[i].escaped => Shows(r[i], m) = e[i]
             /\ r[i].escaped => Shows(r[i], m) = e[i - 1]
           A == { i \in 0 .. n : Follows(i) }
<1>11. Follows(0)
  <2>1. Shows(Start, m) = <<>>
    <3>1. FormatTo(<<>>, <<>>, m) = <<>> /\ <<>> \o <<>> = <<>>
      BY FormatEmpty
    <3> QED
      BY <3>1 DEF Shows, Start
  <2> QED
    BY <1>8, <1>9, <2>1 DEF Start
<1>12. ASSUME NEW i \in 1 .. n, Follows(i - 1) PROVE Follows(i)
  <2>1. /\ e[i] = e[i - 1] \o s[i] /\ e[i - 1] \in Seq(G) /\ s[i] \in Seq(G)
        /\ Begins(p, i) <=> p[i] = "%" /\ ~ (i > 1 /\ Begins(p, i - 1))
        /\ r[i - 1].escaped <=> i > 1 /\ Begins(p, i - 1)
    <3>1. i \in Nat \ {0} /\ i - 1 \in 0 .. n /\ (i - 1 > 0 <=> i > 1)
      BY <1>1
    <3> QED
      BY <1>3, <1>8, <1>12, <3>1, BeginsSteps
  <2>2. CASE r[i - 1].escaped
    <3>1. i - 1 \in 1 .. n /\ i - 1 # n /\ (i - 1) + 1 = i
      BY <1>1, <2>1, <2>2
    <3>2. s[i - 1] = Meaning(p[i], plus, m)
      BY <1>3, <2>1, <2>2, <3>1 DEF plus
    <3>3. Shows(r[i - 1], m) = e[(i - 1) - 1] /\ e[i - 1] = e[(i - 1) - 1] \o s[i - 1]
      BY <1>8, <1>12, <2>2, <3>1
    <3>4. s[i] = <<>>
      BY <1>3, <2>1, <2>2
    <3>5. e[i] = e[i - 1]
      BY <2>1, <3>4, ConcatEmptySeq
    <3>6. ~ r[i].escaped /\ Shows(r[i], m) = Shows(r[i - 1], m) \o Meaning(p[i], plus, m)
      BY <1>10, <2>2
    <3>7. Shows(r[i], m) = e[i]
      BY <3>2, <3>3, <3>5, <3>6
    <3> QED
      BY <2>1, <2>2, <3>6, <3>7
  <2>3. CASE ~ r[i - 1].escaped /\ p[i] = "%"
    <3>1. r[i].escaped /\ Shows(r[i], m) = Shows(r[i - 1], m)
      BY <1>10, <2>3
    <3>2. Shows(r[i - 1], m) = e[i - 1]
      BY <1>12, <2>3
    <3> QED
      BY <1>1, <2>1, <2>3, <3>1, <3>2
  <2>4. CASE ~ r[i - 1].escaped /\ p[i] # "%"
    <3>1. ~ r[i].escaped /\ Shows(r[i], m) = Shows(r[i - 1], m) \o <<p[i]>>
      BY <1>10, <2>4
    <3>2. Shows(r[i - 1], m) = e[i - 1] /\ s[i] = <<p[i]>>
      BY <1>3, <1>12, <2>1, <2>4
    <3>3. Shows(r[i], m) = e[i]
      BY <2>1, <3>1, <3>2
    <3> QED
      BY <2>1, <2>4, <3>1, <3>3
  <2> QED
    BY <2>2, <2>3, <2>4
<1>13. Follows(n)
  <2>1. n \in 0 .. n /\ 0 \in A
    BY <1>1, <1>11
  <2>2. ASSUME NEW i \in 1 .. n, i - 1 \in A PROVE i \in A
    <3> HIDE DEF Follows
    <3> QED
      BY <1>12, <2>2
  <2>3. n \in A
    <3> HIDE DEF A
    <3> QED
      BY <1>1, <2>1, <2>2, Upwards
  <2> QED
    BY <2>3
<1>14. End(r[n]) \in States(G) /\ Shows(End(r[n]), m) = e[n]
  <2>1. r[n] \in States(G) /\ <<"%">> \in Seq(G)
    BY <1>1, <1>9
  <2>2. CASE r[n].escaped
    <3>1. n \in 1 .. n /\ Begins(p, n) /\ Shows(r[n], m) = e[n - 1]
      BY <1>1, <1>13, <2>2
    <3>2. s[n] = <<"%">> /\ e[n] = e[n - 1] \o s[n]
      BY <1>3, <1>8, <3>1
    <3>3. End(r[n]) = AddLiteral(r[n], <<"%">>)
      BY <2>2 DEF End
    <3>4. /\ AddLiteral(r[n], <<"%">>) \in States(G)
          /\ Shows(AddLiteral(r[n], <<"%">>), m) = Shows(r[n], m) \o <<"%">>
      <4>1. ASSUME NEW c \in States(G)
            PROVE  /\ AddLiteral(c, <<"%">>) \in States(G)
                   /\ Shows(AddLiteral(c, <<"%">>), m) = Shows(c, m) \o <<"%">>
        BY <2>1, AddLiteralIs
      <4> QED
        BY <2>1, <4>1
    <3>5. Shows(AddLiteral(r[n], <<"%">>), m) = e[n]
      BY <3>1, <3>2, <3>4
    <3> QED
      BY <3>3, <3>4, <3>5, Zenon
  <2>3. CASE ~ r[n].escaped
    BY <1>13, <2>1, <2>3 DEF End
  <2> QED
    BY <2>2, <2>3
<1>15. /\ FlushLiteral(End(r[n])) \in States(G)
       /\ FormatTo(<<>>, FlushLiteral(End(r[n])).tokens, m) = Shows(End(r[n]), m)
  BY <1>14, FlushLiteralIs
<1>16. Compile(p, allowed, expansion) \in Seq(Tokens(G))
  BY <1>9, <1>15 DEF States
<1> QED
  BY <1>8, <1>9, <1>14, <1>15, <1>16 DEF plus, text

\* A line shows the item and what the pattern says of it, %+ included.
LEMMA LineIs ==
    ASSUME NEW p \in Patterns, NEW m, GoodItem(m), View(m.payload) \in Texts
    PROVE  LET text == View(m.payload)
               plus == Expansion(DefaultPattern, <<"%", "+">>, m, text)
           IN  FormatTo(<<>>, RebuildTokens(p), m) = Expansion(p, plus, m, text)
<1> DEFINE G == Characters \cup {"%", "+"} \cup FieldTypes \cup {m.level, m.line}
                           \cup ToSet(p) \cup ToSet(DefaultPattern)
           text == View(m.payload)
           standard == Compile(DefaultPattern, FALSE, <<>>)
<1>1. \A S, t : S \subseteq G /\ t \in Seq(S) => t \in Seq(G)
  <2> HIDE DEF G
  <2> QED
    OBVIOUS
<1>2. p \in Seq(G) /\ DefaultPattern \in Seq(G) /\ text \in Seq(G)
  <2>1. /\ p \in Seq(ToSet(p)) /\ DefaultPattern \in Seq(ToSet(DefaultPattern))
        /\ text \in Seq(Characters)
    BY PatternAssumption DEF Texts
  <2>2. ToSet(p) \subseteq G /\ ToSet(DefaultPattern) \subseteq G /\ Characters \subseteq G
    OBVIOUS
  <2> HIDE DEF G, text
  <2> QED
    BY <1>1, <2>1, <2>2
<1>3. Fields(G, m)
  <2>1. \A type \in FieldTypes : type \in G
    OBVIOUS
  <2>2. m.level \in G /\ m.line \in G
    OBVIOUS
  <2> HIDE DEF G
  <2>3. <<>> \in Seq(G) /\ <<m.level>> \in Seq(G) /\ <<m.line>> \in Seq(G)
        /\ \A type \in FieldTypes : <<type>> \in Seq(G)
    BY <2>1, <2>2
  <2>4. ASSUME NEW type \in FieldTypes PROVE Field(type, m) \in Seq(G)
    <3>1. CASE type = "Payload"
      BY <1>2, <3>1 DEF Field
    <3>2. CASE type = "Level"
      BY <2>3, <3>2 DEF Field
    <3>3. CASE type = "SourceLine"
      BY <2>3, <3>3 DEF Field
    <3>4. CASE type # "Payload" /\ type # "Level" /\ type # "SourceLine"
      BY <2>3, <3>4 DEF Field
    <3> QED
      BY <3>1, <3>2, <3>3, <3>4
  <2> QED
    BY <2>4 DEF Fields
<1>4. "%" \in G /\ "+" \in G /\ <<>> \in Seq(Tokens(G))
  <2>1. "%" \in G /\ "+" \in G
    OBVIOUS
  <2> QED
    BY <2>1, EmptySeq
<1> HIDE DEF G, text
<1>5. /\ standard \in Seq(Tokens(G))
      /\ FormatTo(<<>>, standard, m) = Expansion(DefaultPattern, Plus(FALSE, <<>>, m), m, text)
  <2>1. FALSE \in BOOLEAN
    OBVIOUS
  <2> QED
    BY <1>2, <1>3, <1>4, <2>1, CompileShows DEF text
<1>6. Plus(FALSE, <<>>, m) = <<"%", "+">>
  BY DEF Plus
<1> HIDE DEF standard
<1>7. FormatTo(<<>>, Compile(p, TRUE, standard), m) = Expansion(p, Plus(TRUE, standard, m), m, text)
  <2>1. TRUE \in BOOLEAN
    OBVIOUS
  <2>2. \A e \in Seq(Tokens(G)) :
            FormatTo(<<>>, Compile(p, TRUE, e), m) = Expansion(p, Plus(TRUE, e, m), m, text)
    BY <1>2, <1>3, <1>4, <2>1, CompileShows DEF text
  <2> QED
    BY <1>5, <2>2
<1>8. Plus(TRUE, standard, m) = FormatTo(<<>>, standard, m)
  BY DEF Plus
<1>9. RebuildTokens(p) = Compile(p, TRUE, standard)
  BY DEF RebuildTokens, standard
<1> QED
  BY <1>5, <1>6, <1>7, <1>8, <1>9 DEF text

\* The formatter keeps its pattern and the tokens of it.
Formatter == pattern \in Patterns /\ tokens = RebuildTokens(pattern)

LEMMA FormatterInvariant == Spec => []Formatter
<1>1. Init => Formatter
  BY DEF Init, Formatter
<1>2. Formatter /\ [Next]_vars => Formatter'
  <2> SUFFICES ASSUME Formatter, [Next]_vars PROVE Formatter'
    OBVIOUS
  <2>1. UNCHANGED <<pattern, tokens>>
    BY DEF Next, vars, Log, AppendPayloadPart, Enqueue, Dequeue, NextIteration
  <2> QED
    BY <2>1 DEF Formatter
<1> QED
  BY <1>1, <1>2, PTL DEF Spec

(***************************************************************************)
(* The theorems.                                                           *)
(***************************************************************************)

\* Payloads are in order and show their texts, for every number of cells and messages.
THEOREM PathInvariant == Spec => []PathInv
<1> QED
  BY PathInit, PathNext, PTL DEF Spec

\* Every payload, one that was moved from included, points to a terminated buffer of its own
\* that is as large as it says.
THEOREM PayloadsTheorem == Spec => []PayloadsWellFormed
<1>1. PathInv => PayloadsWellFormed
  <2> SUFFICES ASSUME PathInv PROVE PayloadsWellFormed
    OBVIOUS
  <2>1. Types /\ DOMAIN cells = 0 .. Cells - 1
    BY DEF PathInv, Types
  <2> QED
    BY <2>1 DEF Types, GoodItem, Good, PayloadsWellFormed
<1> QED
  BY <1>1, PathInvariant, PTL

\* A text waits in its payload as the arguments of Log made it up.
THEOREM TextsTheorem == Spec => []TextsAreWhole
<1>1. PathInv => TextsAreWhole
  BY DEF PathInv
<1> QED
  BY <1>1, PathInvariant, PTL

\* The sink gets the texts of the messages, each once and in the order of their enqueuing.
THEOREM TextsArrive == Spec => [][dequeued' # dequeued => View(item'.payload) = texts[1]]_vars
<1>1. PathInv /\ [Next]_vars => [dequeued' # dequeued => View(item'.payload) = texts[1]]_vars
  <2> SUFFICES ASSUME PathInv, Next, dequeued' # dequeued
               PROVE  View(item'.payload) = texts[1]
    BY DEF vars
  <2>1. Dequeue
    BY DEF Next, Log, AppendPayloadPart, Enqueue, NextIteration
  <2> QED
    BY <2>1, DequeueSteps
<1> QED
  BY <1>1, PathInvariant, PTL DEF Spec

\* A line shows what the pattern says of the message: the text that its arguments make up,
\* the other fields, and everything else of the pattern as it stands.
THEOREM LinesShowMessagesTheorem == Spec => LinesShowMessages
<1> DEFINE Line(text, m, l) ==
             l = Expansion(pattern, Expansion(DefaultPattern, <<"%", "+">>, m, text), m, text)
<1>1. PathInv /\ Formatter /\ [Next]_vars
          => [dequeued' # dequeued => Line(texts[1], item', line')]_vars
  <2> SUFFICES ASSUME PathInv, Formatter, Next, dequeued' # dequeued
               PROVE  Line(texts[1], item', line')
    BY DEF vars
  <2>1. Dequeue
    BY DEF Next, Log, AppendPayloadPart, Enqueue, NextIteration
  <2>2. PathInv' /\ View(item'.payload) = texts[1]
    BY <2>1, DequeueSteps
  <2>3. GoodItem(item')
    BY <2>2 DEF PathInv, Types
  <2>4. texts[1] \in Texts
    <3>1. texts \in Seq(Texts) /\ Len(texts) >= 1
      BY <2>1, PathAssumption DEF PathInv, Types, CountInv, Dequeue
    <3> QED
      BY <3>1
  <2>5. line' = FormatTo(<<>>, RebuildTokens(pattern), item') /\ pattern \in Patterns
    BY <2>1 DEF Dequeue, Formatter
  <2>6. FormatTo(<<>>, RebuildTokens(pattern), item')
            = Expansion(pattern,
                        Expansion(DefaultPattern, <<"%", "+">>, item', View(item'.payload)),
                        item', View(item'.payload))
    BY <2>2, <2>3, <2>4, <2>5, LineIs
  <2> QED
    BY <2>2, <2>5, <2>6
<1> QED
  BY <1>1, PathInvariant, FormatterInvariant, PTL DEF Spec, LinesShowMessages
===============================================================================
