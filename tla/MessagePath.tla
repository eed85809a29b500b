------------------------------- MODULE MessagePath -------------------------------
(***************************************************************************)
(* The way of a message's text: BuildPayload puts it together from the     *)
(* arguments of Log, moves take it into a cell of the queue and out again  *)
(* into the worker's item, and a sink's PatternFormatter makes a line of   *)
(* it.  Cells and the worker's item are used again for later messages.     *)
(* One producer; RingBuffer shows that nobody else is at a cell.           *)
(***************************************************************************)
EXTENDS PatternFormatter

CONSTANTS Patterns,              \* patterns of the sink
          Parts,                 \* texts of arguments
          Levels, Lines,         \* of messages; line 0 is no source location
          Cells,                 \* cells of the queue
          MaxText,               \* bound: characters in one message
          MaxMessages            \* bound: messages

Characters == (UNION { ToSet(text) : text \in Parts }) \cup {Nul, Junk}

ASSUME PathAssumption == /\ Cells \in Nat \ {0} /\ MaxText \in Nat /\ MaxMessages \in Nat
                         /\ Parts \subseteq Seq(Characters)

ASSUME BlockAssumption == NoBlock \notin Seq(Characters)

ASSUME PatternAssumption == \A p \in Patterns \cup {DefaultPattern} : p \in Seq(ToSet(p))

VARIABLES
    pattern, tokens,   \* pattern_ and tokens_ of the formatter
    message,           \* the QueueItem Log fills
    cells,             \* the values of the queue's cells
    enqueued, dequeued,
    item,              \* the QueueItem of WorkerLoop
    line,              \* the last line formatted
    building,          \* has Log begun a message?
    texts              \* history: texts of the messages not yet formatted, oldest first

vars == <<pattern, tokens, message, cells, enqueued, dequeued, item, line, building, texts>>

NewItem == [payload |-> NewPayload, level |-> "INFO", line |-> 0]

Init == /\ pattern \in Patterns /\ tokens = RebuildTokens(pattern)
        /\ message = NewItem /\ item = NewItem
        /\ cells = [c \in 0 .. Cells - 1 |-> NewItem]
        /\ enqueued = 0 /\ dequeued = 0
        /\ line = <<>> /\ building = FALSE /\ texts = <<>>

Log == /\ ~ building /\ enqueued < MaxMessages
       /\ \E level \in Levels, l \in Lines :
             message' = [payload |-> NewPayload, level |-> level, line |-> l]
       /\ building' = TRUE
       /\ texts' = Append(texts, <<>>)
       /\ UNCHANGED <<pattern, tokens, cells, enqueued, dequeued, item, line>>

\* One argument: a text, or a single character.
AppendPayloadPart ==
    /\ building
    /\ \E text \in Parts :
          /\ message.payload.size + Len(text) <= MaxText
          /\ texts' = [texts EXCEPT ![Len(texts)] = @ \o text]
          /\ \/ message' = [message EXCEPT !.payload = AppendText(@, text)]
             \/ Len(text) = 1 /\ message' = [message EXCEPT !.payload = PushBack(@, text[1])]
    /\ UNCHANGED <<pattern, tokens, cells, enqueued, dequeued, item, line, building>>

\* Move assignment of a QueueItem.
MoveItem(this, other) ==
    LET moved == MoveFrom(this.payload, other.payload) IN
    [this  |-> [other EXCEPT !.payload = moved.this],
     other |-> [other EXCEPT !.payload = moved.other]]

Enqueue == /\ building
           /\ enqueued - dequeued < Cells
           /\ LET c == enqueued % Cells
                  moved == MoveItem(cells[c], message)
              IN  cells' = [cells EXCEPT ![c] = moved.this] /\ message' = moved.other
           /\ enqueued' = enqueued + 1 /\ building' = FALSE
           /\ UNCHANGED <<pattern, tokens, dequeued, item, line, texts>>

\* TryDequeue and the sink's Write.
Dequeue == /\ dequeued < enqueued
           /\ LET c == dequeued % Cells
                  moved == MoveItem(item, cells[c])
              IN  item' = moved.this /\ cells' = [cells EXCEPT ![c] = moved.other]
           /\ line' = FormatTo(<<>>, tokens, item')
           /\ dequeued' = dequeued + 1
           /\ texts' = Tail(texts)
           /\ UNCHANGED <<pattern, tokens, message, enqueued, building>>

\* WorkerLoop begins an iteration, with an item of its own.
NextIteration == /\ item' = NewItem
                 /\ UNCHANGED <<pattern, tokens, message, cells, enqueued, dequeued, line,
                                building, texts>>

Next == Log \/ AppendPayloadPart \/ Enqueue \/ Dequeue \/ NextIteration

Spec == Init /\ [][Next]_vars

-------------------------------------------------------------------------------
(* What a pattern means, without tokens: a % begins a specifier if the run *)
(* of % that ends with it is odd.                                          *)

Begins(p, i) == p[i] = "%" /\ \E j \in 1 .. i : /\ (i - j) % 2 = 0
                                                /\ \A k \in j .. i : p[k] = "%"
                                                /\ j > 1 => p[j - 1] # "%"

\* What a line shows for the i-th character; a specifier is shown at its %.
Shown(p, i, plus, m, text) ==
    IF i > 1 /\ Begins(p, i - 1) THEN <<>>
    ELSE IF ~ Begins(p, i) THEN <<p[i]>>
    ELSE IF i = Len(p) THEN <<"%">>
    ELSE LET s == p[i + 1] IN
         CASE s = "%" -> <<"%">>
           [] s = "+" -> plus
           [] s = "v" -> text
           [] s \in DOMAIN TypeOf \ {"v"} -> Field(TypeOf[s], m)
           [] OTHER   -> <<"%", s>>

Expansion(p, plus, m, text) == FlattenSeq([i \in 1 .. Len(p) |-> Shown(p, i, plus, m, text)])

\* The line of a message shows what the pattern says of it: the text its arguments make up,
\* wherever payloads have been moved and whatever cell and item held before, and
\* everything else of the pattern literally, % in texts included.
LinesShowMessages ==
    [][ dequeued' # dequeued =>
          LET text == texts[1]
              plus == Expansion(DefaultPattern, <<"%", "+">>, item', text)
          IN  line' = Expansion(pattern, plus, item', text) ]_vars

\* A message's text is what its arguments make up, as long as Log is at it and while it
\* waits in its cell, whatever was there before and whatever has been moved since.
TextsAreWhole ==
    /\ building => View(message.payload) = texts[Len(texts)]
    /\ \A k \in 1 .. enqueued - dequeued :
          View(cells[(dequeued + k - 1) % Cells].payload) = texts[k]

\* Every payload, one that was moved from included, points to a buffer of its own that
\* holds its text and a terminator.
PayloadsWellFormed ==
    /\ WellFormed(message.payload) /\ WellFormed(item.payload)
    /\ \A c \in DOMAIN cells : WellFormed(cells[c].payload)
===============================================================================
