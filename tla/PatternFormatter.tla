---------------------------- MODULE PatternFormatter ----------------------------
(***************************************************************************)
(* hlog::PatternFormatter (src/core/pattern_formatter.cpp): a pattern, as a *)
(* sequence of characters, is cut into tokens once, and each message is    *)
(* formatted from the tokens.                                              *)
(***************************************************************************)
EXTENDS LogPayload, SequencesExt

CONSTANT DefaultPattern   \* kDefaultLogPattern

\* The token type of each specifier; RebuildTokens treats %% and %+ apart.
TypeOf == [char \in {"Y", "m", "d", "H", "M", "S", "e", "l", "n", "t", "v", "s", "#", "!"} |->
    CASE char = "Y" -> "Year"         [] char = "m" -> "Month"
      [] char = "d" -> "Day"          [] char = "H" -> "Hour"
      [] char = "M" -> "Minute"       [] char = "S" -> "Second"
      [] char = "e" -> "Millisecond"  [] char = "l" -> "Level"
      [] char = "n" -> "LoggerName"   [] char = "t" -> "ThreadId"
      [] char = "v" -> "Payload"      [] char = "s" -> "SourceFile"
      [] char = "#" -> "SourceLine"   [] char = "!" -> "SourceFunction"]

Token(type, literal) == [type |-> type, literal |-> literal]

FlushLiteral(c) == IF c.literal = <<>> THEN c
                   ELSE [c EXCEPT !.tokens = Append(@, Token("Literal", c.literal)),
                                  !.literal = <<>>]

AddLiteral(c, text) == [c EXCEPT !.literal = @ \o text]

\* Seeded fault: the literal before a field is not flushed first.
PushTokenFirst(c, type) == [c EXCEPT !.tokens = Append(@, Token(type, <<>>))]

PushToken(c, type) == [FlushLiteral(c) EXCEPT !.tokens = Append(@, Token(type, <<>>))]

\* The character behind a %; where it is allowed, %+ stands for expansion.
Specifier(c, char, allowed, expansion) ==
    CASE char = "%" -> AddLiteral(c, <<"%">>)
      [] char = "+" /\ allowed   -> [FlushLiteral(c) EXCEPT !.tokens = @ \o expansion]
      [] char = "+" /\ ~ allowed -> AddLiteral(FlushLiteral(c), <<"%", "+">>)
      [] char \in DOMAIN TypeOf -> PushToken(c, TypeOf[char])
      [] OTHER -> AddLiteral(c, <<"%", char>>)

ReadChar(c, char, allowed, expansion) ==
    CASE c.escaped -> [Specifier(c, char, allowed, expansion) EXCEPT !.escaped = FALSE]
      [] ~ c.escaped /\ char = "%" -> [c EXCEPT !.escaped = TRUE]
      [] ~ c.escaped /\ char # "%" -> AddLiteral(c, <<char>>)

Compile(pattern, allowed, expansion) ==
    LET read[i \in 0 .. Len(pattern)] ==
            IF i = 0 THEN [tokens |-> <<>>, literal |-> <<>>, escaped |-> FALSE]
            ELSE ReadChar(read[i - 1], pattern[i], allowed, expansion)
        end == read[Len(pattern)]
    IN  FlushLiteral(IF end.escaped THEN AddLiteral(end, <<"%">>) ELSE end).tokens

RebuildTokens(pattern) == Compile(pattern, TRUE, Compile(DefaultPattern, FALSE, <<>>))

\* What a field shows of a message; a field other than these stands for its value.
Field(type, message) ==
    CASE type = "Payload"    -> View(message.payload)
      [] type = "Level"      -> <<message.level>>
      [] type = "SourceLine" -> IF message.line > 0 THEN <<message.line>> ELSE <<>>
      [] OTHER               -> <<type>>

Piece(token, message) == IF token.type = "Literal" THEN token.literal
                         ELSE Field(token.type, message)

\* FormatTo appends the line to output.
FormatTo(output, tokens, message) ==
    LET appended[i \in 0 .. Len(tokens)] ==
            IF i = 0 THEN output ELSE appended[i - 1] \o Piece(tokens[i], message)
    IN  appended[Len(tokens)]
===============================================================================
