----------------------------- MODULE OllamaStream -----------------------------
(***************************************************************************)
(* The answer of Ollama as it streams in (OllamaProvider::                 *)
(* generate_streaming, src/src/inference/ollama.rs).  The server sends     *)
(* lines of JSON; they arrive in chunks that are cut anywhere, are put     *)
(* together in a buffer, and every whole line yields a piece of text.      *)
(*                                                                         *)
(* A line is sent as a first half, a second half and a newline, the last   *)
(* one perhaps without its newline.  The halves meet inside a character of *)
(* it: each chunk is decoded by itself, so when one ends there the buffer  *)
(* gets replacement characters, and the line is read with damaged text.    *)
(***************************************************************************)
EXTENDS Naturals, Sequences

CONSTANT
    Answers         \* answers of the server: sequences of lines

\* A line carries text, or only says that the answer is done, or cannot be read.
Lines == {"text", "done", "garbage", "blank"}
OllamaAssumption == Answers \subseteq Seq(Lines)

Halves == {"first", "second", "cut"}
Newline == <<0, "newline">>
Bytes == ((Nat \ {0}) \X Halves) \cup {Newline}

VARIABLES
    lines,          \* the lines of the answer
    coming,         \* bytes that are still to arrive
    buffer,         \* line_buf
    given,          \* lines whose text went to on_delta and into full_text
    damaged,        \* of these, the ones with damaged text
    counted,        \* eval_count was seen
    result,         \* "reading", "ok" or "error"
    torn            \* lines inside which a chunk has ended

vars == <<lines, coming, buffer, given, damaged, counted, result, torn>>

Sent(answer, newline) ==
    [i \in 1 .. (IF answer = <<>> \/ newline THEN 3 * Len(answer) ELSE 3 * Len(answer) - 1) |->
       CASE i % 3 = 1 -> <<(i + 2) \div 3, "first">>
         [] i % 3 = 2 -> <<(i + 2) \div 3, "second">>
         [] OTHER -> Newline]

Init ==
    /\ lines \in Answers
    /\ \E newline \in BOOLEAN : coming = Sent(lines, newline)
    /\ buffer = <<>> /\ given = <<>>
    /\ damaged = {} /\ counted = FALSE /\ result = "reading" /\ torn = {}

-------------------------------------------------------------------------------

\* A chunk that ends or begins inside a character spoils that character.
Spoil(chunk) ==
    [i \in DOMAIN chunk |->
       IF chunk[i] = Newline THEN Newline
       ELSE IF \/ i = 1 /\ chunk[i][2] = "second"
               \/ i = Len(chunk) /\ chunk[i][2] = "first"
            THEN <<chunk[i][1], "cut">> ELSE chunk[i]]

LineOf(bytes) == bytes[1][1]
Cut(bytes) == \E i \in DOMAIN bytes : bytes[i][2] = "cut"

\* One line: its text is handed on and kept; other lines only count or are
\* skipped.
Read(line, state) ==
    LET n == LineOf(line)
    IN  CASE lines[n] = "text" ->
              [state EXCEPT !.texts = Append(@, n),
                            !.hurt = @ \cup (IF Cut(line) THEN {n} ELSE {})]
          [] lines[n] = "done" -> [state EXCEPT !.count = TRUE]
          [] OTHER -> state

\* What was read before the buffer, and what reading the bytes makes of it: each
\* newline ends a line, the bytes after the last one are kept.
Before == [texts |-> given, hurt |-> damaged, count |-> counted, line |-> <<>>]
ReadByte(state, byte) ==
    IF byte = Newline THEN [Read(state.line, state) EXCEPT !.line = <<>>]
    ELSE [state EXCEPT !.line = Append(@, byte)]
Reading(bytes) ==
    LET read[i \in 0 .. Len(bytes)] ==
          IF i = 0 THEN Before ELSE ReadByte(read[i - 1], bytes[i])
    IN  read[Len(bytes)]

Becomes(state) ==
    /\ given' = state.texts /\ damaged' = state.hurt /\ counted' = state.count

\* The buffer with the next n bytes.
Buffered(n) == buffer \o Spoil(SubSeq(coming, 1, n))
Arrive(n) ==
    /\ result = "reading" /\ n \in DOMAIN coming
    /\ coming' = SubSeq(coming, n + 1, Len(coming))
    /\ torn' = torn \cup (IF coming[n][2] = "first" THEN {coming[n][1]} ELSE {})
    /\ UNCHANGED <<lines, result>>

\* Only the first whole line of a chunk is read.
ChunkOneLine(n) ==
    LET ends == {i \in DOMAIN Buffered(n) : Buffered(n)[i] = Newline}
        last == IF ends = {} THEN Len(Buffered(n)) ELSE CHOOSE i \in ends : \A j \in ends : i <= j
        state == Reading(SubSeq(Buffered(n), 1, last))
    IN  /\ Arrive(n) /\ Becomes(state)
        /\ buffer' = state.line \o SubSeq(Buffered(n), last + 1, Len(Buffered(n)))

Chunk(n) ==
    LET state == Reading(Buffered(n))
    IN  Arrive(n) /\ Becomes(state) /\ buffer' = state.line

\* The stream breaks: what was handed on stays handed on.
Break ==
    /\ result = "reading" /\ result' = "error"
    /\ UNCHANGED <<lines, coming, buffer, given, damaged, counted, torn>>

\* The last line may come without its newline.
EndOfStream ==
    /\ result = "reading" /\ coming = <<>>
    /\ result' = "ok" /\ buffer' = <<>>
    /\ Becomes(IF buffer = <<>> THEN Before ELSE Read(buffer, Before))
    /\ UNCHANGED <<lines, coming, torn>>

Next == (\E n \in DOMAIN coming : Chunk(n)) \/ Break \/ EndOfStream

Spec == Init /\ [][Next]_vars

-------------------------------------------------------------------------------
(* Properties                                                              *)

TypeOK ==
    /\ lines \in Seq(Lines) /\ coming \in Seq(Bytes) /\ buffer \in Seq(Bytes)
    /\ given \in Seq(Nat) /\ damaged \subseteq Nat /\ torn \subseteq Nat
    /\ counted \in BOOLEAN /\ result \in {"reading", "ok", "error"}

\* However the stream is cut, a text is handed on for each of the first lines
\* with text, once and in their order, and a stream that ends has given all of
\* them, the last one with or without its newline.
TextsInOrder ==
    /\ \A i, j \in DOMAIN given : i < j => given[i] < given[j]
    /\ \A i \in DOMAIN given : given[i] \in DOMAIN lines /\ lines[given[i]] = "text"
    /\ \A n \in DOMAIN lines : lines[n] = "text" =>
         \/ \E i \in DOMAIN given : given[i] = n
         \/ result # "ok" /\ \A i \in DOMAIN given : given[i] < n

\* The text handed on is the server's but for the lines in a character of which a
\* chunk ended: no cut at other places, and none in another line, damages it.
OnlyTornDamaged == damaged \subseteq torn

===============================================================================
