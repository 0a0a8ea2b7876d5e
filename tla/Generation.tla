------------------------------ MODULE Generation ------------------------------
(***************************************************************************)
(* One generation by llama.cpp (LlamaCppBackend of                         *)
(* src/src/inference/gguf.rs): the prompt is fed in chunks of n_batch      *)
(* tokens, then one token at a time is sampled, appended to the text and   *)
(* fed back, until the model ends, a stop sequence appears, or max_tokens  *)
(* are produced.  The context holds n_ctx tokens; feeding one more fails.  *)
(*                                                                         *)
(* A token becomes a piece of text, or no text at all when its bytes are   *)
(* only part of a character.                                               *)
(***************************************************************************)
EXTENDS Naturals, Sequences, SequencesExt

CONSTANTS
    Pieces,         \* texts of tokens
    Stops,          \* stop sequences of the request, as sequences of pieces
    Prompts,        \* lengths of prompts, in tokens
    Limits,         \* values of max_tokens
    Batch,          \* n_batch
    Context         \* n_ctx

GenerationAssumption ==
    /\ Stops \subseteq Seq(Pieces) /\ <<>> \notin Stops
    /\ Prompts \subseteq Nat \ {0} /\ Limits \subseteq Nat
    /\ Batch \in Nat \ {0} /\ Context \in Nat \ {0}

VARIABLES
    prompt, limit,  \* the request
    fed,            \* tokens the context holds: the next position
    chunk,          \* tokens in the last batch: sampling looks at the last one
    count,          \* token_count
    text,           \* the output, in pieces
    streamed,       \* what the callback was given
    outcome         \* "running", a finish reason, or an error

input == <<prompt, limit>>
vars == <<input, fed, chunk, count, text, streamed, outcome>>

Running == outcome = "running"

Init ==
    /\ prompt \in Prompts /\ limit \in Limits
    /\ fed = 0 /\ chunk = 0 /\ count = 0
    /\ text = <<>> /\ streamed = <<>>
    /\ outcome = IF prompt >= Context THEN "too_long" ELSE "running"

Smaller(m, n) == IF m < n THEN m ELSE n

\* decode of n more tokens: there is no room for them beyond n_ctx.
Decode(n) ==
    IF fed + n <= Context
    THEN fed' = fed + n /\ chunk' = n /\ outcome' = outcome
    ELSE outcome' = "no_room" /\ UNCHANGED <<fed, chunk>>

FeedPrompt ==
    /\ Running /\ fed < prompt
    /\ Decode(Smaller(Batch, prompt - fed))
    /\ UNCHANGED <<input, count, text, streamed>>

MayProduce == Running /\ fed >= prompt /\ count < limit

EndOfText ==
    /\ MayProduce /\ outcome' = "stop"
    /\ UNCHANGED <<input, fed, chunk, count, text, streamed>>

Without(s, stop) == SubSeq(s, 1, Len(s) - Len(stop))

\* The reason is found from the count alone, so a stop sequence that ends with
\* the last token allowed counts as the limit.
Reason(n) == IF n >= limit THEN "length" ELSE "stop"

\* p is the piece of the token, or no piece.  The first stop sequence of the
\* list that the text ends with is cut off; streamed text cannot be taken back.
Produce(p) ==
    LET grown == text \o p
        hits == {stop \in Stops : IsSuffix(stop, grown)}
    IN  /\ MayProduce
        /\ count' = count + 1 /\ streamed' = streamed \o p
        /\ UNCHANGED input
        /\ IF hits = {}
           THEN text' = grown /\ Decode(1)
           ELSE /\ \E stop \in hits : text' = Without(grown, stop)
                /\ outcome' = Reason(count + 1)
                /\ UNCHANGED <<fed, chunk>>

LimitReached ==
    /\ Running /\ fed >= prompt /\ count >= limit
    /\ outcome' = Reason(count)
    /\ UNCHANGED <<input, fed, chunk, count, text, streamed>>

Next ==
    \/ FeedPrompt \/ EndOfText \/ LimitReached
    \/ \E p \in {<<x>> : x \in Pieces} \cup {<<>>} : Produce(p)

Spec == Init /\ [][Next]_vars /\ WF_vars(Next)

-------------------------------------------------------------------------------
(* Properties                                                              *)

TypeOK ==
    /\ prompt \in Prompts /\ limit \in Limits
    /\ fed \in 0 .. Context /\ chunk \in 0 .. Smaller(Batch, Context)
    /\ count \in 0 .. limit
    /\ text \in Seq(Pieces) /\ streamed \in Seq(Pieces)
    /\ outcome \in {"running", "stop", "length", "too_long", "no_room"}

\* Only the prompt is compared with the context, max_tokens is not.  A request
\* whose prompt and limit fit together is always answered; one that does not
\* may lose all it has produced to an error.
FittingIsAnswered == prompt + limit <= Context => outcome # "no_room"

\* Each token is fed once, in its place: as many as there are positions.  When
\* a token is sampled, the batch holds the one before it.
EveryTokenFed ==
    Running /\ fed >= prompt => fed = prompt + count /\ chunk > 0

\* A streaming client has seen the text, and at most the stop sequence after it.
StreamCoversText ==
    \/ streamed = text
    \/ outcome \in {"stop", "length"} /\ \E stop \in Stops : streamed = text \o stop

\* No answer contains a stop sequence it could have been cut at.
CutAtStop ==
    \A stop \in Stops : Running => ~IsSuffix(stop, text)

\* Every generation ends.
GenerationEnds == <>~Running

===============================================================================
