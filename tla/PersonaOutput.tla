---------------------------- MODULE PersonaOutput ----------------------------
(* A persona's words on their way from the model to the reader: the frames of *)
(* the provider's stream, the filter that takes protected envelopes out of    *)
(* text that arrives in pieces, and what is said while the reply is written.  *)
(* A letter stands for a run of characters; the two markers keep what matters *)
(* about them: they begin alike, and one of them is the longer.               *)
(* (ollama_provider.py, persona_output.py, turn_pipeline.py)                  *)
EXTENDS Naturals, Sequences

CONSTANTS MaxLetters,   \* how much text a model writes
          MaxChunk      \* how much of it a frame carries

ASSUME OutputAssumption == MaxLetters \in Nat /\ MaxChunk \in Nat \ {0}

VARIABLES raw,         \* the text the frames carried
          unfiltered,     \* _pending: text that may be the beginning of a marker
          depth,       \* _system_prompt_depth
          removed,     \* _protected_content_removed
          kept,        \* the chunks of the reply
          said,        \* what was published of it
          guard,       \* "held" when the words ask for media: nothing is said
                       \* before the end; "replaced" when they ask for an image
          step,          \* where the worker is
          sawDone,       \* the provider said that it was done
          cancelRow, token   \* the owner's cancellation, in the row and in the token

filterVars == <<unfiltered, depth, removed>>
replyVars == <<kept, said, guard>>
cancelVars == <<cancelRow, token>>
outputVars == <<raw, filterVars, replyVars, step, sawDone, cancelVars>>

Letters == {"[", "/", "]", "a"}
Open == <<"[", "]">>
Close == <<"[", "/", "]">>
Fallback == <<"sorry">>
Acknowledgement == <<"I'll see what I can make for you">>

Starts(t, i, m) == i + Len(m) - 1 <= Len(t) /\ SubSeq(t, i, i + Len(m) - 1) = m
Marks(t) == {i \in 1..Len(t) : Starts(t, i, Open) \/ Starts(t, i, Close)}
After(t, i) == SubSeq(t, i + (IF Starts(t, i, Open) THEN Len(Open) ELSE Len(Close)), Len(t))

\* What is left of a complete text from each place on, by the depth there:
\* nothing inside an envelope, and no marker.
LeftFrom(text) ==
    LET left[i \in 1..(Len(text) + 1)] ==
          [d \in Nat |->
             IF i > Len(text) THEN <<>>
             ELSE IF Starts(text, i, Open) THEN left[i + Len(Open)][d + 1]
             ELSE IF Starts(text, i, Close) THEN left[i + Len(Close)][IF d = 0 THEN 0 ELSE d - 1]
             ELSE (IF d = 0 THEN <<text[i]>> ELSE <<>>) \o left[i + 1][d]]
    IN left

Clean(text) == LeftFrom(text)[1][0]
-----------------------------------------------------------------------------
(* The filter *)

\* Mutant: only the beginning of the opening marker is waited for.
MayBeginOpening(t, n) == n < Len(Open) /\ SubSeq(t, Len(t) - n + 1, Len(t)) = SubSeq(Open, 1, n)

MayBegin(t, n) ==
    \E m \in {Open, Close} : n < Len(m) /\ SubSeq(t, Len(t) - n + 1, Len(t)) = SubSeq(m, 1, n)

\* _longest_marker_prefix_suffix
Keep(t) == CHOOSE n \in 0..Len(t) :
               /\ n = 0 \/ MayBegin(t, n)
               /\ \A k \in (n + 1)..Len(t) : ~MayBegin(t, k)

Hear(text) ==
    /\ kept' = kept \o text
    /\ said' = IF guard # "none" THEN said ELSE said \o text

\* One turn of feed's loop: the first marker, or what cannot begin one.
ScanMarker ==
    /\ step = "scan" /\ Marks(unfiltered) # {}
    /\ LET i == CHOOSE j \in Marks(unfiltered) : \A k \in Marks(unfiltered) : j <= k IN
         /\ IF depth = 0 THEN Hear(SubSeq(unfiltered, 1, i - 1)) ELSE UNCHANGED <<kept, said>>
         /\ unfiltered' = After(unfiltered, i)
         /\ depth' = IF Starts(unfiltered, i, Open) THEN depth + 1
                     ELSE IF depth = 0 THEN 0 ELSE depth - 1
    /\ removed' = TRUE
    /\ UNCHANGED <<raw, guard, step, sawDone, cancelVars>>

ScanRest ==
    /\ step = "scan" /\ Marks(unfiltered) = {}
    /\ LET safe == Len(unfiltered) - Keep(unfiltered) IN
         /\ IF depth = 0 THEN Hear(SubSeq(unfiltered, 1, safe)) ELSE UNCHANGED <<kept, said>>
         /\ removed' = (removed \/ (depth > 0 /\ safe > 0))
         /\ unfiltered' = SubSeq(unfiltered, safe + 1, Len(unfiltered))
    /\ step' = IF sawDone THEN "finish" ELSE "read"
    /\ UNCHANGED <<raw, depth, guard, sawDone, cancelVars>>
-----------------------------------------------------------------------------
(* The stream *)

GoTo(to) == step' = to /\ UNCHANGED <<raw, filterVars, replyVars, sawDone, cancelVars>>

\* A frame with text; the last one says that it is done.
ReadFrame ==
    /\ step = "read" /\ ~token
    /\ \E n \in 0..MaxChunk : \E chunk \in [1..n -> Letters] : \E done \in BOOLEAN :
         /\ Len(raw) + n <= MaxLetters
         /\ n > 0 \/ done
         /\ raw' = raw \o chunk /\ unfiltered' = unfiltered \o chunk
         /\ sawDone' = done
    /\ step' = "scan"
    /\ UNCHANGED <<depth, removed, replyVars, cancelVars>>

\* raise_if_cancelled around readline; bad JSON, an error frame, a tool call, a
\* time out and a refused connection all raise.
StreamFails == step = "read" /\ GoTo("failed")

\* The response ends although no frame said so: an error, unless it was closed
\* by the owner's cancellation after the last look at the token.
EndsEarly == IF token THEN {"finish", "failed"} ELSE {"failed"}

ResponseEnds == step = "read" /\ \E to \in EndsEarly : GoTo(to)

\* finish: what was waited for is text after all.
Finish ==
    /\ step = "finish"
    /\ IF depth = 0 THEN Hear(unfiltered) ELSE UNCHANGED <<kept, said>>
    /\ removed' = (removed \/ (depth > 0 /\ unfiltered # <<>>))
    /\ unfiltered' = <<>> /\ step' = "reply"
    /\ UNCHANGED <<raw, depth, guard, sawDone, cancelVars>>

Left == IF removed /\ kept = <<>> THEN Fallback ELSE kept

\* _stream and generate: a reply of which nothing is left says that it is gone,
\* and a held one is said once, when all of it is there.
\* guard_premature_media_completion_claim puts its own words for a promised image.
ReplyFilters ==
    /\ step = "reply"
    /\ kept' = IF guard = "replaced" /\ Left # <<>> THEN Acknowledgement ELSE Left
    /\ said' = IF guard # "none" \/ said = <<>> THEN kept' ELSE said
    /\ step' = "complete"
    /\ UNCHANGED <<raw, filterVars, guard, sawDone, cancelVars>>

\* _complete looks at the row: a late result is discarded.
Complete == step = "complete" /\ GoTo(IF cancelRow THEN "discarded" ELSE "completed")

\* JobService.cancel: the row first, then the token, which closes the response.
CancelRow ==
    /\ ~cancelRow /\ step \notin {"failed", "discarded", "completed"}
    /\ cancelRow' = TRUE
    /\ UNCHANGED <<raw, filterVars, replyVars, step, sawDone, token>>

CancelToken ==
    /\ cancelRow /\ ~token /\ token' = TRUE
    /\ UNCHANGED <<raw, filterVars, replyVars, step, sawDone, cancelRow>>

OutputInit ==
    /\ raw = <<>> /\ unfiltered = <<>> /\ depth = 0 /\ removed = FALSE
    /\ kept = <<>> /\ said = <<>> /\ guard \in {"none", "held", "replaced"}
    /\ step = "read" /\ sawDone = FALSE /\ cancelRow = FALSE /\ token = FALSE

OutputNext ==
    \/ ReadFrame \/ ScanMarker \/ ScanRest \/ StreamFails \/ ResponseEnds
    \/ Finish \/ ReplyFilters \/ Complete \/ CancelRow \/ CancelToken

OutputSpec == OutputInit /\ [][OutputNext]_outputVars
-----------------------------------------------------------------------------
(* Properties *)

\* What was said before the end stands: it is the reply, and one that asked for
\* a picture has other words in its place.
\* (TurnPipeline.generate, guard_premature_media_completion_claim)
SaidIsKept ==
    step \in {"complete", "completed"} =>
        /\ said = kept
        /\ guard = "replaced" => kept \in {Acknowledgement, <<>>}

\* However the text was cut into frames, the reply is what is left of the whole
\* text, and it is said to be gone only when nothing is left.
\* (PersonaOutputStreamFilter.feed, finish; docs/architecture.md)
CutsDoNotMatter ==
    step \in {"complete", "completed"} =>
        /\ kept = Fallback => Clean(raw) = <<>> /\ raw # <<>>
        /\ guard # "replaced" => kept \in {Clean(raw), Fallback}

\* A reply that is kept was finished by its provider, though a response that was
\* closed by a cancellation ends like one that is complete.
\* (OllamaChatProvider.stream, JobService._complete)
KeptIsWhole == step = "completed" => sawDone

\* Replies that are filtered as a whole and finished by their provider.
OutputInvariant == SaidIsKept /\ CutsDoNotMatter /\ KeptIsWhole
=============================================================================
