------------------------------ MODULE LlmStream ------------------------------
(***************************************************************************)
(* One model call: the attempts of LlmService.stream (packages/llm), the   *)
(* provider's stream as one of the four adapters translates it             *)
(* (llm-anthropic, llm-openai-compat, llm-openai-responses, llm-gemini),   *)
(* the message BlockAssembler makes of it, and what of that message the    *)
(* adapter sends back with the next request.                               *)
(*                                                                         *)
(* A piece of text is <<attempt, number of the event that brought it>>;    *)
(* its wording, images and tool schemas are left out.                      *)
(***************************************************************************)
EXTENDS Integers, Sequences, SequencesExt, FiniteSets, TLC

CONSTANTS Apis,         \* the wire formats
          MaxAttempts,
          MaxEvents,    \* of one attempt
          Races         \* what this instance admits of "cut" and "moved"

VARIABLE llm

None == <<>>
NoTranslator == [next |-> 0, thinking |-> -1, text |-> -1, calls |-> <<>>, reason |-> "none"]
Init ==
    \E api \in Apis :
    llm = [api |-> api, phase |-> "request", attempt |-> 0, sent |-> <<>>, tr |-> NoTranslator,
           blocks |-> <<>>, produced |-> FALSE, failure |-> "none", finish |-> "none", delay |-> 0,
           aborted |-> FALSE, reported |-> 0]

-----------------------------------------------------------------------------
(* BlockAssembler; blocks are kept by index, in the order of their indices *)
Has(blocks, index) == \E i \in DOMAIN blocks : blocks[i].index = index
Block(index, type, id) == [index |-> index, type |-> type, id |-> id, text |-> <<>>, sig |-> <<>>]
\* Blocks open in the order of their indices, and block() is given the next one or one it has.
Opened(blocks, index, type, id) ==
    IF Has(blocks, index) THEN blocks ELSE Append(blocks, Block(index, type, id))
Extend(blocks, index, field, pieces) ==
    [i \in DOMAIN blocks |-> IF blocks[i].index = index THEN [blocks[i] EXCEPT ![field] = @ \o pieces] ELSE blocks[i]]
\* push of a chunk: [type, index, id, pieces, sig].
Push(blocks, c) ==
    LET opened == Opened(blocks, c.index, c.type, c.id) IN
    Extend(Extend(opened, c.index, "text", c.pieces), c.index, "sig", c.sig)

-----------------------------------------------------------------------------
(* translateStream of the four adapters                                    *)
\* An event of the provider is [kind, block, pieces, sig]: its block is the provider's own number
\* of what the event extends.
Call(tr, block) == IF block \in DOMAIN tr.calls THEN tr.calls[block] ELSE [index |-> tr.next, streamed |-> FALSE]
\* Anthropic's indices are kept.  The others number blocks as they open, with one for all text
\* and one for all thinking of a reply.
IndexOf(api, tr, e) ==
    CASE api = "anthropic" -> e.block
      [] api # "anthropic" /\ e.kind = "thinking" -> IF tr.thinking < 0 THEN tr.next ELSE tr.thinking
      [] api # "anthropic" /\ e.kind = "text" -> IF tr.text < 0 THEN tr.next ELSE tr.text
      [] OTHER -> Call(tr, e.block).index

\* A mistake the runs must catch: the finished call's arguments are added to the streamed ones.
ArgumentsAgain(api, tr, e) == e.pieces
\* An item that is done brings the arguments again (responses); they count if none were streamed.
Arguments(api, tr, e) ==
    IF api = "responses" /\ e.kind = "done" /\ Call(tr, e.block).streamed THEN <<>> ELSE e.pieces

Chunk(api, tr, e) ==
    [index |-> IndexOf(api, tr, e), id |-> e.block,
     type |-> IF e.kind \in {"call", "args", "done"} THEN "call" ELSE e.kind,
     pieces |-> Arguments(api, tr, e),
     sig |-> IF e.kind = "thinking" THEN e.sig ELSE <<>>]

Translated(api, tr, e) ==
    LET index == IndexOf(api, tr, e)
        opens == api # "anthropic" /\ index = tr.next IN
    [tr EXCEPT !.next = IF opens THEN @ + 1 ELSE @,
               !.thinking = IF e.kind = "thinking" THEN index ELSE @,
               !.text = IF e.kind = "text" THEN index ELSE @,
               !.calls = IF e.kind \notin {"call", "args", "done"} THEN @
                         ELSE (e.block :> [index |-> index, streamed |-> Call(tr, e.block).streamed \/ e.pieces # <<>>]) @@ @]

\* Gemini's signature of a call or a text opens (or extends) the thinking block.
SignatureFirst(api, tr, e) == api = "gemini" /\ e.sig # <<>> /\ e.kind # "thinking"
Thought(e) == [e EXCEPT !.kind = "thinking", !.pieces = <<>>]
Take(r, e) ==
    LET first == SignatureFirst(r.api, r.tr, e)
        tr == IF first THEN Translated(r.api, r.tr, Thought(e)) ELSE r.tr
        blocks == IF first THEN Push(r.blocks, Chunk(r.api, r.tr, Thought(e))) ELSE r.blocks IN
    [r EXCEPT !.sent = Append(@, e), !.tr = Translated(r.api, tr, e),
              !.blocks = Push(blocks, Chunk(r.api, tr, e)), !.produced = TRUE]

-----------------------------------------------------------------------------
(* The provider                                                            *)
Blocks(sent) == {0} \cup {sent[i].block : i \in DOMAIN sent}
LastBlock == IF llm.sent = <<>> THEN 0 ELSE Len(SetToSeq(Blocks(llm.sent) \ {0}))
Piece == <<llm.attempt, Len(llm.sent) + 1>>
SentOf(sent, block, kinds) == SelectSeq(sent, LAMBDA e : e.block = block /\ e.kind \in kinds)
KindOf(block) == LET s == SelectSeq(llm.sent, LAMBDA e : e.block = block) IN IF s[1].kind \in {"args", "done"} THEN "call" ELSE s[1].kind
Event(kind, block, pieces, sig) == [kind |-> kind, block |-> block, pieces |-> pieces, sig |-> sig]
Done(block) == SentOf(llm.sent, block, {"done"}) # <<>>
AllPieces(sent, block) == FoldLeft(LAMBDA acc, e : acc \o e.pieces, <<>>, SentOf(sent, block, {"call", "args"}))
ThinksWithText == \E i \in DOMAIN llm.sent : llm.sent[i].kind = "thinking" /\ llm.sent[i].pieces # <<>>
Signed == \E i \in DOMAIN llm.sent : llm.sent[i].sig # <<>>
\* Signatures: Anthropic's ends a thinking block; Gemini's comes with any part, and where "moved"
\* is not admitted only once, on the last thought, or on a call or the first text if no thought is shown.
MaySign(kind) ==
    CASE llm.api = "anthropic" -> kind = "thinking"
      [] llm.api = "gemini" -> \/ "moved" \in Races
                               \/ /\ ~Signed
                                  /\ \/ kind = "thinking"
                                     \/ ~ThinksWithText /\ (kind = "call" \/ llm.tr.text < 0)
      [] OTHER -> FALSE

Provides(e) == llm' = Take(llm, e)
Streaming == llm.phase = "streaming" /\ ~llm.aborted /\ llm.failure = "none" /\ llm.tr.reason = "none"
\* A block opens, or the one that is open goes on; compat interleaves calls, Gemini sends a call in
\* one part.
ProviderSends ==
    /\ Streaming /\ Len(llm.sent) < MaxEvents
    /\ \E kind \in {"thinking", "text", "call", "args", "done"} : \E block \in 1..(LastBlock + 1) : \E signs \in BOOLEAN :
        LET new == block = LastBlock + 1
            sig == IF signs THEN <<Piece>> ELSE <<>> IN
        /\ signs => MaySign(kind)
        /\ kind = "thinking" /\ llm.api = "gemini" => ~Signed \/ "moved" \in Races
        /\ CASE kind \in {"thinking", "text"} ->
                   /\ new \/ (block = LastBlock /\ KindOf(block) = kind)
                   /\ ~new => llm.sent[Len(llm.sent)].sig = <<>> /\ (LastBlock > 0 => ~Done(LastBlock))
             [] kind = "call" -> new
             [] kind = "args" ->
                   /\ ~new /\ KindOf(block) = "call" /\ ~Done(block) /\ llm.api # "gemini"
                   /\ llm.api = "compat" \/ block = LastBlock
             [] kind = "done" -> ~new /\ KindOf(block) = "call" /\ ~Done(block) /\ llm.api = "responses"
        /\ Provides(Event(kind, block,
               CASE kind = "call" -> IF llm.api = "gemini" THEN <<Piece>> ELSE <<>>
                 [] kind = "done" -> IF AllPieces(llm.sent, block) = <<>> THEN <<Piece>> ELSE AllPieces(llm.sent, block)
                 [] OTHER -> <<Piece>>, sig))
\* finish_reason, message_delta, response.completed; nothing but usage follows.
ProviderStops ==
    /\ Streaming
    /\ \E reason \in {"stop", "length", "refusal"} : llm' = [llm EXCEPT !.tr.reason = reason]
ProviderFails ==
    /\ Streaming
    /\ \E failure \in {"retryable", "fatal"} : llm' = [llm EXCEPT !.failure = failure]

\* The end of the stream after the reason, and before it: Anthropic's adapter asks for
\* message_stop, the others finish whatever has come ("cut").
HasCalls(tr) == tr.calls # <<>>
FinishOf(api, tr) ==
    CASE api = "anthropic" -> IF tr.reason = "stop" /\ HasCalls(tr) THEN "tool-use" ELSE tr.reason
      [] api = "compat" -> IF tr.reason = "stop" /\ HasCalls(tr) THEN "tool-use"
                           ELSE IF tr.reason # "none" THEN tr.reason ELSE IF HasCalls(tr) THEN "tool-use" ELSE "stop"
      [] OTHER -> IF HasCalls(tr) THEN "tool-use" ELSE IF tr.reason = "none" THEN "stop" ELSE tr.reason
StreamEnds ==
    /\ llm.phase = "streaming" /\ ~llm.aborted /\ llm.failure = "none" /\ llm.finish = "none"
    /\ llm.tr.reason = "none" /\ llm.api # "anthropic" => "cut" \in Races
    /\ llm' = IF llm.tr.reason = "none" /\ llm.api = "anthropic" THEN [llm EXCEPT !.failure = "retryable"]
              ELSE [llm EXCEPT !.finish = FinishOf(llm.api, llm.tr)]

-----------------------------------------------------------------------------
(* LlmService.stream                                                       *)
Request ==
    /\ llm.phase = "request"
    /\ llm' = [llm EXCEPT !.phase = "streaming", !.attempt = @ + 1, !.sent = <<>>, !.tr = NoTranslator,
                          !.produced = FALSE, !.failure = "none"]
\* A mistake the runs must catch: what has come already does not keep an attempt from being repeated.
RetriesAlways(r) == r.failure = "retryable" /\ r.attempt < MaxAttempts
Retries(r) == r.failure = "retryable" /\ ~r.produced /\ r.attempt < MaxAttempts
\* An attempt is over: aborted, finished, to be repeated after a delay, or failed.
AttemptEnds ==
    /\ llm.phase = "streaming" /\ (llm.aborted \/ llm.failure # "none" \/ llm.finish # "none")
    /\ llm' = CASE llm.aborted -> [llm EXCEPT !.finish = "aborted", !.phase = "finish"]
                [] ~llm.aborted /\ llm.finish # "none" -> [llm EXCEPT !.phase = "finish"]
                [] ~llm.aborted /\ llm.finish = "none" /\ Retries(llm) ->
                       [llm EXCEPT !.phase = "sleeping", !.delay = 2^(llm.attempt - 1)]
                [] OTHER -> [llm EXCEPT !.finish = "error", !.phase = "finish"]
\* sleep: over, or cut short by the abort.
\* A mistake the runs must catch: the abort only ends the sleep.
AfterSleepAgain(r) == "request"
AfterSleep(r) == IF r.aborted THEN "finish" ELSE "request"
Wakes ==
    /\ llm.phase = "sleeping"
    /\ llm' = [llm EXCEPT !.phase = AfterSleep(llm), !.finish = IF llm.aborted THEN "aborted" ELSE @]
Abort == ~llm.aborted /\ llm.phase \in {"streaming", "sleeping"} /\ llm' = [llm EXCEPT !.aborted = TRUE]
\* The finish is yielded, then llm/response is emitted.
Finish == llm.phase = "finish" /\ llm' = [llm EXCEPT !.phase = "done", !.reported = @ + 1]

Next ==
    \/ ProviderSends \/ ProviderStops \/ ProviderFails \/ StreamEnds
    \/ Request \/ AttemptEnds \/ Wakes \/ Abort \/ Finish

Spec == Init /\ [][Next]_llm
-----------------------------------------------------------------------------
(* toWireMessages, toWireContents                                          *)
\* The part of an assistant message that carries each signature of the reply when it is sent back.
CarriesSignature ==
    LET Thinking == SelectSeq(llm.blocks, LAMBDA b : b.type = "thinking" /\ b.sig # <<>>)
        After(b) == SelectSeq(llm.blocks, LAMBDA c : c.type # "thinking" /\ c.index > b.index) IN
    CASE llm.api = "anthropic" -> {<<"thinking", b.sig>> : b \in ToSet(Thinking)}
      [] llm.api = "gemini" ->
            {<<IF b.text # <<>> THEN "thinking" ELSE After(b)[1].type, b.sig>> :
                b \in {c \in ToSet(Thinking) : c.text # <<>> \/ After(c) # <<>>}}
      [] OTHER -> {}
-----------------------------------------------------------------------------
Complete == llm.phase = "done" /\ llm.finish \notin {"error", "aborted"}
PiecesOf(type) == FoldLeft(LAMBDA acc, b : IF b.type = type THEN acc \o b.text ELSE acc, <<>>, llm.blocks)
SentPieces(kind) == FoldLeft(LAMBDA acc, e : IF e.kind = kind THEN acc \o e.pieces ELSE acc, <<>>, llm.sent)
ArgumentsSent(block) ==
    LET done == SentOf(llm.sent, block, {"done"}) IN
    IF done # <<>> THEN done[1].pieces ELSE AllPieces(llm.sent, block)

\* A completed message is what the provider sent in its last attempt: its text and thinking in
\* their order, every call with its own arguments, each once, and nothing of an attempt that failed.
AssembledIsSent ==
    Complete =>
        /\ PiecesOf("text") = SentPieces("text") /\ PiecesOf("thinking") = SentPieces("thinking")
        /\ \A b \in ToSet(llm.blocks) : b.type = "call" => b.text = ArgumentsSent(b.id)
        /\ {b.id : b \in {c \in ToSet(llm.blocks) : c.type = "call"}}
             = {e.block : e \in {f \in ToSet(llm.sent) : f.kind \in {"call", "done"}}}

\* A reply that counts as complete was completed by the provider: a broken connection never passes
\* for the end of a reply.
CompleteIsWhole == Complete => llm.tr.reason # "none"

\* Nothing is attempted again once the call is aborted, nor more often than allowed.
StaysAborted == llm'.attempt # llm.attempt => ~llm.aborted /\ llm'.attempt =< MaxAttempts
AbortIsFinal == [][StaysAborted]_llm

\* A signature goes back unchanged, on the part it came with.
SignaturesReturn ==
    Complete => \A e \in ToSet(llm.sent) : e.sig # <<>> /\ llm.api \in {"anthropic", "gemini"} =>
        <<e.kind, e.sig>> \in CarriesSignature
=============================================================================
