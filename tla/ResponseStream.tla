--------------------------- MODULE ResponseStream ---------------------------
(***************************************************************************)
(* One inference request on its way back to the gateway: the speculative   *)
(* result stream of plane/pull.rs, the inference of infer/ope_inference.rs *)
(* and the vLLM event stream of ie-upstream (client.rs, sse.rs).           *)
(*                                                                         *)
(* The worker opens the result post with x-ope-status 200 before it knows  *)
(* the outcome, decrypts, asks the upstream, and writes numbered           *)
(* ciphertext frames while tokens arrive.  In the end it finishes the post *)
(* or gives it up and posts a JSON answer with the real status.            *)
(*                                                                         *)
(* Text is a sequence of units: "r" (reasoning), "c" (content), "s" (the   *)
(* thinking separator); in neutral mode a unit is one whole openai_delta   *)
(* frame.  A network chunk of the upstream carries one line, its start or  *)
(* its end: of a chunk with more, poll_next takes one line after the other *)
(* before it asks for bytes again.  A character is one byte (the code      *)
(* counts bytes and takes characters, and converts chunk by chunk).        *)
(***************************************************************************)
EXTENDS Naturals, Sequences, SequencesExt

CONSTANTS
    ChunkChars,    \* options.chunk_chars, in units
    MaxLines       \* bound on the upstream's event lines

ASSUME ChunkCharsAssumption == ChunkChars \in Nat \ {0}
ASSUME MaxLinesAssumption == MaxLines \in Nat

VARIABLES
    opt,           \* the request: legacy text? transcript on?
    pc,            \* where the worker is in pull_once
    keyHeld,       \* the epoch's secret is still in the provider
    session,       \* the provider holds a response session for this request
    tail,          \* VllmSseStream.buffer: a line without its newline, or NoLine
    ready,         \* VllmSseStream.pending: pieces ready to yield
    fold,          \* saw_reasoning and reasoning_boundary_emitted
    eof,           \* the byte stream has ended
    lines,         \* event lines received so far
    finish,        \* usage.finish_reason is set
    said,          \* history: the text of every line whose text has arrived
    pending,       \* chat: text waiting for a full chunk
    seq,           \* chat: number of the next ciphertext
    wire,          \* frames written to the result post
    result,        \* status of OpeInferenceResult, 0 while there is none
    post,          \* the streaming post as the gateway sees it
    json,          \* x-ope-status of the JSON answer, 0 while there is none
    sent           \* history: every text unit the event stream yielded

upstream == <<tail, ready, fold, eof, lines, finish, said>>
chat == <<pending, seq, wire, sent>>
vars == <<opt, pc, keyHeld, session, upstream, chat, result, post, json>>

-----------------------------------------------------------------------------
(* Frames (ie-protocol's OpeStreamFrame).                                  *)

Frame(type, n, final, text) == [type |-> type, seq |-> n, final |-> final, text |-> text]
Bare(type) == Frame(type, 0, FALSE, <<>>)

\* Where the ciphertexts are on the wire, and what they hold in the order of
\* their numbers.
Sealed == {i \in DOMAIN wire : wire[i].type = "ciphertext"}
Texts == [n \in 1..seq |-> wire[CHOOSE i \in Sealed : wire[i].seq = n - 1].text]

-----------------------------------------------------------------------------
(* Upstream event lines.                                                   *)

NoLine == [kind |-> "none", delta |-> "empty", fin |-> FALSE]

\* "other": not a data line, [DONE] or a usage-only trailer; "bad": data that
\* is not JSON; "choice": choices[0] with its delta and its finish_reason.
Lines ==
    {[kind |-> k, delta |-> "empty", fin |-> FALSE] : k \in {"other", "bad"}}
    \cup [kind : {"choice"}, delta : {"empty", "role", "reasoning", "content", "both"}, fin : BOOLEAN]

\* The typed text deltas of a choice, reasoning before content.
stream_deltas_from_vllm_choice(l) ==
    CASE l.delta = "reasoning" -> <<"r">>
      [] l.delta = "content" -> <<"c">>
      [] l.delta = "both" -> <<"r", "c">>
      [] OTHER -> <<>>

\* A neutral frame, unless the delta is empty and no finish reason is set.
openai_delta_frame_from_vllm_choice(l) ==
    IF l.delta = "empty" /\ ~l.fin THEN <<>> ELSE <<l.delta>>

\* The text a line holds, whatever becomes of it.
TextOf(l) ==
    IF l.kind # "choice" THEN <<>>
    ELSE IF opt.legacy THEN stream_deltas_from_vllm_choice(l)
    ELSE openai_delta_frame_from_vllm_choice(l)

\* Legacy text: the separator goes before the first content after reasoning.
LegacyPieces(l) ==
    LET ds == stream_deltas_from_vllm_choice(l)
        reasons == fold.saw \/ Contains(ds, "r")
    IN IF Contains(ds, "c") /\ reasons /\ ~fold.emitted
       THEN (IF Contains(ds, "r") THEN <<"r", "s", "c">> ELSE <<"s", "c">>)
       ELSE ds

\* enqueue_sse_line, for a line that parses (a bad one is an error instead):
\* the pieces it makes ready, and the thinking-fold flags it leaves.
EnqueuedPieces(l) ==
    IF l.kind # "choice" THEN <<>>
    ELSE IF opt.legacy THEN LegacyPieces(l) ELSE openai_delta_frame_from_vllm_choice(l)

FoldAfter(l) ==
    IF ~opt.legacy THEN fold
    ELSE [saw |-> fold.saw \/ Contains(EnqueuedPieces(l), "r"),
          emitted |-> fold.emitted \/ Contains(EnqueuedPieces(l), "s")]

\* Mutant: the separator waits for content that never comes.
NoBoundaryAtEof(f) == FALSE /\ f.saw

\* A thinking-only stream still gets its separator when the bytes end.
BoundaryAtEof(f) == opt.legacy /\ f.saw /\ ~f.emitted

-----------------------------------------------------------------------------
(* Chunking and sealing.                                                   *)

\* Mutant: a sealed chunk stays in the buffer.
NothingTaken(text) == text

\* The full chunks of a text, and what is left for later.
FullChunks(text) ==
    [i \in 1..(Len(text) \div ChunkChars) |->
        SubSeq(text, (i - 1) * ChunkChars + 1, i * ChunkChars)]
LeftOver(text) == SubSeq(text, (Len(text) \div ChunkChars) * ChunkChars + 1, Len(text))

\* encrypt_piece over some pieces: without a session it only logs.
encrypt_piece(pieces, final) ==
    IF ~session THEN <<>>
    ELSE [i \in DOMAIN pieces |->
             Frame("ciphertext", seq + i - 1, final /\ i = Len(pieces), pieces[i])]

\* The server share, and the signed header when the transcript is on.
Opening == IF opt.transcript THEN <<Bare("server_share"), Bare("header")>>
           ELSE <<Bare("server_share")>>

write_vllm_finish_status == IF finish THEN <<Bare("status")>> ELSE <<>>

\* How stream_chat_completion and complete_embeddings fail: the upstream
\* answers with a client error, or with anything else, or not at all.
ChatErrors == {"rejected", "broken"}
EmbeddingsErrors == {"rejected", "broken"}

\* A client error of the upstream is passed on (422 stands for all of them).
vllm_upstream_failed_result(e) == IF e = "rejected" THEN 422 ELSE 502
embeddings_upstream_failed_result(e) == IF e = "rejected" THEN 422 ELSE 502

-----------------------------------------------------------------------------
Init ==
    /\ opt \in [kind : {"chat", "embeddings"}, legacy : BOOLEAN, transcript : BOOLEAN]
    /\ pc = "pulled"
    /\ keyHeld = TRUE
    /\ session = FALSE
    /\ tail = NoLine
    /\ ready = <<>>
    /\ fold = [saw |-> FALSE, emitted |-> FALSE]
    /\ eof = FALSE
    /\ lines = 0
    /\ finish = FALSE
    /\ said = <<>>
    /\ pending = <<>>
    /\ seq = 0
    /\ wire = <<>>
    /\ result = 0
    /\ post = "none"
    /\ json = 0
    /\ sent = <<>>

\* Another task prunes the epoch and frees its secret.
FreeEngine ==
    /\ keyHeld
    /\ keyHeld' = FALSE
    /\ UNCHANGED <<opt, pc, session, upstream, chat, result, post, json>>

\* The result post is opened, its headers already saying 200.
OpenStreamingPost ==
    /\ pc = "pulled"
    /\ pc' = "prepare"
    /\ post' = "open"
    /\ UNCHANGED <<opt, keyHeld, session, upstream, chat, result, json>>

\* The inference returns: pull_once looks at the status next.
Return(status) ==
    /\ result' = status
    /\ pc' = "answer"

\* Admission (401), the epoch's handle, decryption (400), an upstream that is
\* not configured (503): run_ope_inference_on_envelope up to the dispatch.
RefuseEnvelope ==
    /\ pc = "prepare"
    /\ \E status \in {400, 401, 503} : Return(status)
    /\ UNCHANGED <<opt, keyHeld, session, upstream, chat, post, json>>

Dispatch ==
    /\ pc = "prepare"
    /\ keyHeld
    /\ pc' = IF opt.kind = "embeddings" THEN "embed" ELSE "begin"
    /\ UNCHANGED <<opt, keyHeld, session, upstream, chat, result, post, json>>

-----------------------------------------------------------------------------
(* run_embeddings_inference: the upstream is asked before any byte is      *)
(* written, and the whole answer is one final ciphertext.                  *)

EmbeddingsFail ==
    /\ pc = "embed"
    /\ \/ \E e \in EmbeddingsErrors : Return(embeddings_upstream_failed_result(e))
       \/ ~keyHeld /\ Return(400)
    /\ UNCHANGED <<opt, keyHeld, session, upstream, chat, post, json>>

EmbeddingsAnswer ==
    /\ pc = "embed"
    /\ keyHeld
    /\ said' = <<"e">>
    /\ sent' = <<"e">>
    /\ wire' = wire \o Opening \o <<Frame("ciphertext", 0, TRUE, <<"e">>), Bare("trailer")>>
    /\ seq' = 1
    /\ Return(200)
    /\ UNCHANGED <<opt, keyHeld, session, tail, ready, fold, eof, lines, finish, pending, post, json>>

-----------------------------------------------------------------------------
(* run_chat_inference.                                                     *)

ChatBegin ==
    /\ pc = "begin"
    /\ IF keyHeld
       THEN /\ session' = TRUE
            /\ pc' = "connect"
            /\ UNCHANGED result
       ELSE /\ Return(400)
            /\ UNCHANGED session
    /\ UNCHANGED <<opt, keyHeld, upstream, chat, post, json>>

\* Mutant: the error path forgets free_response.
RefusedKeepsSession ==
    /\ pc = "connect"
    /\ \E e \in ChatErrors : Return(vllm_upstream_failed_result(e))
    /\ UNCHANGED <<opt, keyHeld, session, upstream, chat, post, json>>

\* The upstream refuses the request or cannot be reached.
ChatRefused ==
    /\ pc = "connect"
    /\ session' = FALSE
    /\ \E e \in ChatErrors : Return(vllm_upstream_failed_result(e))
    /\ UNCHANGED <<opt, keyHeld, upstream, chat, post, json>>

ChatAccepted ==
    /\ pc = "connect"
    /\ pc' = "stream"
    /\ wire' = wire \o Opening
    /\ UNCHANGED <<opt, keyHeld, session, upstream, pending, seq, sent, result, post, json>>

\* The next piece of the stream is taken and sealed: at once in neutral
\* mode, in full chunks in legacy mode.
YieldPiece ==
    LET unit == Head(ready)
        text == Append(pending, unit)
        frames == encrypt_piece(IF opt.legacy THEN FullChunks(text) ELSE <<<<unit>>>>, FALSE)
    IN  /\ pc = "stream"
        /\ ready # <<>>
        /\ ready' = Tail(ready)
        /\ sent' = Append(sent, unit)
        /\ pending' = IF opt.legacy THEN LeftOver(text) ELSE pending
        /\ wire' = wire \o frames
        /\ seq' = seq + Len(frames)
        /\ UNCHANGED <<opt, pc, keyHeld, session, tail, fold, eof, lines, finish, said, result,
                       post, json>>

\* poll_next needs bytes: everything buffered has been yielded.
NeedsBytes == pc = "stream" /\ ready = <<>> /\ ~eof

Enqueue(l) ==
    /\ l.kind # "bad"
    /\ ready' = EnqueuedPieces(l)
    /\ fold' = FoldAfter(l)
    /\ finish' = (finish \/ l.fin)

\* A chunk with a whole line.
ReceiveLine(l) ==
    /\ NeedsBytes /\ tail = NoLine /\ lines < MaxLines
    /\ lines' = lines + 1
    /\ said' = said \o TextOf(l)
    /\ Enqueue(l)
    /\ UNCHANGED <<opt, pc, keyHeld, session, tail, eof, chat, result, post, json>>

\* A chunk that stops before the newline of its line.
ReceivePart(l) ==
    /\ NeedsBytes /\ tail = NoLine /\ lines < MaxLines
    /\ lines' = lines + 1
    /\ said' = said \o TextOf(l)
    /\ tail' = l
    /\ UNCHANGED <<opt, pc, keyHeld, session, ready, fold, eof, finish, chat, result, post, json>>

\* The newline arrives.
ReceiveRest ==
    /\ NeedsBytes /\ tail # NoLine
    /\ tail' = NoLine
    /\ Enqueue(tail)
    /\ UNCHANGED <<opt, pc, keyHeld, session, eof, lines, said, chat, result, post, json>>

\* Mutant: what has no newline when the bytes end is left in the buffer.
EofDropsTail ==
    /\ NeedsBytes
    /\ eof' = TRUE
    /\ tail' = NoLine
    /\ ready' = IF BoundaryAtEof(fold) THEN <<"s">> ELSE <<>>
    /\ fold' = [fold EXCEPT !.emitted = @ \/ BoundaryAtEof(fold)]
    /\ UNCHANGED <<opt, pc, keyHeld, session, lines, finish, said, chat, result, post, json>>

\* The bytes end: an unterminated last line still counts.
ReceiveEof ==
    LET f == FoldAfter(tail)
        boundary == IF BoundaryAtEof(f) THEN <<"s">> ELSE <<>>
    IN  /\ NeedsBytes
        /\ tail.kind # "bad"
        /\ eof' = TRUE
        /\ tail' = NoLine
        /\ ready' = EnqueuedPieces(tail) \o boundary
        /\ fold' = [f EXCEPT !.emitted = @ \/ BoundaryAtEof(f)]
        /\ finish' = (finish \/ tail.fin)
        /\ UNCHANGED <<opt, pc, keyHeld, session, lines, said, chat, result, post, json>>

\* Mutant: the empty final frame is written after the final text as well.
ErrorClosesTwice ==
    LET texts == IF pending # <<>> THEN <<pending, <<>>>> ELSE <<<<>>>>
        frames == IF seq > 0 THEN [f \in DOMAIN texts |->
                      [encrypt_piece(texts, TRUE)[f] EXCEPT !.final = TRUE]] ELSE <<>>
    IN  /\ NeedsBytes
        /\ wire' = wire \o frames
        /\ seq' = seq + Len(frames)
        /\ pending' = IF seq > 0 THEN <<>> ELSE pending
        /\ session' = FALSE
        /\ Return(502)
        /\ UNCHANGED <<opt, keyHeld, upstream, sent, post, json>>

\* The connection to the upstream breaks, or a line is not JSON.  After some
\* ciphertext the stream is closed with a final frame, with status 502.
StreamError ==
    LET frames == IF seq > 0 THEN encrypt_piece(<<pending>>, TRUE) ELSE <<>>
    IN  /\ NeedsBytes
        /\ wire' = wire \o frames
        /\ seq' = seq + Len(frames)
        /\ pending' = IF seq > 0 THEN <<>> ELSE pending
        /\ session' = FALSE
        /\ Return(502)
        /\ UNCHANGED <<opt, keyHeld, upstream, sent, post, json>>

\* Mutant: no empty final frame when the last chunk was sealed exactly full.
EndWithoutFinal ==
    LET frames == encrypt_piece(IF pending # <<>> THEN <<pending>> ELSE <<>>, TRUE)
    IN  /\ pc = "stream" /\ eof /\ ready = <<>>
        /\ wire' = wire \o frames \o write_vllm_finish_status \o <<Bare("trailer")>>
        /\ seq' = seq + Len(frames)
        /\ pending' = <<>>
        /\ session' = FALSE
        /\ Return(200)
        /\ UNCHANGED <<opt, keyHeld, upstream, sent, post, json>>

\* The stream has ended: the last text, or an empty final frame when
\* ciphertext was sent; then the finish status and the signed usage.
StreamEnd ==
    LET last == IF pending # <<>> \/ seq > 0 THEN <<pending>> ELSE <<>>
        frames == encrypt_piece(last, TRUE)
    IN  /\ pc = "stream" /\ eof /\ ready = <<>>
        /\ wire' = wire \o frames \o write_vllm_finish_status \o <<Bare("trailer")>>
        /\ seq' = seq + Len(frames)
        /\ pending' = <<>>
        /\ session' = FALSE
        /\ Return(200)
        /\ UNCHANGED <<opt, keyHeld, upstream, sent, post, json>>

-----------------------------------------------------------------------------
(* pull_once once the inference has returned.                              *)

\* Mutant: only the engine's own failures replace the stream.
OkBelow500 == result < 500

stream_ok == result < 400

\* StreamingPostHandle.finish: the body ends and the gateway answers, or the
\* connection is lost.
FinishPost ==
    /\ pc = "answer" /\ stream_ok
    /\ pc' = "done"
    /\ post' \in {"complete", "lost"}
    /\ UNCHANGED <<opt, keyHeld, session, upstream, chat, result, json>>

\* StreamingPostHandle.abort: the channel is dropped first, so the body may
\* still end in good order before the request is cancelled.
AbortPost ==
    /\ pc = "answer" /\ ~stream_ok
    /\ pc' = "repost"
    /\ post' \in {"complete", "reset"}
    /\ UNCHANGED <<opt, keyHeld, session, upstream, chat, result, json>>

\* The JSON answer with the real status.  It may be lost with the connection,
\* and is then missed ("missed") by a gateway that saw the body end well.
PostAnswer ==
    /\ pc = "repost"
    /\ pc' = "done"
    /\ \/ json' = result /\ UNCHANGED post
       \/ /\ post' = IF post = "complete" THEN "missed" ELSE "lost"
          /\ UNCHANGED json
    /\ UNCHANGED <<opt, keyHeld, session, upstream, chat, result>>

Done == pc = "done" /\ UNCHANGED vars

Work ==
    \/ OpenStreamingPost \/ RefuseEnvelope \/ Dispatch
    \/ EmbeddingsFail \/ EmbeddingsAnswer
    \/ ChatBegin \/ ChatRefused \/ ChatAccepted
    \/ YieldPiece \/ StreamEnd
    \/ FinishPost \/ AbortPost \/ PostAnswer

Upstream ==
    \/ \E l \in Lines : ReceiveLine(l) \/ ReceivePart(l)
    \/ ReceiveRest \/ ReceiveEof \/ StreamError

Next == Work \/ Upstream \/ FreeEngine \/ Done

\* The worker keeps running, and the upstream keeps answering: nothing in
\* the code bounds the time the upstream may take.
Spec == Init /\ [][Next]_vars /\ WF_vars(Work) /\ WF_vars(Upstream)

-----------------------------------------------------------------------------
(* Properties.                                                             *)

Unit == {"r", "c", "s", "e", "empty", "role", "reasoning", "content", "both"}
FrameType == {"server_share", "header", "ciphertext", "status", "trailer"}
Frames == [type : FrameType, seq : Nat, final : BOOLEAN, text : Seq(Unit)]

\* The state of a response is well-formed: frames, counters, statuses; text
\* never waits for longer than until it fills a chunk.
TypeOK ==
    /\ opt \in [kind : {"chat", "embeddings"}, legacy : BOOLEAN, transcript : BOOLEAN]
    /\ pc \in {"pulled", "prepare", "embed", "begin", "connect", "stream", "answer", "repost", "done"}
    /\ keyHeld \in BOOLEAN /\ session \in BOOLEAN /\ eof \in BOOLEAN /\ finish \in BOOLEAN
    /\ tail \in Lines \cup {NoLine}
    /\ fold \in [saw : BOOLEAN, emitted : BOOLEAN]
    /\ lines \in 0..MaxLines
    /\ ready \in Seq(Unit) /\ said \in Seq(Unit) /\ sent \in Seq(Unit) /\ wire \in Seq(Frames)
    /\ pending \in Seq(Unit) /\ Len(pending) < ChunkChars
    /\ seq \in Nat
    /\ result \in {0, 200, 400, 401, 422, 502, 503}
    /\ post \in {"none", "open", "complete", "reset", "lost", "missed"}
    /\ json \in {0, 400, 401, 422, 502, 503}

\* Every ciphertext of a response is sealed under its own number (the number
\* makes the nonce), the numbers have no gaps and go up, and nothing is sealed
\* after the final one (encrypt_piece and its callers).
NumberedOnce ==
    /\ {wire[i].seq : i \in Sealed} = 0..(seq - 1)
    /\ \A i, j \in Sealed : i < j => wire[i].seq < wire[j].seq /\ ~wire[i].final

\* A text, or the text with one thinking separator put in.
WithSeparator(x) ==
    {x} \cup {SubSeq(x, 1, k) \o <<"s">> \o SubSeq(x, k + 1, Len(x)) : k \in 0..Len(x)}

\* What the client decrypts is what the upstream said: the ciphertexts and the
\* text still waiting hold, once and in order, the text of the lines that have
\* arrived, up to some point of it, and all of it when the answer is 200.
\* Lines may be cut anywhere, the last one may lack its newline, and the text
\* is cut into other pieces; only a thinking separator is added.  (Characters
\* are one byte: of a longer one, cut by a chunk boundary, from_utf8_lossy
\* leaves replacement characters.)
TextPreserved ==
    LET got == FlattenSeq(Texts) \o pending
    IN  \E whole \in WithSeparator(said) : IsPrefix(got, whole) /\ (result = 200 => got = whole)

\* In legacy mode a finished answer with reasoning has one separator, after
\* reasoning and before any later content; one without reasoning has none.
ThinkingFolded ==
    opt.legacy /\ opt.kind = "chat" /\ result = 200 =>
        LET At(u) == {i \in DOMAIN sent : sent[i] = u}
        IN IF At("r") = {} THEN At("s") = {}
           ELSE \E i \in At("s") :
                    /\ At("s") = {i}
                    /\ \E j \in At("r") : j < i
                    /\ \A j \in At("r"), k \in At("c") : j < i /\ k < i => k < j

\* The provider's response session is freed on every path out of the
\* inference, and held for as long as pieces are sealed.
SessionFreed == session <=> pc \in {"connect", "stream"}

\* No silent drop: while the connection lasts, a result that is not replaced
\* by an error answer is a stream the upstream accepted and ended, closed by a
\* final frame if it carried any ciphertext.
NoSilentDrop ==
    pc = "done" /\ json = 0 /\ post = "complete" =>
        /\ wire # <<>> /\ wire[1].type = "server_share" /\ Last(wire).type = "trailer"
        /\ opt.kind = "chat" => eof
        /\ Sealed # {} => \E i \in Sealed : wire[i].final

\* "close RB-06 with a final frame so clients can keep partial tokens": a
\* response that breaks off after some ciphertext still reaches the gateway
\* as a stream that is finished, not given up.
PartialTokensKept ==
    pc = "done" /\ result = 502 /\ Sealed # {} => json = 0

\* StreamingPostHandle.abort gives a stream up: the gateway never sees one end
\* in good order whose error answer it then misses.
AbortedIsSeen == post # "missed"

\* The gateway's view of the work, as ResultContract has it; by NumberedOnce
\* there are seq ciphertexts on the wire.
View ==
    IF pc = "pulled" THEN "waiting"
    ELSE IF pc = "repost" THEN "cut"
    ELSE IF pc # "done" THEN "streaming"
    ELSE IF post \in {"lost", "missed"} THEN "lost"
    ELSE IF json # 0 THEN "answered" ELSE "complete"

Contract == INSTANCE ResultContract
    WITH view <- View,
         count <- seq,
         closed <- \E i \in Sealed : wire[i].final

\* Every behaviour of the code's response path is one the gateway expects.
MeetsContract == Contract!Spec
=============================================================================
