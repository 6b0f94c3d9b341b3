---------------------------- MODULE PlaneSession ----------------------------
(***************************************************************************)
(* One session id of the engine plane: dialling the gateway, the attested  *)
(* connect and its verification (plane/connect.rs, plane/verify.rs,        *)
(* ie-attestation's policy), and the life of the HTTP/2 transport that the *)
(* pull worker, the epoch poster and the disconnect share                  *)
(* (plane/hyper_transport.rs, disconnect.rs, connector.rs).                *)
(*                                                                         *)
(* Each dial makes a transport of its own.  A transport's SendRequest sits *)
(* behind a fair mutex: queue[d] holds its callers in order, and the first *)
(* one has the lock.  A response's body arrives with its headers.  A dial's *)
(* nonce is the dial itself where it is fresh.                             *)
(* Several transports of the id may be in use at a time (a reconnect while *)
(* the old worker still runs), but dials of the id follow one another: the *)
(* pool reconnects a session in one task at a time.                        *)
(***************************************************************************)
EXTENDS Naturals, Sequences

CONSTANTS
    MaxDials,      \* bound on the dials of this session id
    Backends,      \* quote backends: for each, the kinds of quote it knows
    Defects        \* what may be wrong with a gateway's quote

ASSUME MaxDialsAssumption == MaxDials \in Nat
\* What a quote can parse as: an SEV-SNP wrapper, a mock quote, or neither
\* (the fixture backend's TDX placeholder, say).
Kinds == {"snp", "mock", "other"}

ASSUME BackendsAssumption == Backends \subseteq SUBSET Kinds
ASSUME DefectsAssumption ==
    Defects \subseteq {"engine", "vllm", "old", "undated", "hash", "key", "unsigned"}

VARIABLES
    config,        \* gateway_verifier set? the quote backend, {} for none
    session,       \* the connector's map entry for the id: a dial, or NoDial
    nonce,         \* gateway_challenge_nonce sent by each dial
    leaf,          \* who ends the dial's TLS connection, when that is verified
    resp,          \* the connect response a dial is judging
    pc,            \* per transport, where each caller is
    queue,         \* per transport, the callers at the mutex
    up,            \* per transport, the h2 connection is there
    closed,        \* per transport, its closed flag
    deadline       \* per transport, the disconnect's 120 s have passed

vars == <<config, session, nonce, leaf, resp, pc, queue, up, closed, deadline>>
shared == <<config, nonce, leaf, resp>>

Dials == 1..MaxDials
NoDial == 0
\* "result": the post in which a worker sends an answer whole.
Callers == {"dialer", "worker", "result", "poster", "closer"}

-----------------------------------------------------------------------------
(* The gateway's evidence and its verification.                            *)

\* A quote made for one dial: the nonce and the TLS leaf it names, and at most
\* one thing that is wrong with it ("unsigned": the backend rejects it;
\* "undated": its age cannot be read).
Quote(kind, d, n, l, defect) == [kind |-> kind, dial |-> d, nonce |-> n, leaf |-> l, defect |-> defect]
NoQuote == Quote("other", NoDial, NoDial, "none", "none")
Response(status, echo, quote) == [status |-> status, echo |-> echo, quote |-> quote]
NoResponse == Response(0, NoDial, NoQuote)

\* The template's nonce, made once for the process, instead of a new one.
TemplateNonce(d) == 1

generate_gateway_connect_challenge_nonce(d) == d

\* ProductionCpuQuoteVerifier asks the registered backend, if there is one,
\* and a backend knows some kinds of quote (the fixture's: not "snp").
extract_claims(q) == q.kind \in config.backend /\ q.defect # "unsigned"

\* Binaries on the allowlists, and not older than max_quote_age_ms if the
\* date it was issued parses.
verify_claims_against_policy(q) == q.defect \notin {"engine", "vllm", "old"}

\* The platform's hashes in the bundle, and the gateway's ed25519 key.
verify_platform_attestation_bundle(q) ==
    /\ extract_claims(q)
    /\ verify_claims_against_policy(q)
    /\ q.defect \notin {"hash", "key"}

verify_wrapper_report_data(q, n) == q.nonce = n

\* The response's nonce; the quote's own only if it is an SEV-SNP wrapper.
NonceEcho(d, r) ==
    /\ r.quote # NoQuote
    /\ r.echo = nonce[d]
    /\ r.quote.kind = "snp" => verify_wrapper_report_data(r.quote, nonce[d])

\* The leaf is read from an SEV-SNP wrapper or a mock quote.
assert_gateway_tls_leaf(d, q) == q.kind # "other" /\ q.leaf = leaf[d]

verify_connect_response(d, r) ==
    \/ ~config.verify
    \/ /\ NonceEcho(d, r)
       /\ assert_gateway_tls_leaf(d, r.quote)
       /\ verify_platform_attestation_bundle(r.quote)

-----------------------------------------------------------------------------
(* The transport.                                                          *)

\* is_closed that trusts SendRequest alone and ignores close().
OnlyTheSender(d) == queue[d] = <<>> /\ ~up[d]

is_closed(d) == closed[d] \/ (queue[d] = <<>> /\ ~up[d])

Goto(d, c, at) == pc' = [pc EXCEPT ![d][c] = at]
Enqueue(d, c) == queue' = [queue EXCEPT ![d] = Append(@, c)]
Release(d) == queue' = [queue EXCEPT ![d] = Tail(@)]
mark_closed(d) == closed' = [closed EXCEPT ![d] = TRUE]
HasLock(d, c) == queue[d] # <<>> /\ Head(queue[d]) = c

\* Where a caller goes on when its request has failed.
AfterError(c) ==
    CASE c = "dialer" -> "failed"
      [] c = "worker" -> "loop"
      [] c \in {"result", "poster"} -> "off"
      [] c = "closer" -> "close"

\* send / send_bytes with the lock: refused on a dead connection, else the
\* lock is kept until the response's headers arrive.
SendRequest(d, c) ==
    /\ pc[d][c] = "queued"
    /\ HasLock(d, c)
    /\ IF up[d]
       THEN Goto(d, c, "headers") /\ UNCHANGED <<queue, closed>>
       ELSE Goto(d, c, AfterError(c)) /\ Release(d) /\ mark_closed(d)
    /\ UNCHANGED <<shared, session, up, deadline>>

\* Mutant: a failing request leaves without giving the lock back.
FailsUnderLock(d, c) ==
    /\ pc[d][c] = "headers"
    /\ ~up[d]
    /\ Goto(d, c, AfterError(c))
    /\ mark_closed(d)
    /\ UNCHANGED <<shared, session, queue, up, deadline>>

\* A lost connection fails the request that waits for its response.
RequestFails(d, c) ==
    /\ pc[d][c] = "headers"
    /\ ~up[d]
    /\ Goto(d, c, AfterError(c))
    /\ Release(d)
    /\ mark_closed(d)
    /\ UNCHANGED <<shared, session, up, deadline>>

\* The response arrives: the lock goes to the next caller.
Answered(d, c) ==
    /\ pc[d][c] = "headers"
    /\ up[d]

-----------------------------------------------------------------------------
(* Dial and attested connect.                                              *)

\* connect_inner: dials of one id never overlap.
MayDial(d) ==
    /\ pc[d]["dialer"] = "off"
    /\ \A e \in Dials : e < d => pc[e]["dialer"] \in {"ok", "failed"}
    /\ \A e \in Dials : pc[e]["closer"] \in {"off", "done"}

\* The stale transport leaves the map but is not closed.
LeaveStale == UNCHANGED closed

\* reconnect drops and closes what the map still holds for the id.
DropStale == IF session = NoDial THEN UNCHANGED closed ELSE mark_closed(session)

\* dial_hyper_transport: TCP, TLS 1.3, ALPN h2, the server's leaf.
Dial(d) ==
    /\ MayDial(d)
    /\ DropStale
    /\ session' = NoDial
    /\ nonce' = [nonce EXCEPT ![d] = generate_gateway_connect_challenge_nonce(d)]
    /\ \E l \in IF config.verify THEN {"gateway", "proxy"} ELSE {"unseen"} :
          leaf' = [leaf EXCEPT ![d] = l]
    /\ Goto(d, "dialer", "queued")
    /\ Enqueue(d, "dialer")
    /\ up' = [up EXCEPT ![d] = TRUE]
    /\ UNCHANGED <<config, resp, deadline>>

\* Bad URL or SNI, no TCP, no TLS, no h2.
DialFails(d) ==
    /\ MayDial(d)
    /\ DropStale
    /\ session' = NoDial
    /\ Goto(d, "dialer", "failed")
    /\ UNCHANGED <<shared, queue, up, deadline>>

\* What the gateway makes out for a dial that has asked it.
Quotes == {Quote(kind, e, nonce[e], "gateway", defect) : kind \in Kinds,
              e \in {x \in Dials : nonce[x] # NoDial}, defect \in Defects \cup {"none"}}

\* The connect post is answered.  Whoever ends the TLS connection may hand on
\* the gateway's quote for this dial, or one it made for an earlier dial.
ConnectAnswered(d) ==
    /\ Answered(d, "dialer")
    /\ \/ resp' = [resp EXCEPT ![d] = Response(503, NoDial, NoQuote)]
       \/ \E echo \in {NoDial, nonce[d]}, q \in Quotes \cup {NoQuote} :
             resp' = [resp EXCEPT ![d] = Response(200, echo, q)]
    /\ Goto(d, "dialer", "judge")
    /\ Release(d)
    /\ UNCHANGED <<config, session, nonce, leaf, up, closed, deadline>>

\* open_pooled_connection_on_transport: the response is accepted and the
\* session enters the map.
ConnectAccepted(d) ==
    /\ pc[d]["dialer"] = "judge"
    /\ resp[d].status = 200
    /\ verify_connect_response(d, resp[d])
    /\ Goto(d, "dialer", "ok")
    /\ session' = d
    /\ resp' = [resp EXCEPT ![d] = NoResponse]
    /\ UNCHANGED <<config, nonce, leaf, queue, up, closed, deadline>>

\* Not 200, or not verified: the transport is closed.
ConnectRefused(d) ==
    /\ pc[d]["dialer"] = "judge"
    /\ resp[d].status # 200 \/ ~verify_connect_response(d, resp[d])
    /\ Goto(d, "dialer", "failed")
    /\ mark_closed(d)
    /\ resp' = [resp EXCEPT ![d] = NoResponse]
    /\ UNCHANGED <<config, nonce, leaf, session, queue, up, deadline>>

\* A 200 whose body is not a connect response: `?` drops the transport.
ConnectGarbled(d) ==
    /\ pc[d]["dialer"] = "judge"
    /\ Goto(d, "dialer", "failed")
    /\ resp' = [resp EXCEPT ![d] = NoResponse]
    /\ UNCHANGED <<config, nonce, leaf, session, queue, up, closed, deadline>>

-----------------------------------------------------------------------------
(* The callers of a live transport.                                        *)

\* The starter clones the transport the map holds.
StartWorker(d) ==
    /\ session = d
    /\ pc[d]["worker"] = "off"
    /\ Goto(d, "worker", "loop")
    /\ UNCHANGED <<shared, session, queue, up, closed, deadline>>

\* The loop of start_pull_worker: leave a closed transport, else long-poll.
WorkerLoop(d) ==
    /\ pc[d]["worker"] = "loop"
    /\ IF is_closed(d)
       THEN Goto(d, "worker", "gone") /\ UNCHANGED queue
       ELSE Goto(d, "worker", "queued") /\ Enqueue(d, "worker")
    /\ UNCHANGED <<shared, session, up, closed, deadline>>

\* The poll brought nothing, or an envelope that is refused unanswered.
PollIdle(d) ==
    /\ Answered(d, "worker")
    /\ Goto(d, "worker", "loop")
    /\ Release(d)
    /\ UNCHANGED <<shared, session, up, closed, deadline>>

\* A challenge, an ops command, or an envelope whose answer is sent whole:
\* the answer's post takes its turn at the same lock as everything else.
PollSmallWork(d) ==
    /\ Answered(d, "worker")
    /\ pc' = [pc EXCEPT ![d]["worker"] = "posting", ![d]["result"] = "queued"]
    /\ queue' = [queue EXCEPT ![d] = Append(Tail(@), "result")]
    /\ UNCHANGED <<shared, session, up, closed, deadline>>

\* So does the answer that replaces a stream whose inference failed: abort,
\* then post again.
AbortAndPost(d) ==
    /\ pc[d]["worker"] = "streaming"
    /\ pc' = [pc EXCEPT ![d]["worker"] = "posting", ![d]["result"] = "queued"]
    /\ Enqueue(d, "result")
    /\ UNCHANGED <<shared, session, up, closed, deadline>>

PostedWhole(d) ==
    /\ Answered(d, "result")
    /\ Goto(d, "result", "off")
    /\ Release(d)
    /\ UNCHANGED <<shared, session, up, closed, deadline>>

\* Posted or failed, the worker goes on with its loop.
PostIsOver(d) ==
    /\ pc[d]["worker"] = "posting" /\ pc[d]["result"] = "off"
    /\ Goto(d, "worker", "loop")
    /\ UNCHANGED <<shared, session, queue, up, closed, deadline>>

\* It brought work to stream: the worker opens the result post.
PollWork(d) ==
    /\ Answered(d, "worker")
    /\ Goto(d, "worker", "open")
    /\ queue' = [queue EXCEPT ![d] = Append(Tail(@), "worker")]
    /\ UNCHANGED <<shared, session, up, closed, deadline>>

\* Awaiting the response under the lock: it needs a body nobody writes yet.
AwaitUnderLock(d) ==
    /\ pc[d]["worker"] = "open"
    /\ HasLock(d, "worker")
    /\ Goto(d, "worker", "stuck")
    /\ UNCHANGED <<shared, session, queue, up, closed, deadline>>

\* open_streaming_post: the lock is given back before the response is awaited.
OpenStreamingPost(d) ==
    /\ pc[d]["worker"] = "open"
    /\ HasLock(d, "worker")
    /\ Goto(d, "worker", "streaming")
    /\ Release(d)
    /\ UNCHANGED <<shared, session, up, closed, deadline>>

\* finish: the stream is closed; its errors do not mark the transport.
StreamEnds(d) ==
    /\ pc[d]["worker"] = "streaming"
    /\ Goto(d, "worker", "loop")
    /\ UNCHANGED <<shared, session, queue, up, closed, deadline>>

\* post_ephemeral, by a rotation or when a session becomes ready.
StartPost(d) ==
    /\ session = d
    /\ pc[d]["poster"] = "off"
    /\ Goto(d, "poster", "queued")
    /\ Enqueue(d, "poster")
    /\ UNCHANGED <<shared, session, up, closed, deadline>>

PostDone(d) ==
    /\ Answered(d, "poster")
    /\ Goto(d, "poster", "off")
    /\ Release(d)
    /\ UNCHANGED <<shared, session, up, closed, deadline>>

-----------------------------------------------------------------------------
(* Disconnect.                                                             *)

\* disconnect_with_reason takes the session out of the map, then polls.
StartDisconnect(d) ==
    /\ session = d
    /\ session' = NoDial
    /\ Goto(d, "closer", "queued")
    /\ Enqueue(d, "closer")
    /\ UNCHANGED <<shared, up, closed, deadline>>

DeadlinePasses(d) ==
    /\ pc[d]["closer"] \in {"queued", "headers"}
    /\ ~deadline[d]
    /\ deadline' = [deadline EXCEPT ![d] = TRUE]
    /\ UNCHANGED <<shared, session, pc, queue, up, closed>>

\* The same without the deadline.
JudgedWithoutDeadline(d) ==
    /\ Answered(d, "closer")
    /\ \E ready \in BOOLEAN :
          IF ready
          THEN Goto(d, "closer", "close") /\ Release(d)
          ELSE Goto(d, "closer", "queued") /\ queue' = [queue EXCEPT ![d] = Append(Tail(@), "closer")]
    /\ UNCHANGED <<shared, session, up, closed, deadline>>

\* graceful_disconnect_attested_session: ready (or a malformed answer), else
\* the deadline, else ask again.  A refused post reads as "not ready".
DisconnectJudged(d) ==
    /\ Answered(d, "closer")
    /\ \E ready \in BOOLEAN :
          IF ready \/ deadline[d]
          THEN Goto(d, "closer", "close") /\ Release(d)
          ELSE Goto(d, "closer", "queued") /\ queue' = [queue EXCEPT ![d] = Append(Tail(@), "closer")]
    /\ UNCHANGED <<shared, session, up, closed, deadline>>

\* However the polling ended, the transport is closed.
DisconnectCloses(d) ==
    /\ pc[d]["closer"] = "close"
    /\ Goto(d, "closer", "done")
    /\ mark_closed(d)
    /\ deadline' = [deadline EXCEPT ![d] = FALSE]
    /\ UNCHANGED <<shared, session, queue, up>>

\* force_close_all at the end of a shutdown.
ForceCloseAll ==
    /\ session # NoDial
    /\ session' = NoDial
    /\ mark_closed(session)
    /\ UNCHANGED <<shared, pc, queue, up, deadline>>

-----------------------------------------------------------------------------
(* The connection (hyper's connection task and the network).               *)

Unused(d) ==
    /\ session # d
    /\ pc[d]["dialer"] \in {"ok", "failed"}
    /\ pc[d]["worker"] \in {"off", "gone"}
    /\ pc[d]["poster"] = "off"
    /\ pc[d]["closer"] \in {"off", "done"}

\* The network fails, or the gateway goes away.
ConnLost(d) ==
    /\ up[d]
    /\ up' = [up EXCEPT ![d] = FALSE]
    /\ UNCHANGED <<shared, session, pc, queue, closed, deadline>>

\* The last owner dropped the transport, and SendRequest with it.
LastOwnerDrops(d) ==
    /\ Unused(d)
    /\ up[d]
    /\ up' = [up EXCEPT ![d] = FALSE]
    /\ UNCHANGED <<shared, session, pc, queue, closed, deadline>>

\* The watcher task: conn.await has ended.
WatcherFlags(d) ==
    /\ pc[d]["dialer"] # "off"
    /\ ~up[d] /\ ~closed[d]
    /\ mark_closed(d)
    /\ UNCHANGED <<shared, session, pc, queue, up, deadline>>

-----------------------------------------------------------------------------
Init ==
    /\ config \in [verify : BOOLEAN, backend : Backends \cup {{}}]
    /\ ~config.verify => config.backend = {}
    /\ session = NoDial
    /\ nonce = [d \in Dials |-> NoDial]
    /\ leaf = [d \in Dials |-> "none"]
    /\ resp = [d \in Dials |-> NoResponse]
    /\ pc = [d \in Dials |-> [c \in Callers |-> "off"]]
    /\ queue = [d \in Dials |-> <<>>]
    /\ up = [d \in Dials |-> FALSE]
    /\ closed = [d \in Dials |-> FALSE]
    /\ deadline = [d \in Dials |-> FALSE]

\* Steps of the engine and answers of the gateway.
Step(d) ==
    \/ \E c \in Callers : SendRequest(d, c) \/ RequestFails(d, c)
    \/ ConnectAnswered(d) \/ ConnectAccepted(d) \/ ConnectRefused(d) \/ ConnectGarbled(d)
    \/ WorkerLoop(d) \/ PollIdle(d) \/ PollWork(d) \/ OpenStreamingPost(d) \/ StreamEnds(d)
    \/ PollSmallWork(d) \/ AbortAndPost(d) \/ PostedWhole(d) \/ PostIsOver(d)
    \/ PostDone(d)
    \/ DeadlinePasses(d) \/ DisconnectJudged(d) \/ DisconnectCloses(d)
    \/ LastOwnerDrops(d) \/ WatcherFlags(d)

Next ==
    \/ \E d \in Dials :
          \/ Step(d)
          \/ Dial(d) \/ DialFails(d)
          \/ StartWorker(d) \/ StartPost(d) \/ StartDisconnect(d)
          \/ ConnLost(d)
    \/ ForceCloseAll

Spec == Init /\ [][Next]_vars

\* Tasks keep running, the gateway answers what it was sent, time passes.
Fairness ==
    \A d \in Dials :
       /\ \A c \in Callers :
             /\ WF_vars(SendRequest(d, c))
             /\ WF_vars(RequestFails(d, c))
       /\ WF_vars(ConnectAnswered(d))
       /\ WF_vars(ConnectAccepted(d) \/ ConnectRefused(d) \/ ConnectGarbled(d))
       /\ WF_vars(WorkerLoop(d))
       /\ WF_vars(PollIdle(d) \/ PollWork(d) \/ PollSmallWork(d))
       /\ WF_vars(OpenStreamingPost(d))
       /\ WF_vars(StreamEnds(d) \/ AbortAndPost(d))
       /\ WF_vars(PostedWhole(d)) /\ WF_vars(PostIsOver(d))
       /\ WF_vars(PostDone(d))
       /\ WF_vars(DeadlinePasses(d))
       /\ WF_vars(DisconnectJudged(d))
       /\ WF_vars(DisconnectCloses(d))
       /\ WF_vars(WatcherFlags(d))

FairSpec == Spec /\ Fairness

-----------------------------------------------------------------------------
(* Properties.                                                             *)

\* The state is well-formed, and the mutex is too: exactly the callers that
\* want or have the sender stand in its queue, each of them once, and only
\* the one that has the lock waits for a response.
TypeOK ==
    /\ config \in [verify : BOOLEAN, backend : Backends \cup {{}}]
    /\ session \in Dials \cup {NoDial}
    /\ nonce \in [Dials -> Dials \cup {NoDial}]
    /\ leaf \in [Dials -> {"none", "unseen", "gateway", "proxy"}]
    /\ up \in [Dials -> BOOLEAN] /\ closed \in [Dials -> BOOLEAN] /\ deadline \in [Dials -> BOOLEAN]
    /\ \A d \in Dials :
          /\ resp[d].quote \in
                {Quote(k, e, n, l, x) : k \in Kinds, e \in Dials \cup {NoDial}, n \in Dials \cup {NoDial},
                                        l \in {"none", "gateway"}, x \in Defects \cup {"none"}}
          /\ \A i, j \in DOMAIN queue[d] : queue[d][i] = queue[d][j] => i = j
          /\ \A c \in Callers :
                /\ pc[d][c] \in {"off", "queued", "headers", "judge", "ok", "failed", "loop", "gone",
                                 "open", "streaming", "posting", "close", "done"}
                /\ pc[d][c] \in {"queued", "headers", "open"} <=> \E i \in DOMAIN queue[d] : queue[d][i] = c
                /\ pc[d][c] = "headers" => HasLock(d, c)

\* While a verifier is set, a dial enters the map on evidence that names the
\* TLS leaf the dial looked at, so that nobody else ends the connection, and
\* with which the policy found nothing wrong; and if it is an SEV-SNP wrapper
\* the gateway made it in answer to this very dial: open_pooled_connection_on_
\* transport accepts no response of another dial.  (Of a mock quote, which
\* only a test backend accepts, the nonce is not looked at: an earlier dial's
\* passes with this dial's nonce echoed beside it.)
Entitled(d) ==
    LET q == resp[d].quote
    IN  /\ leaf[d] = "gateway"
        /\ q.kind \in config.backend \ {"other"}
        /\ q.kind = "snp" => q.dial = d
        /\ q.defect \in {"none", "undated"}

OwnEvidence ==
    [][\A d \in Dials : config.verify /\ session' = d /\ session # d => Entitled(d)]_vars

\* An accepted transport that has left the connector's map is closed or being
\* disconnected: none stays open without an owner that will close it.
NoneLeaked ==
    \A d \in Dials :
       (pc[d]["dialer"] = "ok" /\ session # d) =>
          closed[d] \/ ~up[d] \/ pc[d]["closer"] # "off"

\* A pull worker whose transport was closed or lost ends its loop: it does not
\* go on taking work from a session the connector has given up.
LeavesClosedTransport ==
    \A d \in Dials :
       (closed[d] \/ ~up[d]) /\ pc[d]["worker"] # "off" ~> pc[d]["worker"] = "gone"

\* Although long polls and result posts share its mutex, an epoch post comes
\* to an end, so a rotation does too (rotator.rs post_epoch_to_sessions).
PostGetsThrough ==
    \A d \in Dials : pc[d]["poster"] = "queued" ~> pc[d]["poster"] = "off"

\* A graceful disconnect ends with a closed transport, whatever the gateway
\* answers to its polls (disconnect.rs, the 120 s deadline).
DisconnectEnds ==
    \A d \in Dials :
       pc[d]["closer"] = "queued" ~> pc[d]["closer"] = "done" /\ closed[d]

\* "Release SendRequest before awaiting the body so long-poll work-pull and
\* concurrent ephemeral POSTs can multiplex on the same H2 connection"
\* (hyper_transport.rs): no epoch post waits for a long poll to be answered.
PostsShareConnection ==
    \A d \in Dials : ~(pc[d]["worker"] = "headers" /\ pc[d]["poster"] = "queued")
=============================================================================
