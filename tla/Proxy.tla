-------------------------------- MODULE Proxy --------------------------------
(***************************************************************************)
(* blindfold-proxy: concurrent exchanges between local clients and the     *)
(* allowlisted upstreams.  A text is the set of sensitive things in it; a  *)
(* body is a sequence of parts; an HTTP exchange runs under one timeout    *)
(* that may cut it at any await, a WebSocket exchange under none, and      *)
(* neither are the connection's partly received head and unread answer.    *)
(***************************************************************************)
EXTENDS Integers, Sequences, FiniteSetsExt

CONSTANTS
    Exch,        \* exchange slots
    Upstream,    \* the configured upstreams: name -> its record
    Requests,    \* requests a client may send
    Responses,   \* responses an upstream may give
    Frames,      \* WebSocket messages either side may send
    MaxReplacements,  \* 1024: the replacements a trace record may hold
    MaxFrames,   \* bound: messages one bridge relays
    None

\* What a text may contain: something the detectors know, or the gateway credential.
Taint == {"secret", "credential"}
Text == SUBSET Taint

\* One textual piece of a body.  "string": a JSON string, an SSE event or id.
\* "key", "number": an object key, a JSON number or an SSE retry.  "opaque": what
\* does not parse.  "done": the data [DONE].  "comment": an SSE comment line.
\* pointer: where in the body it stands.
Part == [kind : {"string", "key", "number", "opaque", "done", "comment"}, text : Text, pointer : Nat]

\* host: somewhere else, this listener by its literal address, or by a name.
UpstreamRecord == [provider : {"OpenAi", "Anthropic"}, credential : BOOLEAN,
                   trusted_proxy_hop : BOOLEAN, host : {"remote", "literal", "name"}]

\* hop: 0 no marker, 1 one LOOP_VALUE, 2 any other value or several.
Request == [upstream : DOMAIN Upstream \cup {None}, method : {"POST", "GET", "HEAD"},
            path : {"", "messages", "chat/completions", "responses", "other"},
            query : {"none", "beta=true", "other"}, upgrade : {"none", "websocket", "malformed", "other"},
            hop : 0 .. 2, meta : SUBSET (Taint \cup {"credential name"}),
            declared : {"small", "large"}, large : BOOLEAN,
            type : {"json", "sse", "other"}, body : Seq(Part)]
Response == [declared : {"small", "large"}, large : BOOLEAN,
             type : {"json", "sse", "other"}, body : Seq(Part)]
Frame == [kind : {"text", "binary", "ping", "close"}, large : BOOLEAN, body : Seq(Part)]

\* Config::validate
Validated(u) == u \in UpstreamRecord /\ (u.trusted_proxy_hop => u.credential)

\* reject_direct_loops knows the listener by its literal address only.
DirectLoop(u) == u.host = "literal"
LeadsBack(u) == u.host \in {"literal", "name"}

\* The upstreams of a proxy that was built and bound.
ASSUME ProxyAssumption ==
    /\ \A u \in DOMAIN Upstream : Validated(Upstream[u]) /\ ~DirectLoop(Upstream[u])
    /\ None \notin DOMAIN Upstream /\ \A text \in Text : text # None
    /\ Requests \subseteq Request /\ Responses \subseteq Response /\ Frames \subseteq Frame
    /\ MaxReplacements \in Nat /\ MaxFrames \in Nat

VARIABLES
    server,   \* "serving", "draining" after the cancellation, "stopped"
    st,       \* st[x]: the await the exchange is in
    req,      \* req[x]: the request it serves
    resp,     \* resp[x]: the response being collected
    depth,    \* depth[x]: proxies the request has passed by its marker, counting this one
    trace,    \* trace[x]: RequestTrace
    sent,     \* sent[x]: what went out to the upstream, None while nothing has
    released, \* released[x]: what was answered to the client, None while nothing was
    frames,   \* frames[x]: messages its bridge relayed
    records,  \* records[x]: the trace records it emitted
    open      \* open[x]: an HTTP connection that graceful shutdown waits for: part
              \* of the head has come, or the answer has not been read to its end

perExchange == <<st, req, resp, depth, trace, sent, released, frames, records, open>>
vars == <<server, perExchange>>

InForward == {"reading", "sending", "waiting", "collecting"}
Ended == {"answered", "dropped", "closed"}
States == {"idle", "connecting", "bridge"} \cup InForward \cup Ended

ErrorCode == {"UpstreamNotAllowed", "ProxyLoop", "RequestTooLarge", "ResponseTooLarge", "InvalidJson",
              "InvalidRequest", "SensitiveMetadata", "UnsupportedTransport", "Timeout", "Cancelled",
              "UpstreamFailure"}
Issue == {"UnsupportedRequest", "UnsupportedResponse", "RequestTooLarge", "ResponseTooLarge",
          "InvalidPayload", "ProxyLoop", "RouteNotAllowed", "UpstreamFailure", "Timeout",
          "DirectFilesystemUnmediated"}

\* observations: the keys of the map, what was replaced at which pointer.
RequestTrace == [request_after : Nat, response_after : Nat, observations : SUBSET (Taint \X Nat),
                 issue : Issue \cup {None}]
NewTrace == [request_after |-> 0, response_after |-> 0, observations |-> {}, issue |-> None]
ASSUME IssueAssumption == None \notin Issue

-----------------------------------------------------------------------------
(* Sanitization *)

\* The detectors, and CredentialSanitizer when the upstream has a credential.
Sanitize(u, text) == text \ (IF u.credential THEN Taint ELSE {"secret"})

Untouched(u, text) == Sanitize(u, text) = text

\* sanitize_json, sanitize_sse: None is Err.  The parts keep their positions;
\* comments are not written back.
SanitizeParts(u, sse, parts) ==
    IF \E n \in DOMAIN parts :
          \/ parts[n].kind = "opaque"
          \/ parts[n].kind = "done" /\ ~(sse /\ u.provider = "OpenAi")
          \/ parts[n].kind \in {"key", "number"} /\ ~Untouched(u, parts[n].text)
    THEN None
    ELSE [n \in {m \in DOMAIN parts : parts[m].kind # "comment"} |->
             [parts[n] EXCEPT !.text = Sanitize(u, @)]]

\* What is replaced in the strings of a body, and where.
Observed(u, parts) ==
    UNION {(parts[n].text \ Sanitize(u, parts[n].text)) \X {parts[n].pointer} :
              n \in {m \in DOMAIN parts : parts[m].kind = "string"}}

Content(parts) == UNION {parts[n].text : n \in DOMAIN parts}

\* sanitize_body: the routes on which SSE is understood.
SseRoute(u, source, path) ==
    /\ source = "Response"
    /\ \/ u.provider = "Anthropic" /\ path = "messages"
       \/ u.provider = "OpenAi" /\ path = "chat/completions"

\* The sanitized parts, or the ErrorCode.
SanitizeBody(u, source, path, type, parts) ==
    LET sse == type = "sse" /\ SseRoute(u, source, path)
        safe == SanitizeParts(u, sse, parts)
    IN  IF type = "json" \/ sse
        THEN IF safe = None THEN [code |-> "InvalidJson", parts |-> <<>>]
             ELSE [code |-> "Ok", parts |-> safe]
        ELSE [code |-> IF source = "Request" THEN "InvalidRequest" ELSE "UpstreamFailure",
              parts |-> <<>>]

-----------------------------------------------------------------------------
(* Admission *)

\* The first check that fails decides; each is <<failed, ErrorCode>>.
FirstFailure(checks) ==
    LET failed == {n \in DOMAIN checks : checks[n][1]}
    IN  IF failed = {} THEN "Ok" ELSE checks[Min(failed)][2]

\* Mutant of RefusesHop: a trusting upstream takes any marker.
RefusesHopUntrusted(u, r) == r.hop # 0 /\ ~u.trusted_proxy_hop

\* accept_proxy_hop
RefusesHop(u, r) == r.hop # 0 /\ (r.hop # 1 \/ ~u.trusted_proxy_hop)

\* next_proxy_hop_marker
NextHop(r) == IF r.hop = 0 THEN 1 ELSE 2

\* reject_unsupported_gateway_path
RefusesPath(u, r) ==
    /\ u.credential
    /\ \/ u.provider = "Anthropic" /\ (r.query = "other" \/ r.path # "messages")
       \/ u.provider = "OpenAi" /\ (r.query # "none" \/ r.path \notin {"chat/completions", "responses"})

\* reject_sensitive_request_metadata
RefusesMetadata(u, r) == "credential name" \in r.meta \/ ~Untouched(u, r.meta \cap Taint)

\* forward_inner up to its first await
CheckRequest(u, r) ==
    FirstFailure(<< <<RefusesHop(u, r), "ProxyLoop">>,
                    <<RefusesPath(u, r), "InvalidRequest">>,
                    <<r.upgrade # "none", "UnsupportedTransport">>,
                    <<r.method # "POST", "InvalidRequest">>,
                    <<r.declared = "large", "RequestTooLarge">>,
                    <<RefusesMetadata(u, r), "SensitiveMetadata">> >>)

\* forward_websocket_inner up to connect_async
CheckUpgrade(u, r) ==
    FirstFailure(<< <<RefusesHop(u, r), "ProxyLoop">>,
                    <<\/ u.provider # "OpenAi" \/ r.path # "responses"
                      \/ r.method # "GET" \/ r.query # "none", "UnsupportedTransport">>,
                    <<RefusesMetadata(u, r), "SensitiveMetadata">>,
                    <<r.upgrade = "malformed", "UnsupportedTransport">> >>)

-----------------------------------------------------------------------------
(* Trace records *)

IssueFor(code, source) ==
    IF code = "UpstreamNotAllowed" THEN "RouteNotAllowed"
    ELSE IF code = "InvalidJson" THEN "InvalidPayload"
    ELSE IF code \in {"InvalidRequest", "SensitiveMetadata", "UnsupportedTransport"} THEN "UnsupportedRequest"
    ELSE IF code \in {"Timeout", "Cancelled"} THEN "Timeout"
    ELSE IF code = "UpstreamFailure" /\ source = "Response" THEN "UnsupportedResponse"
    ELSE code

\* Mutant of RecordOf: coverage is judged by the response alone.
RecordOfResponseOnly(t, code) ==
    LET issue == IF t.issue # None THEN t.issue
                 ELSE IF code = "Ok" THEN None ELSE IssueFor(code, "Request")
    IN  [coverage |-> IF issue = None THEN "Protected"
                      ELSE IF t.response_after > 0 THEN "Degraded" ELSE "Unprotected",
         outcome |-> IF code = "Ok" THEN "Succeeded" ELSE "Rejected",
         issue |-> issue]

\* RequestTrace::emit
RecordOf(t, code) ==
    LET issue == IF t.issue # None THEN t.issue
                 ELSE IF code = "Ok" THEN None ELSE IssueFor(code, "Request")
    IN  [coverage |-> IF issue = None THEN "Protected"
                      ELSE IF t.request_after > 0 \/ t.response_after > 0
                      THEN "Degraded" ELSE "Unprotected",
         outcome |-> IF code = "Ok" THEN "Succeeded"
                     ELSE IF code = "Timeout" THEN "TimedOut"
                     ELSE IF code = "UpstreamFailure" THEN "Failed" ELSE "Rejected",
         issue |-> issue]

\* Record::now refuses more than 1024 replacements; emit then returns silently.
Emit(x, t, code) ==
    records' = IF Cardinality(t.observations) <= MaxReplacements
               THEN [records EXCEPT ![x] = Append(@, RecordOf(t, code))]
               ELSE records

\* The exchange is over: its trace is emitted and the client gets its answer.
Finish(x, t, code) ==
    /\ st' = [st EXCEPT ![x] = "answered"]
    /\ trace' = [trace EXCEPT ![x] = t]
    /\ Emit(x, t, code)

-----------------------------------------------------------------------------
(* forward *)

\* A connection is accepted and the head of a request begins to come.
Connect(x) ==
    /\ server = "serving"
    /\ st[x] = "idle" /\ ~open[x]
    /\ open' = [open EXCEPT ![x] = TRUE]
    /\ UNCHANGED <<server, st, req, resp, depth, trace, sent, released, frames, records>>

\* The other side closes it before the head is complete.
Leave(x) ==
    /\ st[x] = "idle" /\ open[x]
    /\ open' = [open EXCEPT ![x] = FALSE]
    /\ UNCHANGED <<server, st, req, resp, depth, trace, sent, released, frames, records>>

\* The head is complete and reaches the router, also after the cancellation.
Arrive(x, r, d) ==
    /\ st[x] = "idle" /\ open[x]
    /\ req' = [req EXCEPT ![x] = r]
    /\ depth' = [depth EXCEPT ![x] = d]
    /\ UNCHANGED <<server, resp, sent, released, frames, open>>

IsProbe(r) ==
    /\ r.method = "HEAD" /\ Upstream[r.upstream].provider = "Anthropic"
    /\ r.path = "" /\ r.query = "none"

\* An upstream that is not configured.
AcceptUnknown(x, r, d) ==
    /\ r.upstream = None
    /\ Arrive(x, r, d)
    /\ Finish(x, NewTrace, "UpstreamNotAllowed")

\* Anthropic's HEAD probe is answered without an upstream.
AcceptProbe(x, r, d) ==
    /\ r.upstream # None /\ IsProbe(r)
    /\ Arrive(x, r, d)
    /\ Finish(x, NewTrace, "Ok")

\* forward_websocket: the checks, then connect_async, which no timeout covers.
AcceptUpgrade(x, r, d) ==
    /\ r.upstream # None /\ ~IsProbe(r) /\ r.upgrade \in {"websocket", "malformed"}
    /\ Arrive(x, r, d)
    /\ LET code == CheckUpgrade(Upstream[r.upstream], r)
       IN  IF code # "Ok" THEN Finish(x, NewTrace, code)
           ELSE st' = [st EXCEPT ![x] = "connecting"] /\ UNCHANGED <<trace, records>>

AcceptRequest(x, r, d) ==
    /\ r.upstream # None /\ ~IsProbe(r) /\ r.upgrade \notin {"websocket", "malformed"}
    /\ Arrive(x, r, d)
    /\ LET code == CheckRequest(Upstream[r.upstream], r)
       IN  IF code # "Ok" THEN Finish(x, NewTrace, code)
           ELSE st' = [st EXCEPT ![x] = "reading"] /\ UNCHANGED <<trace, records>>

Accept(x, r, d) ==
    AcceptUnknown(x, r, d) \/ AcceptProbe(x, r, d) \/ AcceptUpgrade(x, r, d) \/ AcceptRequest(x, r, d)

\* to_bytes: the body is too large or cannot be read.
ReadFails(x) ==
    /\ st[x] = "reading"
    /\ Finish(x, trace[x], "RequestTooLarge")
    /\ UNCHANGED <<server, req, resp, depth, sent, released, frames, open>>

\* The whole body is in and sanitized.
ReadBody(x) ==
    LET r == req[x]
        u == Upstream[r.upstream]
        safe == SanitizeBody(u, "Request", r.path, r.type, r.body)
    IN  /\ st[x] = "reading" /\ ~r.large
        /\ IF safe.code = "Ok"
           THEN /\ st' = [st EXCEPT ![x] = "sending"]
                /\ trace' = [trace EXCEPT ![x].request_after = 1,
                                          ![x].observations = @ \cup Observed(u, r.body)]
                /\ UNCHANGED records
           ELSE Finish(x, [trace[x] EXCEPT !.issue = IssueFor(safe.code, "Request")], safe.code)
        /\ UNCHANGED <<server, req, resp, depth, sent, released, frames, open>>

\* outbound.send(): the upstream is reached and the sanitized body goes out.
Send(x) ==
    LET r == req[x] IN
    /\ st[x] = "sending"
    /\ st' = [st EXCEPT ![x] = "waiting"]
    /\ sent' = [sent EXCEPT ![x] =
                   Content(SanitizeBody(Upstream[r.upstream], "Request", r.path, r.type, r.body).parts)]
    /\ UNCHANGED <<server, req, resp, depth, trace, released, frames, records, open>>

\* The body that went out, as one string; a handshake has none.
Forwarded(x) ==
    IF sent[x] = None THEN <<>> ELSE <<[kind |-> "string", text |-> sent[x], pointer |-> 0]>>

\* The upstream's address leads back to this listener, to one of its upstreams or
\* to none: what x forwarded arrives on a connection of its own, marker set.
LoopBack(x, y) ==
    /\ st[x] \in {"waiting", "connecting"}
    /\ LeadsBack(Upstream[req[x].upstream])
    /\ \A z \in Exch : depth[z] <= depth[x]
    /\ \E v \in DOMAIN Upstream \cup {None} :
          Accept(y, [req[x] EXCEPT !.upstream = v, !.hop = NextHop(req[x]), !.body = Forwarded(x)],
                 depth[x] + 1)

\* The headers of the upstream's answer arrive.
Respond(x, s) ==
    /\ st[x] = "waiting"
    /\ IF s.declared = "large"
       THEN Finish(x, trace[x], "ResponseTooLarge") /\ UNCHANGED resp
       ELSE /\ st' = [st EXCEPT ![x] = "collecting"]
            /\ resp' = [resp EXCEPT ![x] = s]
            /\ UNCHANGED <<trace, records>>
    /\ UNCHANGED <<server, req, depth, sent, released, frames, open>>

\* The upstream cannot be reached, gives no answer, or a chunk of it fails.
UpstreamFails(x) ==
    /\ st[x] \in {"sending", "waiting", "collecting"}
    /\ Finish(x, trace[x], "UpstreamFailure")
    /\ UNCHANGED <<server, req, resp, depth, sent, released, frames, open>>

\* Mutant of Collect: the response is released as the upstream sent it.
CollectUnsanitized(x) ==
    /\ st[x] = "collecting" /\ ~resp[x].large
    /\ Finish(x, [trace[x] EXCEPT !.response_after = 1], "Ok")
    /\ released' = [released EXCEPT ![x] = Content(resp[x].body)]
    /\ UNCHANGED <<server, req, resp, depth, sent, frames, open>>

\* The last chunk: the whole response is sanitized before any of it is released.
Collect(x) ==
    LET u == Upstream[req[x].upstream]
        s == resp[x]
        safe == SanitizeBody(u, "Response", req[x].path, s.type, s.body)
    IN  /\ st[x] = "collecting"
        /\ IF s.large
           THEN Finish(x, trace[x], "ResponseTooLarge") /\ UNCHANGED released
           ELSE IF safe.code # "Ok"
           THEN /\ Finish(x, [trace[x] EXCEPT !.issue = IssueFor(safe.code, "Response")], safe.code)
                /\ UNCHANGED released
           ELSE /\ Finish(x, [trace[x] EXCEPT !.response_after = Cardinality(DOMAIN safe.parts),
                                              !.observations = @ \cup Observed(u, s.body)], "Ok")
                /\ released' = [released EXCEPT ![x] = Content(safe.parts)]
        /\ UNCHANGED <<server, req, resp, depth, sent, frames, open>>

\* Mutant of Timeout: the exchange is dropped with its trace.
TimeoutSilently(x) ==
    /\ st[x] \in InForward
    /\ st' = [st EXCEPT ![x] = "answered"]
    /\ UNCHANGED <<server, req, resp, depth, trace, sent, released, frames, records, open>>

\* request_timeout drops forward_inner at whatever await it is in.
Timeout(x) ==
    /\ st[x] \in InForward
    /\ Finish(x, [trace[x] EXCEPT !.issue = "Timeout"], "Timeout")
    /\ UNCHANGED <<server, req, resp, depth, sent, released, frames, open>>

\* Mutant of Disconnect: what was read of the exchange is recorded, and its answer later again.
DisconnectRecorded(x) ==
    /\ st[x] \in InForward \cup {"connecting"}
    /\ Emit(x, trace[x], "Ok")
    /\ UNCHANGED <<server, st, req, resp, depth, trace, sent, released, frames, open>>

\* The client closes its connection: the server drops the handler, trace and all.
Disconnect(x) ==
    /\ st[x] \in InForward \cup {"connecting"}
    /\ st' = [st EXCEPT ![x] = "dropped"]
    /\ open' = [open EXCEPT ![x] = FALSE]
    /\ UNCHANGED <<server, req, resp, depth, trace, sent, released, frames, records>>

\* The client has read its answer, or gone away instead; after "101" the
\* connection is upgraded and the server no longer waits for it.
Delivered(x) ==
    /\ st[x] \in {"answered", "bridge"} /\ open[x]
    /\ open' = [open EXCEPT ![x] = FALSE]
    /\ UNCHANGED <<server, st, req, resp, depth, trace, sent, released, frames, records>>

-----------------------------------------------------------------------------
(* The WebSocket bridge *)

ConnectFails(x) ==
    /\ st[x] = "connecting"
    /\ Finish(x, trace[x], "UpstreamFailure")
    /\ UNCHANGED <<server, req, resp, depth, sent, released, frames, open>>

Connected(x) ==
    /\ st[x] = "connecting"
    /\ st' = [st EXCEPT ![x] = "bridge"]
    /\ UNCHANGED <<server, req, resp, depth, trace, sent, released, frames, records, open>>

\* The client is gone before its connection is upgraded: on_upgrade never runs.
UpgradeFails(x) ==
    /\ st[x] = "bridge" /\ open[x]
    /\ st' = [st EXCEPT ![x] = "dropped"]
    /\ open' = [open EXCEPT ![x] = FALSE]
    /\ UNCHANGED <<server, req, resp, depth, trace, sent, released, frames, records>>

\* sanitize_websocket_json takes JSON objects only; other messages end the bridge.
Passes(u, f) ==
    \/ f.kind \in {"ping", "close"}
    \/ f.kind = "text" /\ ~f.large /\ SanitizeParts(u, FALSE, f.body) # None

\* forward_local_ws_message and forward_upstream_ws_message
Relay(x, f, toUpstream) ==
    LET u == Upstream[req[x].upstream]
        parts == IF f.kind = "text" THEN f.body ELSE <<>>
        safe == SanitizeParts(u, FALSE, parts)
        seen(was) == IF was = None THEN Content(safe) ELSE was \cup Content(safe)
    IN  /\ st[x] = "bridge" /\ ~open[x] /\ frames[x] < MaxFrames
        /\ Passes(u, f)
        /\ frames' = [frames EXCEPT ![x] = @ + 1]
        /\ IF toUpstream
           THEN /\ sent' = [sent EXCEPT ![x] = seen(@)]
                /\ trace' = [trace EXCEPT ![x].request_after = @ + Cardinality(DOMAIN safe),
                                          ![x].observations = @ \cup Observed(u, parts)]
                /\ UNCHANGED released
           ELSE /\ released' = [released EXCEPT ![x] = seen(@)]
                /\ trace' = [trace EXCEPT ![x].response_after = @ + Cardinality(DOMAIN safe),
                                          ![x].observations = @ \cup Observed(u, parts)]
                /\ UNCHANGED sent
        /\ UNCHANGED <<server, st, req, resp, depth, records, open>>

\* Either side is gone, a send fails, or a message does not pass: the loop breaks
\* and the exchange is traced without an error code, whatever the reason was.
BridgeEnds(x) ==
    /\ st[x] = "bridge" /\ ~open[x]
    /\ st' = [st EXCEPT ![x] = "closed"]
    /\ Emit(x, trace[x], "Ok")
    /\ UNCHANGED <<server, req, resp, depth, trace, sent, released, frames, open>>

-----------------------------------------------------------------------------
(* BoundProxy::serve *)

Cancel ==
    /\ server = "serving"
    /\ server' = "draining"
    /\ UNCHANGED perExchange

\* Mutant of Drained: upgraded connections are waited for too.
DrainedOfBridges ==
    /\ server = "draining"
    /\ \A x \in Exch : ~open[x] /\ st[x] # "bridge"
    /\ server' = "stopped"
    /\ UNCHANGED perExchange

\* Graceful shutdown waits for connections that are in a request, from the first
\* byte of its head to the last of its answer, and not for upgraded ones.
Drained ==
    /\ server = "draining"
    /\ \A x \in Exch : ~open[x]
    /\ server' = "stopped"
    /\ UNCHANGED perExchange

Init ==
    /\ server = "serving"
    /\ st = [x \in Exch |-> "idle"]
    /\ req = [x \in Exch |-> None]
    /\ resp = [x \in Exch |-> None]
    /\ depth = [x \in Exch |-> 0]
    /\ trace = [x \in Exch |-> NewTrace]
    /\ sent = [x \in Exch |-> None]
    /\ released = [x \in Exch |-> None]
    /\ frames = [x \in Exch |-> 0]
    /\ records = [x \in Exch |-> <<>>]
    /\ open = [x \in Exch |-> FALSE]

Step(x) ==
    \/ Connect(x) \/ Leave(x)
    \/ ReadFails(x) \/ ReadBody(x) \/ Send(x) \/ UpstreamFails(x) \/ Collect(x)
    \/ Timeout(x) \/ Disconnect(x) \/ Delivered(x)
    \/ ConnectFails(x) \/ Connected(x) \/ UpgradeFails(x) \/ BridgeEnds(x)
    \/ \E s \in Responses : Respond(x, s)
    \/ \E f \in Frames, toUpstream \in BOOLEAN : Relay(x, f, toUpstream)

Stopped ==
    /\ server = "stopped"
    /\ \A x \in Exch : st[x] \in {"idle"} \cup Ended
    /\ UNCHANGED vars

Next ==
    \/ \E x \in Exch, r \in Requests : Accept(x, r, 1 + r.hop)
    \/ \E x, y \in Exch : LoopBack(x, y)
    \/ \E x \in Exch : Step(x)
    \/ Cancel
    \/ Drained
    \/ Stopped

Spec == Init /\ [][Next]_vars

\* The timer of tokio::time::timeout fires; the server's task runs.
FairSpec == Spec /\ WF_vars(Drained) /\ \A x \in Exch : WF_vars(Timeout(x))

-----------------------------------------------------------------------------
\* In no interleaving of reads, chunks, timeouts and frames does an upstream or a
\* client receive something the detectors know, or the gateway credential in a body.
NothingRawCrosses ==
    \A x \in Exch :
        req[x] # None /\ req[x].upstream # None =>
            LET u == Upstream[req[x].upstream]
            IN  /\ sent[x] # None => Untouched(u, sent[x])
                /\ released[x] # None => Untouched(u, released[x])

\* Every exchange that was not abandoned leaves exactly one record, whatever await
\* it was cut at, unless it replaced more than a record can hold; one that goes on
\* or was abandoned leaves none.
RecordedOnce ==
    \A x \in Exch :
        Len(records[x]) =
            IF st[x] \in {"answered", "closed"} /\ Cardinality(trace[x].observations) <= MaxReplacements
            THEN 1 ELSE 0

\* The request's body passes sanitize_body.
Inspected(r) == SanitizeBody(Upstream[r.upstream], "Request", r.path, r.type, r.body).code = "Ok"

\* What the record says of an HTTP exchange is what happened, wherever it was cut
\* (docs/tracing.md, "Coverage Meaning").  "protected": the sanitized request went
\* out and the sanitized answer was given, unless it was the HEAD probe.
\* "degraded": the request was inspected, but the client got no answer of the
\* upstream; it may not even have been reached.  "unprotected": nothing crossed in
\* either direction.  And "succeeded" says that there was an answer.
TraceTruthful ==
    \A x \in Exch : \A n \in DOMAIN records[x] :
        LET rec == records[x][n]
        IN  st[x] = "answered" =>
               /\ rec.coverage = "Protected" => IsProbe(req[x]) \/ (sent[x] # None /\ released[x] # None)
               /\ rec.coverage = "Degraded" => Inspected(req[x]) /\ released[x] = None
               /\ rec.coverage = "Unprotected" => sent[x] = None /\ released[x] = None
               /\ rec.outcome = "Succeeded" <=> rec.coverage = "Protected"

\* A request that comes back to the proxy is stopped by its marker: it never
\* passes more than two, and only where an upstream trusts one hop.
LoopStops ==
    \A x \in Exch :
        sent[x] # None =>
            /\ depth[x] <= 2
            /\ depth[x] = 2 => Upstream[req[x].upstream].trusted_proxy_hop

\* The proxy is a traced proxy in the sense of ExchangeTrace.
Phase(x) == IF st[x] = "idle" THEN "idle" ELSE IF st[x] \in Ended THEN "closed" ELSE "open"
Traced ==
    INSTANCE ExchangeTrace WITH
        phase <- [x \in Exch |-> Phase(x)],
        recorded <- [x \in Exch |-> Len(records[x])]
ImplementsTrace == Traced!Spec

\* A connection that no timeout covers: its head is incomplete, its answer is not
\* read to the end, or its WebSocket handshake with the upstream is under way.
Held(x) == open[x] /\ st[x] \notin InForward

\* After the cancellation the server stops, whatever the upstreams do and however
\* long the bridges last, unless a connection is held for ever.
Drains ==
    (\A x \in Exch : []<>~Held(x)) => (server = "draining" ~> server = "stopped")

=============================================================================
