------------------------------ MODULE Gateway ------------------------------
(***************************************************************************)
(* The OpenAI gateway: backend/app/api/gateway.py, gateway/proxy.py,       *)
(* services/upstream_gateway.py and api/upstream.py.                       *)
(*                                                                         *)
(* A caller with a valid key makes one call: a chat completion, a          *)
(* Responses turn or a model list.  Inference is routed to a healthy       *)
(* deployment of the named route or, if none serves it, to the configured  *)
(* upstream gateway.  The call is counted while in flight and recorded in  *)
(* request_metrics.  A streamed answer is relayed until upstream ends or   *)
(* breaks, or the caller leaves.  Meanwhile deployments change and an      *)
(* administrator edits the upstream configuration.                         *)
(*                                                                         *)
(* Upstream sends each SSE event as three pieces, <<event, 1>> and         *)
(* <<event, 2>>, the halves of its data line, and <<event, 3>>, its        *)
(* delimiter; a network chunk is any run of pieces.  Between two waits a   *)
(* handler is one step; what it writes to the caller is what it yields, so *)
(* a caller that leaves while several frames of a chunk are being written  *)
(* is a caller that leaves after a shorter chunk.                          *)
(***************************************************************************)
EXTENDS ResponsesStream, FiniteSets

CONSTANTS
    Callers,
    Deployments,   \* deployment rows
    RouteOf,       \* deployment_route_name
    CapsOf,        \* their capabilities
    Models,        \* names a caller may ask for
    Media,         \* modalities a chat body may contain
    Urls, Keys,    \* upstream base URLs and API keys (of one length)
    Published,     \* the models an upstream lists
    MagpieUrls,    \* the base URLs of the local Magpie
    AliasOf,       \* the name Magpie has for a local route
    FirstConfig,   \* the upstream configured at first
    FallbackEnv,   \* the default of the environment
    None,
    Kinds,         \* the events an upstream sends
    MaxEvents,     \* bound: events of each caller's stream
    MaxChunk,      \* bound: pieces of a chunk
    MaxKeepalives, \* bound: keepalives of a stream
    MaxEdits,      \* bound: edits of the configuration
    MaxFaults      \* bound: failing writes of a metric

\* The capability that each of the proxied endpoints requires.
Endpoints == {"chat", "completion", "decision", "embedding"}

ASSUME GatewayAssumption ==
    /\ IsFiniteSet(Callers)
    /\ RouteOf \in [Deployments -> Models]
    /\ CapsOf \in [Deployments -> SUBSET (Endpoints \cup {"image_generation"} \cup Media)]
    /\ Published \in [Urls -> SUBSET Models]
    /\ None \notin Urls \cup Keys \cup Models
    /\ FirstConfig \in [url : Urls \cup {None}, key : Keys \cup {None}, sel : SUBSET Models]
    /\ FallbackEnv \in [url : Urls \cup {None}, key : Keys \cup {None}]
    /\ Kinds \subseteq Events
    /\ MaxEvents \in [Callers -> Nat]
    /\ {MaxChunk, MaxKeepalives, MaxEdits, MaxFaults} \subseteq Nat

VARIABLES
    active,         \* GatewayActivity
    cfg,            \* the committed SecretSetting rows
    edit,           \* the transaction of put_upstream or put_upstream_exposure
    cache,          \* UpstreamModelCache
    r,              \* the calls
    budget

vars == <<active, cfg, edit, cache, r, budget>>

NoWire == [evs |-> <<>>, n |-> 0]
Idle == [op |-> "none", model |-> None, media |-> {}, stream |-> FALSE, ph |-> "idle",
         path |-> "none", url |-> None, key |-> None, sel |-> {},
         fin |-> FALSE, met |-> "none", lost |-> FALSE, routes |-> {}, list |-> {},
         wire |-> NoWire, pending |-> <<>>, out |-> <<>>, done |-> FALSE,
         beats |-> 0, tr |-> translator]

Init ==
    /\ active = 0
    /\ cfg = FirstConfig
    /\ edit = None
    /\ cache = None
    /\ r = [c \in Callers |-> Idle]
    /\ budget = [edits |-> 0, faults |-> 0]

----------------------------------------------------------------------------
(* Calls: entry, routing and the activity slot.                            *)

\* mutant: the closure lets every call through
FinishAlways(s) == [active |-> IF s.active > 0 THEN s.active - 1 ELSE 0, fin |-> TRUE]

\* GatewayActivity.finish under the closure of _track_activity, which lets
\* only the first call through.
finish_request(s) ==
    IF s.fin THEN s ELSE [active |-> IF s.active > 0 THEN s.active - 1 ELSE 0, fin |-> TRUE]

Slot(c) == [active |-> active, fin |-> r[c].fin]

\* The handler of call c ends with a response that is not a StreamingResponse,
\* or with an exception: on_finished was called n times before _proxy or
\* responses calls it.
Return(c, n, met, lost) ==
    LET once == finish_request(Slot(c))
        s == IF n = 0 THEN once ELSE finish_request(once)
    IN  /\ active' = s.active
        /\ r' = [r EXCEPT ![c] = [Idle EXCEPT !.op = r[c].op, !.stream = r[c].stream,
                                  !.path = r[c].path, !.ph = "end", !.fin = s.fin,
                                  !.met = met, !.lost = lost]]

\* record_request_metric commits or raises.
MetricFails ==
    /\ budget.faults < MaxFaults
    /\ budget' = [budget EXCEPT !.faults = @ + 1]

\* The metric is recorded and on_finished called, or the exception of the
\* write leaves through the handler.
RecordAndReturn(c, met) ==
    \/ Return(c, 1, met, FALSE) /\ UNCHANGED budget
    \/ MetricFails /\ Return(c, 0, "none", TRUE)

Enter(c, op, model, media, stream) ==
    /\ r[c].ph = "idle"
    /\ active' = IF op = "list" THEN active ELSE active + 1
    /\ r' = [r EXCEPT ![c] = [Idle EXCEPT !.op = op, !.model = model, !.media = media,
                              !.stream = stream, !.ph = IF op = "list" THEN "routes" ELSE "body"]]
    /\ UNCHANGED <<cfg, edit, cache, budget>>

\* The rows of the route with the capabilities.  Each SELECT sees the ones that
\* are running and healthy at that moment, of the runtime if one was asked for:
\* select_routed_deployment takes one of those, round robin, or finds none.
candidates(model, caps) ==
    {d \in Deployments : RouteOf[d] = model /\ caps \subseteq CapsOf[d]}

\* What the endpoint and the media of the body ask of a deployment.
required(c, cap) ==
    {cap} \cup r[c].media

Bad(c) ==
    Return(c, 0, "none", FALSE)

\* Not hosted here: _proxy_fallback.
Forward(c) ==
    r' = [r EXCEPT ![c].ph = "exposure"] /\ UNCHANGED active

\* A body without a model, or with media that normalize_multimodal_chat_body
\* refuses; then up to four SELECTs: the deployment, one without the modality or
\* of another runtime, one that generates images, one that decides.
_dispatch_proxy(c) ==
    /\ r[c].ph = "body" /\ r[c].op = "proxy"
    /\ \E cap \in Endpoints :
         LET finds(caps) == candidates(r[c].model, caps) # {}
         IN  /\ r[c].media # {} => cap = "chat"
             /\ \/ (r[c].model = None \/ r[c].media # {}) /\ Bad(c)
                \/ /\ finds(required(c, cap))
                   /\ r' = [r EXCEPT ![c].ph = "send", ![c].path = "local"]
                   /\ UNCHANGED active
                \/ /\ r[c].model # None
                   /\ \/ cap = "chat" /\ finds({cap})
                      \/ finds({"image_generation"}) \/ finds({"decision"})
                      \/ cap = "decision"
                   /\ Bad(c)
                \/ r[c].model # None /\ cap # "decision" /\ Forward(c)
    /\ UNCHANGED <<cfg, edit, cache, budget>>

\* responses_to_chat_request may refuse the body.
_dispatch_responses(c) ==
    /\ r[c].ph = "body" /\ r[c].op = "responses"
    /\ \/ r[c].model = None /\ Bad(c)
       \/ /\ candidates(r[c].model, {"chat"}) # {}
          /\ \/ Bad(c)
             \/ r' = [r EXCEPT ![c].ph = "send", ![c].path = "responses"] /\ UNCHANGED active
       \/ r[c].model # None /\ Forward(c)
    /\ UNCHANGED <<cfg, edit, cache, budget>>

----------------------------------------------------------------------------
(* The upstream configuration: read by _proxy_fallback and by the lists,   *)
(* one SELECT per setting; written by the administrator, who invalidates   *)
(* the cache before the commit.                                            *)

\* UpstreamExposure.allows: expose_all is the selection of every name.
allows_model(x, m) ==
    m \in x.sel

\* resolve_upstream_gateway, its first SELECT.
read_upstream_exposure(c) ==
    /\ r[c].ph = "exposure"
    /\ r' = [r EXCEPT ![c].ph = "url", ![c].sel = cfg.sel]
    /\ UNCHANGED <<active, cfg, edit, cache, budget>>

\* The configuration with this base URL and key is used: a list looks its models
\* up, _proxy_fallback refuses a hidden model.
Resolved(c, url, key) ==
    \/ r[c].op # "list" /\ ~allows_model(r[c], r[c].model) /\ Return(c, 1, "none", FALSE)
    \/ /\ r[c].op = "list" \/ allows_model(r[c], r[c].model)
       /\ r' = [r EXCEPT ![c].url = url, ![c].key = key,
                         ![c].path = IF r[c].op = "list" THEN "none" ELSE "fallback",
                         ![c].ph = IF r[c].op = "list" THEN "lookup" ELSE "send"]
       /\ UNCHANGED active

\* Its SELECT of the base URL: without a row the environment decides.  There is
\* no upstream for the calls that Magpie makes (magpie_local_only).
ReadUrl(c) ==
    /\ r[c].ph = "url"
    /\ \E magpie_local_only \in BOOLEAN :
         \/ /\ ~magpie_local_only /\ cfg.url # None
            /\ r' = [r EXCEPT ![c].ph = "key", ![c].url = cfg.url]
            /\ UNCHANGED active
         \/ /\ ~magpie_local_only /\ cfg.url = None /\ FallbackEnv.url # None
            /\ Resolved(c, FallbackEnv.url, FallbackEnv.key)
         \/ /\ magpie_local_only \/ (cfg.url = None /\ FallbackEnv.url = None)
            /\ \/ r[c].op = "list" /\ r' = [r EXCEPT ![c].ph = "end"] /\ UNCHANGED active
               \/ r[c].op # "list" /\ Return(c, 1, "none", FALSE)
    /\ UNCHANGED <<cfg, edit, cache, budget>>

\* Its SELECT of the API key.
ReadKey(c) ==
    /\ r[c].ph = "key"
    /\ Resolved(c, r[c].url, cfg.key)
    /\ UNCHANGED <<cfg, edit, cache, budget>>

\* Both edits flush their rows and invalidate the cache; the commit follows.
Begin(x) ==
    /\ edit = None /\ budget.edits < MaxEdits
    /\ edit' = x
    /\ cache' = None
    /\ budget' = [budget EXCEPT !.edits = @ + 1]
    /\ UNCHANGED <<active, cfg, r>>

\* set_upstream_base_url: sent without a key, it keeps the stored one.
UrlEdits == {[cfg EXCEPT !.url = u, !.key = k] : u \in Urls, k \in Keys \cup {cfg.key}}
\* clear_upstream_gateway, set_upstream_api_key, clear_upstream_api_key
ClearEdit == [cfg EXCEPT !.url = None, !.key = None]
KeyEdits == {[cfg EXCEPT !.key = k] : k \in Keys \cup {None}}

put_upstream ==
    \E x \in (UrlEdits \cup {ClearEdit} \cup KeyEdits) \ {cfg} : Begin(x)

put_upstream_exposure ==
    \E s \in {Models, {}} \ {cfg.sel} : Begin([cfg EXCEPT !.sel = s])

put_commit ==
    /\ edit # None
    /\ cfg' = edit
    /\ edit' = None
    /\ UNCHANGED <<active, cache, r, budget>>

----------------------------------------------------------------------------
(* Model lists: openai_models with _merge_upstream_models, and             *)
(* list_upstream_models with _cached_models.                               *)

\* openai_models: the routes of the healthy rows, each once.
openai_models(c) ==
    /\ r[c].ph = "routes"
    /\ \E healthy \in SUBSET Deployments :
         r' = [r EXCEPT ![c].ph = "exposure", ![c].routes = {RouteOf[d] : d \in healthy}]
    /\ UNCHANGED <<active, cfg, edit, cache, budget>>

\* list_upstream_models with _cached_models: the same steps without local routes;
\* list is what the answer flags as exposed.
list_upstream_models(c) ==
    /\ r[c].ph = "routes"
    /\ r' = [r EXCEPT ![c].ph = "exposure"]
    /\ UNCHANGED <<active, cfg, edit, cache, budget>>

\* mutant: one entry for every upstream
OneKey(c) == <<None, None>>

\* UpstreamGatewayConfig.cache_key: the URL and the length of the key.
cache_key(c) ==
    <<r[c].url, r[c].key # None>>

\* magpie_local_aliases: Magpie lists the local routes under names of its own.
LocalAliases(c) ==
    IF r[c].url \in MagpieUrls THEN {AliasOf[m] : m \in r[c].routes} ELSE {}

\* _merge_upstream_models: the entries it adds; local routes win.
merged(c, ids) ==
    {m \in ids \ (r[c].routes \cup LocalAliases(c)) : allows_model(r[c], m)}

Answer(c, ids) ==
    r' = [r EXCEPT ![c].ph = "end", ![c].list = merged(c, ids)]

CacheGet(c) ==
    /\ r[c].ph = "lookup"
    /\ IF cache # None /\ cache.key = cache_key(c)
       THEN Answer(c, cache.ids)
       ELSE r' = [r EXCEPT ![c].ph = "fetch"]
    /\ UNCHANGED <<active, cfg, edit, cache, budget>>

\* fetch_upstream_models returns the list or raises ("unavailable").
FetchModels(c) ==
    /\ r[c].ph = "fetch"
    /\ \/ r' = [r EXCEPT ![c].ph = "store", ![c].list = Published[r[c].url]]
       \/ r' = [r EXCEPT ![c].ph = "end"]
    /\ UNCHANGED <<active, cfg, edit, cache, budget>>

CacheSet(c) ==
    /\ r[c].ph = "store"
    /\ cache' = [key |-> cache_key(c), ids |-> r[c].list]
    /\ Answer(c, r[c].list)
    /\ UNCHANGED <<active, cfg, edit, budget>>

\* The entry's TTL passes.
CacheExpire ==
    /\ cache # None
    /\ cache' = None
    /\ UNCHANGED <<active, cfg, edit, r, budget>>

----------------------------------------------------------------------------
(* The upstream request: proxy_openai_request, _proxy_fallback and the     *)
(* second half of _dispatch_responses.                                     *)

\* client.send raises: metric 502.
SendFails(c) ==
    /\ r[c].ph = "send"
    /\ RecordAndReturn(c, "502")
    /\ UNCHANGED <<cfg, edit, cache>>

\* An error status of a local runtime: the body is read (which raises when the
\* rest of a streamed one does not come: "unread", no metric), recorded and
\* returned.
SendError(c) ==
    /\ r[c].ph = "send" /\ (r[c].path # "fallback" \/ ~r[c].stream)
    /\ \/ RecordAndReturn(c, "error")
       \/ r[c].stream /\ Return(c, 0, "unread", FALSE) /\ UNCHANGED budget
    /\ UNCHANGED <<cfg, edit, cache>>

\* A complete answer.  A Responses turn reports one that is no JSON as 502; of
\* JSON that is not an object, or has counts that are no numbers,
\* from_chat_response raises before the metric ("untranslated").
SendWhole(c) ==
    /\ r[c].ph = "send" /\ ~r[c].stream
    /\ \/ RecordAndReturn(c, "200")
       \/ r[c].path = "responses" /\ RecordAndReturn(c, "502")
       \/ r[c].path = "responses" /\ Return(c, 0, "untranslated", FALSE) /\ UNCHANGED budget
    /\ UNCHANGED <<cfg, edit, cache>>

\* The headers of a stream: the handler returns a StreamingResponse and _proxy
\* leaves the slot to the relay, whose translator greets the caller.  (The
\* locals of the routing are forgotten; the relay does not use them.)
SendStream(c) ==
    /\ r[c].ph = "send" /\ r[c].stream
    /\ r' = [r EXCEPT ![c].ph = "stream", ![c].model = None, ![c].media = {}, ![c].url = None,
                      ![c].key = None, ![c].sel = {},
                      ![c].tr = IF r[c].path = "responses" THEN start(translator) ELSE @]
    /\ UNCHANGED <<active, cfg, edit, cache, budget>>

----------------------------------------------------------------------------
(* Relays.                                                                 *)

\* The first n pieces of a stream of events.
Pieces(evs, n) == [i \in 1 .. n |-> <<evs[1 + ((i - 1) \div 3)], 1 + ((i - 1) % 3)>>]
Wire(w) == Pieces(w.evs, w.n)

\* What has been sent after the next chunk: up to MaxChunk more pieces, of new
\* events if need be; nothing follows [DONE].
More(w, most) ==
    LET sent(n) == {[evs |-> w.evs \o ks, n |-> n] :
                      ks \in [1 .. ((n + 2) \div 3) - Len(w.evs) -> Kinds]}
        sizes == {n \in w.n + 1 .. w.n + MaxChunk : n <= 3 * most}
    IN  {x \in UNION {sent(n) : n \in sizes} : \A i \in 1 .. Len(x.evs) - 1 : x.evs[i] # "done"}

\* What stream_body sends when upstream is silent: an event of its own.
Keepalive == <<"keepalive", 3>>

\* One more piece: a delimiter ends a frame; an event that is only a comment
\* is nobody's frame.
Cut(s, piece) ==
    IF piece[2] # 3 THEN [frames |-> s.frames, rest |-> Append(s.rest, piece)]
    ELSE IF s.rest = <<>> /\ piece = Keepalive THEN s
    ELSE [frames |-> Append(s.frames, Append(s.rest, piece)), rest |-> <<>>]

\* The frames of a buffer, cut behind each delimiter, and the unterminated
\* rest; parse_chat_sse_frames, UsageScanner.feed and stream_body do the same.
Split(b) ==
    LET cut[i \in 0 .. Len(b)] ==
            IF i = 0 THEN [frames |-> <<>>, rest |-> <<>>] ELSE Cut(cut[i - 1], b[i])
    IN  cut[Len(b)]
Frames(b) == Split(b).frames
Rest(b) == Split(b).rest

\* A frame's data line is JSON when both halves of it are there.
Readable(f) == Len(f) >= 2 /\ f[1][2] = 1 /\ f[2][2] = 2

\* The translator t after the frames fs of a buffer; n of them came before.
Feed(t, fs, n) ==
    LET fed[k \in 0 .. Len(fs)] ==
            IF k = 0 THEN t
            ELSE IF Readable(fs[k]) THEN feed(fed[k - 1], fs[k][1][1], n + k) ELSE fed[k - 1]
    IN  fed[Len(fs)]

\* mutant: the unterminated rest of a chunk is not kept for the next one
ForgetPending(p, chunk) == chunk

\* pending += chunk, buffer += chunk
buffered(p, chunk) ==
    p \o chunk

\* saw_done: a frame whose data is [DONE].
HasDone(fs) == \E k \in 1 .. Len(fs) : fs[k][1][1] = "done"

\* proxy_openai_request.stream_body: the frames one after the other, which is
\* the buffer without its rest; keepalives between them.
stream_body(c, w, chunk) ==
    LET b == buffered(r[c].pending, chunk)
    IN  r' = [r EXCEPT ![c].wire = w, ![c].pending = Rest(b),
                       ![c].out = @ \o SubSeq(b, 1, Len(b) - Len(Rest(b))),
                       ![c].done = @ \/ HasDone(Frames(b))]

\* _proxy_fallback.relay: chunks as they come.
relay_verbatim(c, w, chunk) ==
    r' = [r EXCEPT ![c].wire = w, ![c].out = @ \o chunk]

\* _translate_responses_stream, one chunk.
translate(c, w, chunk) ==
    LET b == buffered(r[c].pending, chunk)
    IN  r' = [r EXCEPT ![c].wire = w, ![c].pending = Rest(b),
                       ![c].tr = Feed(@, Frames(b), Len(Frames(Wire(r[c].wire))))]

RelayChunk(c) ==
    /\ r[c].ph = "stream"
    /\ \E w \in More(r[c].wire, MaxEvents[c]) :
         LET chunk == SubSeq(Wire(w), r[c].wire.n + 1, w.n)
         IN  CASE r[c].path = "local" -> stream_body(c, w, chunk)
               [] r[c].path = "fallback" -> relay_verbatim(c, w, chunk)
               [] OTHER -> translate(c, w, chunk)
    /\ UNCHANGED <<active, cfg, edit, cache, budget>>

\* No chunk for STREAM_HEARTBEAT_SECONDS; at_event_boundary.
RelayHeartbeat(c) ==
    /\ r[c].ph = "stream" /\ r[c].path = "local" /\ r[c].beats < MaxKeepalives
    /\ r[c].wire.n % 3 = 0
    /\ r' = [r EXCEPT ![c].out = Append(@, Keepalive), ![c].beats = @ + 1]
    /\ UNCHANGED <<active, cfg, edit, cache, budget>>

\* The finally of a relay: the metric (499 for a chat stream without [DONE]),
\* then the slot.  When the write of the metric raises, or a close before it in
\* the same finally, on_finished is skipped.  (The relay has started: a caller
\* that left before the response's first byte is the framework's affair.)
\* kept are the fields of the call that the end of the stream still changed.
RelayEnds(c, kept) ==
    LET met == IF r[c].path = "local" /\ ~r[c].done THEN "499" ELSE "200"
        s == finish_request(Slot(c))
    IN  \/ /\ active' = s.active
           /\ r' = [r EXCEPT ![c] = [kept EXCEPT !.ph = "end", !.fin = s.fin, !.met = met]]
           /\ UNCHANGED budget
        \/ /\ MetricFails
           /\ r' = [r EXCEPT ![c] = [kept EXCEPT !.ph = "end", !.lost = TRUE]]
           /\ UNCHANGED active

Forgotten(c) == [r[c] EXCEPT !.wire = NoWire, !.pending = <<>>, !.out = <<>>,
                             !.done = FALSE, !.beats = 0, !.tr = translator]

\* Upstream closes the stream: the translator is fed an unterminated last
\* event and finishes; stream_body drops what is pending.
UpstreamEnds(c) ==
    /\ r[c].ph = "stream"
    /\ LET n == Len(Frames(Wire(r[c].wire)))
           rest == IF r[c].pending = <<>> THEN <<>> ELSE <<r[c].pending>>
       IN  RelayEnds(c, IF r[c].path = "responses"
                        THEN [r[c] EXCEPT !.tr = finish(Feed(@, rest, n))]
                        ELSE Forgotten(c))
    /\ UNCHANGED <<cfg, edit, cache>>

\* Upstream breaks, or the caller leaves and the generator is closed.
UpstreamBreaks(c) ==
    /\ r[c].ph = "stream"
    /\ RelayEnds(c, Forgotten(c))
    /\ UNCHANGED <<cfg, edit, cache>>

----------------------------------------------------------------------------
Next ==
    \/ \E c \in Callers :
          /\ r[c].ph = "idle"
          /\ \/ \E m \in Models \cup {None}, x \in SUBSET Media, s \in BOOLEAN :
                   Enter(c, "proxy", m, x, s)
             \/ \E m \in Models \cup {None}, s \in BOOLEAN : Enter(c, "responses", m, {}, s)
             \/ Enter(c, "list", None, {}, FALSE)
    \/ \E c \in Callers :
          \/ _dispatch_proxy(c)
          \/ _dispatch_responses(c)
          \/ read_upstream_exposure(c)
          \/ ReadUrl(c)
          \/ ReadKey(c)
          \/ openai_models(c)
          \/ list_upstream_models(c)
          \/ CacheGet(c)
          \/ FetchModels(c)
          \/ CacheSet(c)
          \/ SendFails(c)
          \/ SendError(c)
          \/ SendWhole(c)
          \/ SendStream(c)
          \/ RelayChunk(c)
          \/ RelayHeartbeat(c)
          \/ UpstreamEnds(c)
          \/ UpstreamBreaks(c)
    \/ put_upstream
    \/ put_upstream_exposure
    \/ put_commit
    \/ CacheExpire

Spec == Init /\ [][Next]_vars

----------------------------------------------------------------------------
InFlight == {c \in Callers : r[c].op # "list" /\ r[c].ph \notin {"idle", "end"}}

(***************************************************************************)
(* What a call that ended has left in the metrics: nothing if it made no   *)
(* upstream request, its status if it made one.  Two exceptions leave a    *)
(* handler between the request and the metric: the body of an error to a   *)
(* local stream that breaks off, and the whole answer of a Responses turn  *)
(* that from_chat_response cannot take apart.                              *)
(***************************************************************************)
Settled(x) ==
    IF x.path = "none" THEN x.met = "none"
    ELSE \/ x.met \in {"200", "499", "502", "error"}
         \/ x.met = "unread" /\ x.stream /\ x.path # "fallback"
         \/ x.met = "untranslated" /\ ~x.stream /\ x.path = "responses"

(***************************************************************************)
(* Every inference call is accounted for: active_requests is the number of *)
(* calls in flight, plus one for each stream whose metric could not be     *)
(* written (its relay's finally never reaches on_finished), although the   *)
(* handler, its caller and the relay each give the slot back; and unless   *)
(* the write failed, a call that ended is settled: no metric without a     *)
(* request, and no request without one but for the two exceptions.         *)
(***************************************************************************)
CallsAreAccounted ==
    /\ active = Cardinality(InFlight \cup {c \in Callers : r[c].lost /\ r[c].stream
                                                           /\ ~r[c].fin})
    /\ \A c \in Callers : r[c].ph = "end" /\ r[c].op # "list" /\ ~r[c].lost => Settled(r[c])

(***************************************************************************)
(* However upstream's bytes are cut into chunks, a caller that parses what *)
(* stream_body or the fallback relay wrote finds exactly the events that   *)
(* upstream terminated so far, whole and in order, keepalives being        *)
(* comments of their own; stream_body leaves no event half written.  It    *)
(* knows whether [DONE], which decides between the statuses 200 and 499,   *)
(* was among them.                                                         *)
(***************************************************************************)
RelaysKeepEvents ==
    \A c \in Callers : r[c].ph = "stream" /\ r[c].path \in {"local", "fallback"} =>
        LET all == Frames(Wire(r[c].wire))
        IN  /\ Frames(r[c].out) = all
            /\ r[c].path = "local" => Rest(r[c].out) = <<>> /\ (r[c].done <=> HasDone(all))

\* The events of a wire whose data line is complete, [DONE] apart.
ReadableEvents(w) ==
    {k \in 1 .. Len(w.evs) : w.evs[k] # "done" /\ w.n >= 3 * k - 1}

\* The frames of a type.
OfType(f, type) == {k \in 1 .. Len(f) : f[k].type = type}

\* The deltas of output index i spell the text, one after the other.
Spells(text, f, i) ==
    LET deltas == {k \in OfType(f, "delta") : f[k].index = i}
    IN  \E at \in [1 .. Len(text) -> deltas] :
          /\ \A k \in deltas : \E m \in 1 .. Len(text) : at[m] = k
          /\ \A m \in 1 .. Len(text) : f[at[m]].text = <<text[m]>>
          /\ \A l, m \in 1 .. Len(text) : l < m => at[l] < at[m]

\* What holds of the frames at any time, and once the stream is completed.
Growing(f) ==
    LET added == OfType(f, "item.added")
    IN  /\ \A k \in 1 .. Len(f) : f[k].n = k - 1
        /\ {f[k].index : k \in added} = 0 .. Cardinality(added) - 1
        /\ \A k \in OfType(f, "delta") : \E j \in added : j < k /\ f[j].index = f[k].index

Finished(f, w) ==
    LET added == OfType(f, "item.added")
        done == OfType(f, "item.done")
    IN  /\ OfType(f, "completed") = {Len(f)}
        /\ ToSet(f[Len(f)].text) = {f[k].index : k \in added}
        /\ \A k \in added : \E j \in done :
              /\ \A l \in done : f[l].index = f[k].index <=> l = j
              /\ Spells(f[j].text, f, f[k].index)
              /\ \A d \in OfType(f, "delta") : f[d].index = f[k].index => d < j
        /\ ReadableEvents(w) = UNION {ToSet(f[j].text) : j \in done}

WellFormed(f, w) ==
    Growing(f) /\ (OfType(f, "completed") # {} => Finished(f, w))

(***************************************************************************)
(* A Responses stream is well formed however reasoning, content and tool   *)
(* calls interleave and wherever upstream's chunks are cut: frames are     *)
(* numbered without a gap; output indices are opened once, in order,       *)
(* before their deltas; response.completed is last, and before it every    *)
(* item was closed once with the text of all its deltas.  When upstream    *)
(* closed the stream, every readable event was translated, an unterminated *)
(* last one included.  (The order of the items in response.completed is    *)
(* finish's own, reasoning, message, calls: only their set is compared.)   *)
(***************************************************************************)
ResponsesAreWellFormed ==
    \A c \in Callers : r[c].path = "responses" /\ r[c].tr.frames # <<>> =>
        WellFormed(r[c].tr.frames, r[c].wire)

(***************************************************************************)
(* The upstream entries of a model list come from the base URL that the    *)
(* request read, whatever was cached, edited or invalidated while it       *)
(* looked, fetched and stored; none is hidden by the exposure it read, and *)
(* none stands beside a local route of its name.                           *)
(***************************************************************************)
ListsAreOfTheirUpstream ==
    \A c \in Callers : r[c].op = "list" /\ r[c].ph = "end" /\ r[c].url # None =>
        r[c].list \subseteq (Published[r[c].url] \cap r[c].sel) \ r[c].routes
----------------------------------------------------------------------------
(***************************************************************************)
(* The inductive invariant behind CallsAreAccounted and                    *)
(* ListsAreOfTheirUpstream: what a call knows in each of its phases, what  *)
(* the cache holds, and which calls active_requests counts.                *)
(***************************************************************************)
Fields ==
    {"op", "model", "media", "stream", "ph", "path", "url", "key", "sel", "fin", "met", "lost",
     "routes", "list", "wire", "pending", "out", "done", "beats", "tr"}

\* A call that holds a slot: in flight, or a relay that never gave it back.
Counts(x) ==
    \/ x.op # "list" /\ x.ph \notin {"idle", "end"}
    \/ x.lost /\ x.stream /\ ~x.fin

\* on_finished has not been called while the call is in flight; the path is
\* chosen before the request is sent.
InferenceOK(x) ==
    /\ x.ph \in {"idle", "body", "exposure", "url", "key", "send", "stream", "end"}
    /\ x.ph \in {"body", "exposure", "url", "key"} => x.path = "none"
    /\ x.ph \in {"send", "stream"} => x.path # "none"
    /\ x.ph = "stream" => x.stream
    /\ x.ph = "end" /\ ~x.lost => Settled(x)

\* A list has no upstream entries before it fetched them, all of them until it
\* stored them, and the merged ones at its end.
ListOK(x) ==
    /\ x.ph \in {"routes", "exposure", "url", "key", "lookup", "fetch", "store", "end"}
    /\ x.ph \notin {"store", "end"} => x.list = {}
    /\ x.ph = "store" => x.list = Published[x.url]
    /\ x.ph = "end" /\ x.url # None => x.list \subseteq (Published[x.url] \cap x.sel) \ x.routes

CallOK(x) ==
    /\ DOMAIN x = Fields
    /\ {x.stream, x.fin, x.lost} \subseteq BOOLEAN
    /\ x.ph # "end" => ~x.fin /\ ~x.lost
    /\ IF x.op = "list" THEN ListOK(x) /\ ~x.lost ELSE InferenceOK(x)

IInv ==
    /\ r = [c \in Callers |-> r[c]] /\ \A c \in Callers : CallOK(r[c])
    /\ active = Cardinality({c \in Callers : Counts(r[c])})
    /\ cache # None => cache.ids = Published[cache.key[1]]

(***************************************************************************)
(* The inductive invariant behind RelaysKeepEvents: stream_body keeps the  *)
(* unterminated rest of what upstream sent and wrote what came before it,  *)
(* so that its cut of the next chunk goes on where it stopped.             *)
(***************************************************************************)
AnyPiece == (Kinds \cup {"keepalive"}) \X (1 .. 3)

\* The events of a stream are those that the pieces sent so far belong to.
WireOK(w) ==
    /\ w.evs \in Seq(Kinds) /\ w.n \in Nat
    /\ Len(w.evs) = (w.n + 2) \div 3

LocalOK(x) ==
    /\ x.pending = Rest(Wire(x.wire))
    /\ x.out \in Seq(AnyPiece)
    /\ Split(x.out) = [frames |-> Frames(Wire(x.wire)), rest |-> <<>>]
    /\ x.done <=> HasDone(Frames(Wire(x.wire)))

RelayOK(x) ==
    /\ x.ph \notin {"stream", "end"} =>
          x.wire = NoWire /\ x.pending = <<>> /\ x.out = <<>> /\ x.done = FALSE
    /\ x.ph = "stream" =>
          /\ WireOK(x.wire)
          /\ x.path = "local" => LocalOK(x)
          /\ x.path = "fallback" => x.out = Wire(x.wire)

RelayInv ==
    \A c \in Callers : RelayOK(r[c])

(***************************************************************************)
(* The inductive invariant behind ResponsesAreWellFormed: a translator     *)
(* that has not finished has opened its items one after the other, each    *)
(* has the text that its deltas spell, and together they have the ordinals *)
(* of the events fed so far, which are those that upstream terminated.     *)
(***************************************************************************)
FrameTypes == {"created", "in_progress", "item.added", "part.added", "delta",
               "text.done", "part.done", "item.done", "completed"}

Translators ==
    [seq : Nat, items : Seq([key : Int, text : Seq(Nat)]), _tool_order : Seq(Int),
     completed : BOOLEAN,
     frames : Seq([n : Nat, type : FrameTypes, index : Int, text : Seq(Nat)])]

\* Two items have two keys, and _tool_order has those of the tool calls.
KeysOK(t) ==
    /\ \A i, j \in 1 .. Len(t.items) : t.items[i].key = t.items[j].key => i = j
    /\ \A l, m \in 1 .. Len(t._tool_order) : t._tool_order[l] = t._tool_order[m] => l = m
    /\ {t._tool_order[m] : m \in 1 .. Len(t._tool_order)} =
          {t.items[i].key : i \in 1 .. Len(t.items)} \ {-2, -1}

Texts(t) == UNION {ToSet(t.items[i].text) : i \in 1 .. Len(t.items)}

TranslatorOK(t) ==
    /\ t \in Translators /\ t.seq = Len(t.frames)
    /\ KeysOK(t)
    /\ Growing(t.frames)
    /\ Cardinality(OfType(t.frames, "item.added")) = Len(t.items)
    /\ \A i \in 1 .. Len(t.items) : Spells(t.items[i].text, t.frames, i - 1)

Open(t) ==
    ~t.completed /\ OfType(t.frames, "item.done") = {} /\ OfType(t.frames, "completed") = {}

\* The events that were terminated, [DONE] apart.
Heard(w) == {k \in 1 .. Len(w.evs) : w.evs[k] # "done" /\ w.n >= 3 * k}

TurnOK(x) ==
    /\ x.ph \notin {"stream", "end"} => x.tr = translator
    /\ x.path = "responses" /\ x.ph = "stream" =>
          /\ x.pending = Rest(Wire(x.wire))
          /\ TranslatorOK(x.tr) /\ Open(x.tr) /\ Texts(x.tr) = Heard(x.wire)
    /\ x.path = "responses" /\ x.ph = "end" =>
          x.tr.frames = <<>> \/ WellFormed(x.tr.frames, x.wire)

TurnInv ==
    \A c \in Callers : TurnOK(r[c])
=============================================================================
