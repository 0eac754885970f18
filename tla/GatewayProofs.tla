---------------------------- MODULE GatewayProofs ----------------------------
(***************************************************************************)
(* CallsAreAccounted, ListsAreOfTheirUpstream, RelaysKeepEvents and        *)
(* ResponsesAreWellFormed of Gateway, for every finite set of callers and  *)
(* every set of deployments, models, upstreams and events, and every       *)
(* bound.                                                                  *)
(***************************************************************************)
EXTENDS Gateway, FiniteSetTheorems, WellFoundedInduction, TLAPS

(* A call before it enters has every field, and holds no slot.             *)
LEMMA IdleFacts ==
    /\ DOMAIN Idle = Fields /\ CallOK(Idle) /\ ~Counts(Idle)
    /\ Idle.op = "none" /\ Idle.path = "none" /\ Idle.stream = FALSE /\ Idle.fin = FALSE
    /\ Idle.lost = FALSE /\ Idle.ph = "idle" /\ Idle.list = {} /\ Idle.url = None
  BY DEF Idle, Fields, CallOK, InferenceOK, Counts

Counted == {c \in Callers : Counts(r[c])}

(***************************************************************************)
(* The calls are finitely many, so one more or one fewer that holds a slot *)
(* is one more or one fewer in number.                                     *)
(***************************************************************************)
LEMMA CountedFacts ==
    ASSUME IInv, NEW c \in Callers
    PROVE  /\ IsFiniteSet(Counted) /\ active = Cardinality(Counted) /\ active \in Nat
           /\ Counts(r[c]) => active > 0 /\ Cardinality(Counted \ {c}) = active - 1
           /\ ~Counts(r[c]) => Cardinality(Counted \cup {c}) = active + 1
<1>1. IsFiniteSet(Counted)
  BY FS_Subset, GatewayAssumption DEF Counted
<1>2. active = Cardinality(Counted) /\ active \in Nat
  BY <1>1, FS_CardinalityType DEF IInv, Counted
<1>3. ASSUME Counts(r[c])
      PROVE  active > 0 /\ Cardinality(Counted \ {c}) = active - 1
  <2>1. c \in Counted
    BY <1>3 DEF Counted
  <2>2. Cardinality(Counted \ {c}) = Cardinality(Counted) - 1
    BY <1>1, <2>1, FS_RemoveElement
  <2>3. Cardinality(Counted) # 0
    BY <1>1, <2>1, FS_EmptySet
  <2> QED BY <1>2, <2>2, <2>3
<1>4. ASSUME ~Counts(r[c])
      PROVE  Cardinality(Counted \cup {c}) = active + 1
  <2>1. c \notin Counted
    BY <1>4 DEF Counted
  <2> QED BY <1>1, <1>2, <2>1, FS_AddElement
<1> QED BY <1>1, <1>2, <1>3, <1>4

(***************************************************************************)
(* A step of one call, from what the call becomes.                         *)
(***************************************************************************)
LEMMA CallStep ==
    ASSUME IInv, NEW c \in Callers, NEW v, CallOK(v), r' = [r EXCEPT ![c] = v],
           active' = CASE (Counts(v) <=> Counts(r[c])) -> active
                       [] Counts(v) /\ ~Counts(r[c]) -> active + 1
                       [] OTHER -> active - 1,
           cache' # None => cache'.ids = Published[cache'.key[1]]
    PROVE  IInv'
<1>1. /\ r = [d \in Callers |-> r[d]] /\ DOMAIN r = Callers
      /\ \A d \in Callers : CallOK(r[d])
  BY DEF IInv
<1>2. /\ r' = [d \in Callers |-> r'[d]] /\ r'[c] = v
      /\ \A d \in Callers : d # c => r'[d] = r[d]
  BY <1>1
<1>3. \A d \in Callers : CallOK(r'[d])
  BY <1>1, <1>2
<1>4. Counted' = IF Counts(v) THEN Counted \cup {c} ELSE Counted \ {c}
  BY <1>2 DEF Counted
<1>5. active' = Cardinality(Counted')
  <2>1. CASE Counts(v) /\ Counts(r[c])
    <3>1. Counted' = Counted
      BY <1>4, <2>1 DEF Counted
    <3> QED BY <2>1, <3>1, CountedFacts
  <2>2. CASE ~Counts(v) /\ ~Counts(r[c])
    <3>1. Counted' = Counted
      BY <1>4, <2>2 DEF Counted
    <3> QED BY <2>2, <3>1, CountedFacts
  <2>3. CASE Counts(v) /\ ~Counts(r[c])
    BY <1>4, <2>3, CountedFacts
  <2>4. CASE ~Counts(v) /\ Counts(r[c])
    BY <1>4, <2>4, CountedFacts
  <2> QED BY <2>1, <2>2, <2>3, <2>4
<1> QED BY <1>2, <1>3, <1>5 DEF IInv, Counted

(* A step of the configuration or of the cache.                            *)
LEMMA CallsStay ==
    ASSUME IInv, r' = r, active' = active,
           cache' # None => cache'.ids = Published[cache'.key[1]]
    PROVE  IInv'
  BY DEF IInv

-----------------------------------------------------------------------------
(* Enter                                                                   *)
LEMMA EnterStep ==
    ASSUME IInv, NEW c \in Callers, NEW op \in {"proxy", "responses", "list"}, NEW model,
           NEW media, NEW stream \in BOOLEAN, Enter(c, op, model, media, stream)
    PROVE  IInv'
<1>1. /\ r[c].ph = "idle" /\ cache' = cache /\ CallOK(r[c])
      /\ active' = IF op = "list" THEN active ELSE active + 1
  BY DEF Enter, IInv
<1>2. PICK v : v = [Idle EXCEPT !.op = op, !.model = model, !.media = media, !.stream = stream,
                                !.ph = IF op = "list" THEN "routes" ELSE "body"]
  OBVIOUS
<1>3. r' = [r EXCEPT ![c] = v]
  BY <1>2 DEF Enter
<1>4. /\ DOMAIN v = Fields /\ v.op = op /\ v.stream = stream
      /\ v.ph = (IF op = "list" THEN "routes" ELSE "body")
      /\ v.fin = FALSE /\ v.lost = FALSE /\ v.path = "none" /\ v.list = {}
  BY <1>2, IdleFacts DEF Fields
<1>5. CallOK(v) /\ (Counts(v) <=> op # "list")
  BY <1>4 DEF CallOK, ListOK, InferenceOK, Counts
<1>6. ~Counts(r[c])
  BY <1>1 DEF CallOK, ListOK, Counts
<1> QED BY <1>1, <1>3, <1>5, <1>6, CallStep DEF IInv

(* Return: a call in flight gives its slot back once, whoever asks first.  *)
LEMMA ReturnStep ==
    ASSUME IInv, NEW c \in Callers, NEW n \in {0, 1}, NEW met, NEW lost \in BOOLEAN,
           Return(c, n, met, lost), cache' = cache,
           r[c].op # "list", r[c].ph \notin {"idle", "end"},
           ~lost => Settled([path |-> r[c].path, stream |-> r[c].stream, met |-> met])
    PROVE  IInv'
<1>1. CallOK(r[c]) /\ Counts(r[c]) /\ r[c].fin = FALSE
  BY DEF IInv, CallOK, Counts
<1>2. active \in Nat /\ active > 0
  BY <1>1, CountedFacts
<1>3. finish_request(Slot(c)) = [active |-> active - 1, fin |-> TRUE]
  BY <1>1, <1>2 DEF finish_request, Slot
<1>4. finish_request([active |-> active - 1, fin |-> TRUE]) = [active |-> active - 1, fin |-> TRUE]
  BY DEF finish_request
<1>5. PICK s : s = IF n = 0 THEN finish_request(Slot(c))
                   ELSE finish_request(finish_request(Slot(c)))
  OBVIOUS
<1>6. s.active = active - 1 /\ s.fin = TRUE
  BY <1>3, <1>4, <1>5
<1>7. PICK v : v = [Idle EXCEPT !.op = r[c].op, !.stream = r[c].stream, !.path = r[c].path,
                                 !.ph = "end", !.fin = s.fin, !.met = met, !.lost = lost]
  OBVIOUS
<1>8. active' = active - 1 /\ r' = [r EXCEPT ![c] = v]
  <2>1. active' = s.active /\ r' = [r EXCEPT ![c] = v]
    BY <1>5, <1>7, Zenon DEF Return
  <2> QED BY <1>6, <2>1
<1>9. /\ DOMAIN v = Fields /\ v.op = r[c].op /\ v.stream = r[c].stream /\ v.path = r[c].path
      /\ v.ph = "end" /\ v.fin = TRUE /\ v.met = met /\ v.lost = lost
  BY <1>6, <1>7, IdleFacts DEF Fields
<1>10. ~v.lost => Settled(v)
  BY <1>9 DEF Settled
<1>11. CallOK(v) /\ ~Counts(v)
  BY <1>1, <1>9, <1>10 DEF CallOK, InferenceOK, Counts
<1> QED BY <1>1, <1>8, <1>11, CallStep DEF IInv

(* A refusal: no path was chosen and no request is made.                   *)
LEMMA RefuseStep ==
    ASSUME IInv, NEW c \in Callers, NEW n \in {0, 1}, Return(c, n, "none", FALSE),
           cache' = cache, r[c].op # "list", r[c].ph \notin {"idle", "end"},
           r[c].path = "none"
    PROVE  IInv'
<1>1. Settled([path |-> r[c].path, stream |-> r[c].stream, met |-> "none"])
  BY DEF Settled
<1> QED BY <1>1, ReturnStep

(* RecordAndReturn                                                         *)
LEMMA RecordStep ==
    ASSUME IInv, NEW c \in Callers, NEW met \in {"200", "502", "error"}, RecordAndReturn(c, met),
           cache' = cache, r[c].op # "list", r[c].ph = "send"
    PROVE  IInv'
<1>1. r[c].path # "none"
  BY DEF IInv, CallOK, InferenceOK
<1>2. CASE Return(c, 1, met, FALSE)
  <2>1. Settled([path |-> r[c].path, stream |-> r[c].stream, met |-> met])
    BY <1>1 DEF Settled
  <2> QED BY <1>1, <1>2, <2>1, ReturnStep
<1>3. CASE Return(c, 0, "none", TRUE)
  BY <1>3, ReturnStep
<1> QED BY <1>2, <1>3 DEF RecordAndReturn

(* An inference call that goes on: neither its slot nor its end changes.   *)
LEMMA InferenceMoves ==
    ASSUME IInv, NEW c \in Callers, NEW v, r' = [r EXCEPT ![c] = v], active' = active,
           cache' = cache, r[c].op # "list", r[c].ph \notin {"idle", "end"},
           DOMAIN v = Fields, v.op = r[c].op, v.stream = r[c].stream, v.fin = r[c].fin,
           v.lost = r[c].lost, v.ph \in {"body", "exposure", "url", "key", "send", "stream"},
           v.ph \in {"body", "exposure", "url", "key"} => v.path = "none",
           v.ph \in {"send", "stream"} => v.path # "none",
           v.ph = "stream" => v.stream
    PROVE  IInv'
<1>1. CallOK(r[c])
  BY DEF IInv
<1>2. CallOK(v) /\ Counts(v) /\ Counts(r[c])
  BY <1>1 DEF CallOK, InferenceOK, Counts
<1> QED BY <1>2, CallStep DEF IInv

(* A list that goes on.                                                    *)
LEMMA ListMoves ==
    ASSUME IInv, NEW c \in Callers, NEW v, r' = [r EXCEPT ![c] = v], active' = active,
           cache' # None => cache'.ids = Published[cache'.key[1]],
           r[c].op = "list", DOMAIN v = Fields, v.op = "list", v.stream = r[c].stream,
           v.fin = r[c].fin, v.lost = r[c].lost, ListOK(v), r[c].ph # "end"
    PROVE  IInv'
<1>1. CallOK(r[c])
  BY DEF IInv
<1>2. CallOK(v) /\ ~Counts(v) /\ ~Counts(r[c])
  BY <1>1 DEF CallOK, Counts
<1> QED BY <1>2, CallStep

-----------------------------------------------------------------------------
(* Routing: _dispatch_proxy and _dispatch_responses.                       *)
LEMMA DispatchStep ==
    ASSUME IInv, NEW c \in Callers, _dispatch_proxy(c) \/ _dispatch_responses(c)
    PROVE  IInv'
<1>1. /\ r[c].ph = "body" /\ r[c].op # "list" /\ cache' = cache
      /\ CallOK(r[c]) /\ r[c].path = "none"
  BY DEF _dispatch_proxy, _dispatch_responses, IInv, CallOK, InferenceOK
<1>2. CASE Bad(c)
  BY <1>1, <1>2, RefuseStep DEF Bad
<1>3. CASE r' = [r EXCEPT ![c].ph = "exposure"] /\ active' = active
  <2>1. PICK v : v = [r[c] EXCEPT !.ph = "exposure"]
    OBVIOUS
  <2>2. r' = [r EXCEPT ![c] = v]
    BY <1>3, <2>1
  <2>3. /\ DOMAIN v = Fields /\ v.op = r[c].op /\ v.stream = r[c].stream /\ v.fin = r[c].fin
        /\ v.lost = r[c].lost /\ v.ph = "exposure" /\ v.path = "none"
    BY <1>1, <2>1 DEF CallOK, Fields
  <2> QED BY <1>1, <1>3, <2>2, <2>3, InferenceMoves
<1>4. ASSUME NEW path \in {"local", "responses"}, active' = active,
             r' = [r EXCEPT ![c].ph = "send", ![c].path = path]
      PROVE  IInv'
  <2>1. PICK v : v = [r[c] EXCEPT !.ph = "send", !.path = path]
    OBVIOUS
  <2>2. r' = [r EXCEPT ![c] = v]
    BY <1>4, <2>1 DEF IInv
  <2>3. /\ DOMAIN v = Fields /\ v.op = r[c].op /\ v.stream = r[c].stream /\ v.fin = r[c].fin
        /\ v.lost = r[c].lost /\ v.ph = "send" /\ v.path # "none"
    BY <1>1, <2>1 DEF CallOK, Fields
  <2> QED BY <1>1, <1>4, <2>2, <2>3, InferenceMoves
<1> QED BY <1>2, <1>3, <1>4 DEF _dispatch_proxy, _dispatch_responses, Forward

(* read_upstream_exposure                                                  *)
LEMMA ExposureStep ==
    ASSUME IInv, NEW c \in Callers, read_upstream_exposure(c)
    PROVE  IInv'
<1>1. r[c].ph = "exposure" /\ cache' = cache /\ active' = active /\ CallOK(r[c])
  BY DEF read_upstream_exposure, IInv
<1>2. PICK v : v = [r[c] EXCEPT !.ph = "url", !.sel = cfg.sel]
  OBVIOUS
<1>3. r' = [r EXCEPT ![c] = v]
  BY <1>2 DEF read_upstream_exposure, IInv
<1>4. /\ DOMAIN v = Fields /\ v.op = r[c].op /\ v.stream = r[c].stream /\ v.fin = r[c].fin
      /\ v.lost = r[c].lost /\ v.ph = "url" /\ v.path = r[c].path /\ v.list = r[c].list
  BY <1>1, <1>2 DEF CallOK, Fields
<1>5. CASE r[c].op = "list"
  <2>1. ListOK(v)
    BY <1>1, <1>4, <1>5 DEF CallOK, ListOK
  <2> QED BY <1>1, <1>3, <1>4, <1>5, <2>1, ListMoves DEF IInv
<1>6. CASE r[c].op # "list"
  <2>1. v.path = "none"
    BY <1>1, <1>4, <1>6 DEF CallOK, InferenceOK
  <2> QED BY <1>1, <1>3, <1>4, <1>6, <2>1, InferenceMoves
<1> QED BY <1>5, <1>6

(* Resolved: a configuration was found.                                    *)
LEMMA ResolvedStep ==
    ASSUME IInv, NEW c \in Callers, NEW url, NEW key, Resolved(c, url, key), cache' = cache,
           r[c].ph \in {"url", "key"}
    PROVE  IInv'
<1>1. CallOK(r[c])
  BY DEF IInv
<1>2. CASE r[c].op # "list" /\ Return(c, 1, "none", FALSE)
  <2>1. r[c].path = "none"
    BY <1>1, <1>2 DEF CallOK, InferenceOK
  <2> QED BY <1>1, <1>2, <2>1, RefuseStep
<1>3. CASE /\ r' = [r EXCEPT ![c].url = url, ![c].key = key,
                            ![c].path = IF r[c].op = "list" THEN "none" ELSE "fallback",
                            ![c].ph = IF r[c].op = "list" THEN "lookup" ELSE "send"]
           /\ active' = active
  <2>1. PICK path, ph : /\ path = IF r[c].op = "list" THEN "none" ELSE "fallback"
                        /\ ph = IF r[c].op = "list" THEN "lookup" ELSE "send"
    OBVIOUS
  <2>2. PICK v : v = [r[c] EXCEPT !.url = url, !.key = key, !.path = path, !.ph = ph]
    OBVIOUS
  <2>3. r' = [r EXCEPT ![c] = v]
    BY <1>3, <2>1, <2>2 DEF IInv
  <2>4. /\ DOMAIN v = Fields /\ v.op = r[c].op /\ v.stream = r[c].stream /\ v.fin = r[c].fin
        /\ v.lost = r[c].lost /\ v.ph = ph /\ v.path = path /\ v.list = r[c].list
    BY <1>1, <2>2 DEF CallOK, Fields
  <2>5. CASE r[c].op = "list"
    <3>1. ListOK(v)
      BY <1>1, <2>1, <2>4, <2>5 DEF CallOK, ListOK
    <3>2. cache' # None => cache'.ids = Published[cache'.key[1]]
      BY DEF IInv
    <3> QED BY <1>1, <1>3, <2>3, <2>4, <2>5, <3>1, <3>2, ListMoves
  <2>6. CASE r[c].op # "list"
    BY <1>1, <1>3, <2>1, <2>3, <2>4, <2>6, InferenceMoves
  <2> QED BY <2>5, <2>6
<1> QED BY <1>2, <1>3 DEF Resolved

(* ReadUrl                                                                 *)
LEMMA ReadUrlStep ==
    ASSUME IInv, NEW c \in Callers, ReadUrl(c)
    PROVE  IInv'
<1>1. r[c].ph = "url" /\ cache' = cache /\ CallOK(r[c])
  BY DEF ReadUrl, IInv
<1>2. CASE /\ r' = [r EXCEPT ![c].ph = "key", ![c].url = cfg.url]
           /\ active' = active
  <2>1. PICK v : v = [r[c] EXCEPT !.ph = "key", !.url = cfg.url]
    OBVIOUS
  <2>2. r' = [r EXCEPT ![c] = v]
    BY <1>2, <2>1 DEF IInv
  <2>3. /\ DOMAIN v = Fields /\ v.op = r[c].op /\ v.stream = r[c].stream /\ v.fin = r[c].fin
        /\ v.lost = r[c].lost /\ v.ph = "key" /\ v.path = r[c].path /\ v.list = r[c].list
    BY <1>1, <2>1 DEF CallOK, Fields
  <2>4. CASE r[c].op = "list"
    <3>1. ListOK(v)
      BY <1>1, <2>3, <2>4 DEF CallOK, ListOK
    <3> QED BY <1>1, <1>2, <2>2, <2>3, <2>4, <3>1, ListMoves DEF IInv
  <2>5. CASE r[c].op # "list"
    <3>1. v.path = "none"
      BY <1>1, <2>3, <2>5 DEF CallOK, InferenceOK
    <3> QED BY <1>1, <1>2, <2>2, <2>3, <2>5, <3>1, InferenceMoves
  <2> QED BY <2>4, <2>5
<1>3. CASE r[c].op = "list" /\ r' = [r EXCEPT ![c].ph = "end"] /\ active' = active
  <2>1. PICK v : v = [r[c] EXCEPT !.ph = "end"]
    OBVIOUS
  <2>2. r' = [r EXCEPT ![c] = v]
    BY <1>3, <2>1
  <2>3. /\ DOMAIN v = Fields /\ v.op = r[c].op /\ v.stream = r[c].stream /\ v.fin = r[c].fin
        /\ v.lost = r[c].lost /\ v.ph = "end" /\ v.list = r[c].list
    BY <1>1, <2>1 DEF CallOK, Fields
  <2>4. ListOK(v)
    BY <1>1, <1>3, <2>3 DEF CallOK, ListOK
  <2> QED BY <1>1, <1>3, <2>2, <2>3, <2>4, ListMoves DEF IInv
<1>4. CASE r[c].op # "list" /\ Return(c, 1, "none", FALSE)
  <2>1. r[c].path = "none"
    BY <1>1, <1>4 DEF CallOK, InferenceOK
  <2> QED BY <1>1, <1>4, <2>1, RefuseStep
<1>5. CASE Resolved(c, FallbackEnv.url, FallbackEnv.key)
  BY <1>1, <1>5, ResolvedStep
<1> QED BY <1>2, <1>3, <1>4, <1>5 DEF ReadUrl

(* ReadKey                                                                 *)
LEMMA ReadKeyStep ==
    ASSUME IInv, NEW c \in Callers, ReadKey(c)
    PROVE  IInv'
<1>1. r[c].ph = "key" /\ cache' = cache /\ Resolved(c, r[c].url, cfg.key)
  BY DEF ReadKey
<1> QED BY <1>1, ResolvedStep
-----------------------------------------------------------------------------
(* openai_models and list_upstream_models                                  *)
LEMMA RoutesStep ==
    ASSUME IInv, NEW c \in Callers, openai_models(c) \/ list_upstream_models(c)
    PROVE  IInv'
<1>1. /\ r[c].ph = "routes" /\ cache' = cache /\ active' = active /\ CallOK(r[c])
      /\ r[c].op = "list" /\ r[c].list = {}
  BY DEF openai_models, list_upstream_models, IInv, CallOK, InferenceOK, ListOK
<1>2. PICK routes : \/ r' = [r EXCEPT ![c].ph = "exposure", ![c].routes = routes]
                    \/ r' = [r EXCEPT ![c].ph = "exposure"]
  BY DEF openai_models, list_upstream_models
<1>3. PICK v : /\ r' = [r EXCEPT ![c] = v]
               /\ \/ v = [r[c] EXCEPT !.ph = "exposure", !.routes = routes]
                  \/ v = [r[c] EXCEPT !.ph = "exposure"]
  BY <1>2 DEF IInv
<1>4. /\ DOMAIN v = Fields /\ v.op = r[c].op /\ v.stream = r[c].stream /\ v.fin = r[c].fin
      /\ v.lost = r[c].lost /\ v.ph = "exposure" /\ v.list = r[c].list
  <2>1. DOMAIN r[c] = Fields
    BY <1>1 DEF CallOK
  <2> QED BY <1>3, <2>1 DEF Fields
<1>5. ListOK(v)
  BY <1>1, <1>4 DEF ListOK
<1> QED BY <1>1, <1>3, <1>4, <1>5, ListMoves DEF IInv

(* An answer is merged from a list of the upstream the call read.          *)
LEMMA AnswerStep ==
    ASSUME IInv, NEW c \in Callers, NEW ids, Answer(c, ids), active' = active,
           cache' # None => cache'.ids = Published[cache'.key[1]],
           ids = Published[r[c].url], r[c].op = "list", r[c].ph # "end"
    PROVE  IInv'
<1>1. CallOK(r[c])
  BY DEF IInv
<1>2. PICK list : list = merged(c, ids)
  OBVIOUS
<1>3. PICK v : v = [r[c] EXCEPT !.ph = "end", !.list = list]
  OBVIOUS
<1>4. r' = [r EXCEPT ![c] = v]
  BY <1>2, <1>3 DEF Answer, IInv
<1>5. /\ DOMAIN v = Fields /\ v.op = r[c].op /\ v.stream = r[c].stream /\ v.fin = r[c].fin
      /\ v.lost = r[c].lost /\ v.ph = "end" /\ v.list = list
      /\ v.url = r[c].url /\ v.sel = r[c].sel /\ v.routes = r[c].routes
  BY <1>1, <1>3 DEF CallOK, Fields
<1>6. list \subseteq (Published[v.url] \cap v.sel) \ v.routes
  BY <1>2, <1>5 DEF merged, allows_model
<1>7. ListOK(v)
  BY <1>5, <1>6 DEF ListOK
<1> QED BY <1>4, <1>5, <1>7, ListMoves

(* CacheGet: an entry under the call's key is of the call's base URL.      *)
LEMMA CacheGetStep ==
    ASSUME IInv, NEW c \in Callers, CacheGet(c)
    PROVE  IInv'
<1>1. /\ r[c].ph = "lookup" /\ cache' = cache /\ active' = active /\ CallOK(r[c])
      /\ r[c].op = "list" /\ r[c].list = {}
  BY DEF CacheGet, IInv, CallOK, InferenceOK, ListOK
<1>2. CASE cache # None /\ cache.key = cache_key(c)
  <2>1. Answer(c, cache.ids)
    BY <1>2 DEF CacheGet
  <2>2. PICK ids : ids = cache.ids
    OBVIOUS
  <2>3. ids = Published[r[c].url]
    BY <1>2, <2>2 DEF IInv, cache_key
  <2> QED BY <1>1, <2>1, <2>2, <2>3, AnswerStep DEF IInv
<1>3. CASE ~ (cache # None /\ cache.key = cache_key(c))
  <2>1. PICK v : v = [r[c] EXCEPT !.ph = "fetch"]
    OBVIOUS
  <2>2. r' = [r EXCEPT ![c] = v]
    BY <1>3, <2>1 DEF CacheGet
  <2>3. /\ DOMAIN v = Fields /\ v.op = r[c].op /\ v.stream = r[c].stream /\ v.fin = r[c].fin
        /\ v.lost = r[c].lost /\ v.ph = "fetch" /\ v.list = r[c].list
    BY <1>1, <2>1 DEF CallOK, Fields
  <2>4. ListOK(v)
    BY <1>1, <2>3 DEF ListOK
  <2> QED BY <1>1, <2>2, <2>3, <2>4, ListMoves DEF IInv
<1> QED BY <1>2, <1>3

(* FetchModels                                                             *)
LEMMA FetchStep ==
    ASSUME IInv, NEW c \in Callers, FetchModels(c)
    PROVE  IInv'
<1>1. /\ r[c].ph = "fetch" /\ cache' = cache /\ active' = active /\ CallOK(r[c])
      /\ r[c].op = "list" /\ r[c].list = {}
  BY DEF FetchModels, IInv, CallOK, InferenceOK, ListOK
<1>2. CASE r' = [r EXCEPT ![c].ph = "store", ![c].list = Published[r[c].url]]
  <2>1. PICK v : v = [r[c] EXCEPT !.ph = "store", !.list = Published[r[c].url]]
    OBVIOUS
  <2>2. r' = [r EXCEPT ![c] = v]
    BY <1>2, <2>1 DEF IInv
  <2>3. /\ DOMAIN v = Fields /\ v.op = r[c].op /\ v.stream = r[c].stream /\ v.fin = r[c].fin
        /\ v.lost = r[c].lost /\ v.ph = "store" /\ v.list = Published[v.url]
    BY <1>1, <2>1 DEF CallOK, Fields
  <2>4. ListOK(v)
    BY <2>3 DEF ListOK
  <2> QED BY <1>1, <2>2, <2>3, <2>4, ListMoves DEF IInv
<1>3. CASE r' = [r EXCEPT ![c].ph = "end"]
  <2>1. PICK v : v = [r[c] EXCEPT !.ph = "end"]
    OBVIOUS
  <2>2. r' = [r EXCEPT ![c] = v]
    BY <1>3, <2>1
  <2>3. /\ DOMAIN v = Fields /\ v.op = r[c].op /\ v.stream = r[c].stream /\ v.fin = r[c].fin
        /\ v.lost = r[c].lost /\ v.ph = "end" /\ v.list = {}
    BY <1>1, <2>1 DEF CallOK, Fields
  <2>4. ListOK(v)
    BY <2>3 DEF ListOK
  <2> QED BY <1>1, <2>2, <2>3, <2>4, ListMoves DEF IInv
<1> QED BY <1>2, <1>3 DEF FetchModels

(* CacheSet: the entry is stored under the URL it was fetched from.        *)
LEMMA CacheSetStep ==
    ASSUME IInv, NEW c \in Callers, CacheSet(c)
    PROVE  IInv'
<1>1. /\ r[c].ph = "store" /\ active' = active /\ CallOK(r[c]) /\ r[c].op = "list"
      /\ cache' = [key |-> cache_key(c), ids |-> r[c].list] /\ Answer(c, r[c].list)
  BY DEF CacheSet, IInv, CallOK, InferenceOK
<1>2. PICK ids : ids = r[c].list
  OBVIOUS
<1>3. ids = Published[r[c].url]
  BY <1>1, <1>2 DEF CallOK, ListOK
<1>4. cache'.ids = Published[cache'.key[1]]
  BY <1>1, <1>2, <1>3 DEF cache_key
<1> QED BY <1>1, <1>2, <1>3, <1>4, AnswerStep
-----------------------------------------------------------------------------
(* SendFails, SendError and SendWhole.                                     *)
LEMMA SendStep ==
    ASSUME IInv, NEW c \in Callers, SendFails(c) \/ SendError(c) \/ SendWhole(c)
    PROVE  IInv'
<1>1. /\ r[c].ph = "send" /\ r[c].op # "list" /\ cache' = cache /\ r[c].path # "none"
  BY DEF SendFails, SendError, SendWhole, IInv, CallOK, ListOK, InferenceOK
<1>2. ASSUME NEW met \in {"502", "error", "200"}, RecordAndReturn(c, met)
      PROVE  IInv'
  BY <1>1, <1>2, RecordStep
<1>3. ASSUME NEW met, Return(c, 0, met, FALSE),
             \/ met = "unread" /\ r[c].stream /\ r[c].path # "fallback"
             \/ met = "untranslated" /\ ~r[c].stream /\ r[c].path = "responses"
      PROVE  IInv'
  <2>1. Settled([path |-> r[c].path, stream |-> r[c].stream, met |-> met])
    BY <1>1, <1>3 DEF Settled
  <2> QED BY <1>1, <1>3, <2>1, ReturnStep
<1> QED BY <1>2, <1>3 DEF SendFails, SendError, SendWhole

(* SendStream                                                              *)
LEMMA SendStreamStep ==
    ASSUME IInv, NEW c \in Callers, SendStream(c)
    PROVE  IInv'
<1>1. /\ r[c].ph = "send" /\ r[c].op # "list" /\ cache' = cache /\ r[c].path # "none"
      /\ r[c].stream /\ active' = active /\ CallOK(r[c])
  BY DEF SendStream, IInv, CallOK, ListOK, InferenceOK
<1>2. PICK tr : tr = IF r[c].path = "responses" THEN start(translator) ELSE r[c].tr
  OBVIOUS
<1>3. PICK v : v = [r[c] EXCEPT !.ph = "stream", !.model = None, !.media = {}, !.url = None,
                                !.key = None, !.sel = {}, !.tr = tr]
  OBVIOUS
<1>4. r' = [r EXCEPT ![c] = v]
  BY <1>1, <1>2, <1>3 DEF SendStream, IInv, CallOK, Fields
<1>5. /\ DOMAIN v = Fields /\ v.op = r[c].op /\ v.stream = r[c].stream /\ v.fin = r[c].fin
      /\ v.lost = r[c].lost /\ v.ph = "stream" /\ v.path = r[c].path
  BY <1>1, <1>3 DEF CallOK, Fields
<1> QED BY <1>1, <1>4, <1>5, InferenceMoves
-----------------------------------------------------------------------------
(* What a relay writes changes neither the call's slot nor its path.       *)
LEMMA RelayStep ==
    ASSUME IInv, NEW c \in Callers, RelayChunk(c) \/ RelayHeartbeat(c)
    PROVE  IInv'
<1>1. /\ r[c].ph = "stream" /\ r[c].op # "list" /\ cache' = cache /\ r[c].path # "none"
      /\ r[c].stream /\ active' = active /\ CallOK(r[c]) /\ DOMAIN r[c] = Fields
  BY DEF RelayChunk, RelayHeartbeat, IInv, CallOK, ListOK, InferenceOK
<1>2. ASSUME NEW v, r' = [r EXCEPT ![c] = v], DOMAIN v = Fields, v.op = r[c].op,
             v.stream = r[c].stream, v.fin = r[c].fin, v.lost = r[c].lost,
             v.ph = r[c].ph, v.path = r[c].path
      PROVE  IInv'
  BY <1>1, <1>2, InferenceMoves
<1>3. ASSUME NEW w, NEW chunk, stream_body(c, w, chunk)
      PROVE  IInv'
  <2>1. PICK pending, out, done :
          r' = [r EXCEPT ![c].wire = w, ![c].pending = pending, ![c].out = out, ![c].done = done]
    <3>1. PICK whole, rest, seen :
            LET b == buffered(r[c].pending, chunk)
            IN  /\ whole = SubSeq(b, 1, Len(b) - Len(Rest(b))) /\ rest = Rest(b)
                /\ seen = HasDone(Frames(b))
      OBVIOUS
    <3>3. r' = [r EXCEPT ![c].wire = w, ![c].pending = rest, ![c].out = @ \o whole,
                         ![c].done = @ \/ seen]
      BY <1>3, <3>1 DEF stream_body
    <3> QED BY <1>1, <3>3 DEF IInv, Fields
  <2>2. PICK v : v = [r[c] EXCEPT !.wire = w, !.pending = pending, !.out = out, !.done = done]
    OBVIOUS
  <2>3. r' = [r EXCEPT ![c] = v]
    BY <2>1, <2>2 DEF IInv
  <2>4. /\ DOMAIN v = Fields /\ v.op = r[c].op /\ v.stream = r[c].stream /\ v.fin = r[c].fin
        /\ v.lost = r[c].lost /\ v.ph = r[c].ph /\ v.path = r[c].path
    BY <1>1, <2>2 DEF Fields
  <2> QED BY <1>2, <2>3, <2>4
<1>4. ASSUME NEW w, NEW chunk, relay_verbatim(c, w, chunk)
      PROVE  IInv'
  <2>1. PICK out : out = r[c].out \o chunk
    OBVIOUS
  <2>2. PICK v : v = [r[c] EXCEPT !.wire = w, !.out = out]
    OBVIOUS
  <2>3. r' = [r EXCEPT ![c] = v]
    BY <1>1, <1>4, <2>1, <2>2 DEF relay_verbatim, IInv, Fields
  <2>4. /\ DOMAIN v = Fields /\ v.op = r[c].op /\ v.stream = r[c].stream /\ v.fin = r[c].fin
        /\ v.lost = r[c].lost /\ v.ph = r[c].ph /\ v.path = r[c].path
    BY <1>1, <2>2 DEF Fields
  <2> QED BY <1>2, <2>3, <2>4
<1>5. ASSUME NEW w, NEW chunk, translate(c, w, chunk)
      PROVE  IInv'
  <2>1. PICK rest, tr :
          /\ rest = Rest(buffered(r[c].pending, chunk))
          /\ tr = Feed(r[c].tr, Frames(buffered(r[c].pending, chunk)),
                       Len(Frames(Wire(r[c].wire))))
    OBVIOUS
  <2>2. PICK v : v = [r[c] EXCEPT !.wire = w, !.pending = rest, !.tr = tr]
    OBVIOUS
  <2>3. r' = [r EXCEPT ![c] = v]
    BY <1>1, <1>5, <2>1, <2>2 DEF translate, IInv, Fields
  <2>4. /\ DOMAIN v = Fields /\ v.op = r[c].op /\ v.stream = r[c].stream /\ v.fin = r[c].fin
        /\ v.lost = r[c].lost /\ v.ph = r[c].ph /\ v.path = r[c].path
    BY <1>1, <2>2 DEF Fields
  <2> QED BY <1>2, <2>3, <2>4
<1>6. CASE RelayChunk(c)
  <2>1. PICK w \in More(r[c].wire, MaxEvents[c]) :
          LET chunk == SubSeq(Wire(w), r[c].wire.n + 1, w.n)
          IN  CASE r[c].path = "local" -> stream_body(c, w, chunk)
                [] r[c].path = "fallback" -> relay_verbatim(c, w, chunk)
                [] OTHER -> translate(c, w, chunk)
    BY <1>6 DEF RelayChunk
  <2>2. PICK chunk : chunk = SubSeq(Wire(w), r[c].wire.n + 1, w.n)
    OBVIOUS
  <2>3. CASE r[c].path = "local"
    BY <1>3, <2>1, <2>2, <2>3
  <2>4. CASE r[c].path = "fallback"
    BY <1>4, <2>1, <2>2, <2>4
  <2>5. CASE r[c].path \notin {"local", "fallback"}
    BY <1>5, <2>1, <2>2, <2>5
  <2> QED BY <2>3, <2>4, <2>5
<1>7. CASE RelayHeartbeat(c)
  <2>1. PICK out, beats : out = Append(r[c].out, Keepalive) /\ beats = r[c].beats + 1
    OBVIOUS
  <2>2. PICK v : v = [r[c] EXCEPT !.out = out, !.beats = beats]
    OBVIOUS
  <2>3. r' = [r EXCEPT ![c] = v]
    BY <1>1, <1>7, <2>1, <2>2 DEF RelayHeartbeat, IInv, Fields
  <2>4. /\ DOMAIN v = Fields /\ v.op = r[c].op /\ v.stream = r[c].stream /\ v.fin = r[c].fin
        /\ v.lost = r[c].lost /\ v.ph = r[c].ph /\ v.path = r[c].path
    BY <1>1, <2>2 DEF Fields
  <2> QED BY <1>2, <2>3, <2>4
<1> QED BY <1>6, <1>7

(***************************************************************************)
(* The finally of a relay: the slot is given back and a metric recorded,   *)
(* or, when the metric cannot be written, the slot is kept for ever and    *)
(* the call counts as lost.                                                *)
(***************************************************************************)
LEMMA RelayEndsStep ==
    ASSUME IInv, NEW c \in Callers, r[c].ph = "stream", NEW kept, RelayEnds(c, kept),
           cache' = cache, DOMAIN kept = Fields, kept.op = r[c].op,
           kept.stream = r[c].stream, kept.fin = r[c].fin, kept.lost = r[c].lost,
           kept.path = r[c].path
    PROVE  IInv'
<1>1. /\ r[c].op # "list" /\ r[c].path # "none" /\ r[c].stream = TRUE /\ r[c].fin = FALSE
      /\ r[c].lost = FALSE
  BY DEF IInv, CallOK, ListOK, InferenceOK
<1>2. Counts(r[c])
  BY <1>1 DEF Counts
<1>3. active \in Nat /\ active > 0
  BY <1>2, CountedFacts
<1>4. finish_request(Slot(c)) = [active |-> active - 1, fin |-> TRUE]
  BY <1>1, <1>3 DEF finish_request, Slot
<1>5. PICK met : met = IF r[c].path = "local" /\ ~r[c].done THEN "499" ELSE "200"
  OBVIOUS
<1>6. CASE /\ active' = active - 1
           /\ r' = [r EXCEPT ![c] = [kept EXCEPT !.ph = "end", !.fin = TRUE, !.met = met]]
  <2>1. PICK v : v = [kept EXCEPT !.ph = "end", !.fin = TRUE, !.met = met]
    OBVIOUS
  <2>2. /\ DOMAIN v = Fields /\ v.op = r[c].op /\ v.stream = TRUE /\ v.fin = TRUE
        /\ v.lost = FALSE /\ v.ph = "end" /\ v.path = r[c].path /\ v.met \in {"499", "200"}
    BY <1>1, <1>5, <2>1 DEF Fields
  <2>3. Settled(v)
    BY <1>1, <2>2 DEF Settled
  <2>4. CallOK(v) /\ ~Counts(v)
    BY <1>1, <2>2, <2>3 DEF CallOK, InferenceOK, Counts
  <2> QED BY <1>2, <1>6, <2>1, <2>4, CallStep DEF IInv
<1>7. CASE /\ active' = active
           /\ r' = [r EXCEPT ![c] = [kept EXCEPT !.ph = "end", !.lost = TRUE]]
  <2>1. PICK v : v = [kept EXCEPT !.ph = "end", !.lost = TRUE]
    OBVIOUS
  <2>2. /\ DOMAIN v = Fields /\ v.op = r[c].op /\ v.stream = TRUE /\ v.fin = FALSE
        /\ v.lost = TRUE /\ v.ph = "end"
    BY <1>1, <2>1 DEF Fields
  <2>3. CallOK(v) /\ Counts(v)
    BY <1>1, <2>2 DEF CallOK, InferenceOK, Counts
  <2> QED BY <1>2, <1>7, <2>1, <2>3, CallStep DEF IInv
<1>8. \/ /\ active' = finish_request(Slot(c)).active
         /\ r' = [r EXCEPT ![c] = [kept EXCEPT !.ph = "end", !.fin = finish_request(Slot(c)).fin,
                                               !.met = met]]
      \/ /\ r' = [r EXCEPT ![c] = [kept EXCEPT !.ph = "end", !.lost = TRUE]]
         /\ active' = active
  BY <1>5 DEF RelayEnds
<1>9. finish_request(Slot(c)).active = active - 1 /\ finish_request(Slot(c)).fin = TRUE
  BY <1>4
<1> QED BY <1>6, <1>7, <1>8, <1>9

(* UpstreamEnds and UpstreamBreaks                                         *)
LEMMA EndsStep ==
    ASSUME IInv, NEW c \in Callers, UpstreamEnds(c) \/ UpstreamBreaks(c)
    PROVE  IInv'
<1>1. r[c].ph = "stream" /\ cache' = cache /\ DOMAIN r[c] = Fields
  BY DEF UpstreamEnds, UpstreamBreaks, IInv, CallOK
<1>2. CASE RelayEnds(c, Forgotten(c))
  <2>1. PICK kept : kept = Forgotten(c)
    OBVIOUS
  <2>2. /\ DOMAIN kept = Fields /\ kept.op = r[c].op /\ kept.path = r[c].path
        /\ kept.stream = r[c].stream /\ kept.fin = r[c].fin /\ kept.lost = r[c].lost
    BY <1>1, <2>1 DEF Forgotten, Fields
  <2> QED BY <1>1, <1>2, <2>1, <2>2, RelayEndsStep
<1>3. ASSUME NEW tr, RelayEnds(c, [r[c] EXCEPT !.tr = tr])
      PROVE  IInv'
  <2>1. PICK kept : kept = [r[c] EXCEPT !.tr = tr]
    OBVIOUS
  <2>2. /\ DOMAIN kept = Fields /\ kept.op = r[c].op /\ kept.path = r[c].path
        /\ kept.stream = r[c].stream /\ kept.fin = r[c].fin /\ kept.lost = r[c].lost
    BY <1>1, <2>1 DEF Fields
  <2> QED BY <1>1, <1>3, <2>1, <2>2, RelayEndsStep
<1>4. CASE UpstreamEnds(c)
  <2>1. PICK n, rest : /\ n = Len(Frames(Wire(r[c].wire)))
                       /\ rest = IF r[c].pending = <<>> THEN <<>> ELSE <<r[c].pending>>
    OBVIOUS
  <2>2. RelayEnds(c, IF r[c].path = "responses"
                     THEN [r[c] EXCEPT !.tr = finish(Feed(@, rest, n))] ELSE Forgotten(c))
    BY <1>4, <2>1 DEF UpstreamEnds
  <2>3. PICK tr : tr = finish(Feed(r[c].tr, rest, n))
    OBVIOUS
  <2>4. CASE r[c].path = "responses"
    <3>1. [r[c] EXCEPT !.tr = finish(Feed(@, rest, n))] = [r[c] EXCEPT !.tr = tr]
      BY <1>1, <2>3 DEF Fields
    <3> QED BY <1>3, <2>2, <2>4, <3>1
  <2>5. CASE r[c].path # "responses"
    BY <1>2, <2>2, <2>5
  <2> QED BY <2>4, <2>5
<1> QED BY <1>2, <1>4 DEF UpstreamBreaks
-----------------------------------------------------------------------------
(* Nobody has called yet.                                                  *)
LEMMA InitInv == Init => IInv
<1> SUFFICES ASSUME Init PROVE IInv
  OBVIOUS
<1>1. active = 0 /\ cache = None /\ r = [c \in Callers |-> Idle]
  BY DEF Init
<1>2. {c \in Callers : Counts(r[c])} = {}
  BY <1>1, IdleFacts
<1>3. active = Cardinality({c \in Callers : Counts(r[c])})
  BY <1>1, <1>2, FS_EmptySet
<1> QED BY <1>1, <1>3, IdleFacts DEF IInv

(* Every step keeps the invariant.                                         *)
LEMMA Inductive == IInv /\ [Next]_vars => IInv'
<1> SUFFICES ASSUME IInv, [Next]_vars PROVE IInv'
  OBVIOUS
<1>1. CASE UNCHANGED vars
  BY <1>1, CallsStay DEF vars, IInv
<1>2. CASE put_upstream \/ put_upstream_exposure \/ put_commit \/ CacheExpire
  <2>1. r' = r /\ active' = active /\ (cache' = cache \/ cache' = None)
    BY <1>2 DEF put_upstream, put_upstream_exposure, put_commit, CacheExpire, Begin
  <2> QED BY <2>1, CallsStay DEF IInv
<1>3. ASSUME NEW c \in Callers,
             \/ \E m \in Models \cup {None}, x \in SUBSET Media, s \in BOOLEAN :
                   Enter(c, "proxy", m, x, s)
             \/ \E m \in Models \cup {None}, s \in BOOLEAN : Enter(c, "responses", m, {}, s)
             \/ Enter(c, "list", None, {}, FALSE)
      PROVE  IInv'
  BY <1>3, EnterStep
<1> QED BY <1>1, <1>2, <1>3, DispatchStep, ExposureStep, ReadUrlStep, ReadKeyStep, RoutesStep,
           CacheGetStep, FetchStep, CacheSetStep, SendStep, SendStreamStep, RelayStep, EndsStep DEF Next

(***************************************************************************)
(* In every reachable state each call is in order for its phase, the slots *)
(* are counted, and the cache holds the list of the URL it is kept under.  *)
(***************************************************************************)
THEOREM Invariance == Spec => []IInv
  BY InitInv, Inductive, PTL DEF Spec

(***************************************************************************)
(* active_requests is the number of calls in flight and of relays whose    *)
(* metric could not be written, and a call that ended has a metric exactly *)
(* if its request was made, but for the two exceptions of Settled, for any *)
(* number of concurrent callers, edits of the configuration and failing    *)
(* writes.                                                                 *)
(***************************************************************************)
THEOREM EveryCallIsAccounted == Spec => []CallsAreAccounted
<1>1. IInv => CallsAreAccounted
  <2> SUFFICES ASSUME IInv PROVE CallsAreAccounted
    OBVIOUS
  <2>1. InFlight \cup {c \in Callers : r[c].lost /\ r[c].stream /\ ~r[c].fin} =
           {c \in Callers : Counts(r[c])}
    BY DEF InFlight, Counts
  <2>2. ASSUME NEW c \in Callers, r[c].ph = "end", r[c].op # "list", ~r[c].lost
        PROVE  Settled(r[c])
    BY <2>2 DEF IInv, CallOK, InferenceOK
  <2> QED BY <2>1, <2>2 DEF CallsAreAccounted, IInv
<1> QED BY <1>1, Invariance, PTL

(***************************************************************************)
(* A model list names only models of the upstream whose URL the request    *)
(* read, for any number of callers that share the cache and of edits.      *)
(***************************************************************************)
THEOREM ListsKeepToTheirUpstream == Spec => []ListsAreOfTheirUpstream
<1>1. IInv => ListsAreOfTheirUpstream
  BY DEF IInv, CallOK, ListOK, ListsAreOfTheirUpstream
<1> QED BY <1>1, Invariance, PTL

-----------------------------------------------------------------------------
(* A set of numbers that is not empty has a least element.                 *)
LEMMA LeastNumber ==
    ASSUME NEW S, S \subseteq Nat, S # {}
    PROVE  \E n \in S : \A m \in S : n <= m
<1>1. IsWellFoundedOn(OpToRel(<, Nat), Nat)
  BY NatLessThanWellFounded
<1>2. PICK R : R = OpToRel(<, Nat)
  OBVIOUS
<1>3. PICK n \in S : \A m \in S : ~ (<<m, n>> \in R)
  BY <1>1, <1>2, WFMin
<1>4. R = {q \in Nat \X Nat : q[1] < q[2]}
  BY <1>2, Zenon DEF OpToRel
<1>5. SUFFICES ASSUME NEW m \in S PROVE n <= m
  OBVIOUS
<1>6. n \in Nat /\ m \in Nat
  OBVIOUS
<1>7. <<m, n>> \in Nat \X Nat
  BY <1>6
<1>8. ~ (m < n)
  BY <1>3, <1>4, <1>7
<1> QED BY <1>6, <1>8

(* A sequence that is not empty is one piece behind a shorter one.         *)
LEMMA LastPiece ==
    ASSUME NEW P, NEW b \in Seq(P), b # <<>>
    PROVE  \E a \in Seq(P), x \in P : b = Append(a, x) /\ Len(b) = Len(a) + 1
<1>1. Len(b) \in Nat /\ Len(b) # 0
  OBVIOUS
<1>2. PICK k \in Nat : Len(b) = k + 1
  BY <1>1
<1>3. PICK a : a = [i \in 1 .. k |-> b[i]]
  OBVIOUS
<1>4. \A i \in 1 .. k + 1 : b[i] \in P
  BY <1>2
<1>5. a \in Seq(P) /\ Len(a) = k /\ b[k + 1] \in P
  BY <1>2, <1>3, <1>4
<1>6. b = Append(a, b[k + 1])
  BY <1>2, <1>3, <1>5
<1> QED BY <1>2, <1>5, <1>6

(***************************************************************************)
(* What holds of the empty sequence, and of one piece more whenever it     *)
(* holds without it, holds of every sequence.                              *)
(***************************************************************************)
LEMMA ByOneMore ==
    ASSUME NEW P, NEW G, <<>> \in G,
           \A a \in Seq(P), x \in P : a \in G => Append(a, x) \in G
    PROVE  \A b \in Seq(P) : b \in G
<1> DEFINE S == {n \in Nat : \E b \in Seq(P) : Len(b) = n /\ b \notin G}
<1>1. S = {}
  <2> SUFFICES ASSUME S # {} PROVE FALSE
    OBVIOUS
  <2>1. S \subseteq Nat
    OBVIOUS
  <2>2. PICK n \in S : \A m \in S : n <= m
    <3> HIDE DEF S
    <3> QED BY <2>1, LeastNumber
  <2>3. PICK b \in Seq(P) : Len(b) = n /\ b \notin G
    BY <2>2
  <2>4. PICK a \in Seq(P), x \in P : b = Append(a, x) /\ Len(b) = Len(a) + 1
    BY <2>3, LastPiece
  <2>5. a \notin G
    BY <2>3, <2>4
  <2>6. Len(a) \in Nat
    OBVIOUS
  <2>7. Len(a) \in S
    BY <2>5, <2>6
  <2> QED BY <2>2, <2>3, <2>4, <2>6, <2>7
<1>2. ASSUME NEW b \in Seq(P), b \notin G PROVE FALSE
  <2>1. Len(b) \in Nat
    OBVIOUS
  <2>2. Len(b) \in S
    BY <1>2, <2>1
  <2> QED BY <1>1, <2>2
<1> QED BY <1>2
-----------------------------------------------------------------------------
Nothing == [frames |-> <<>>, rest |-> <<>>]

(* f is the state of the cut behind each piece of b.                       *)
Cutting(f, b) ==
    /\ f = [i \in 0 .. Len(b) |-> f[i]]
    /\ f[0] = Nothing
    /\ \A i \in 1 .. Len(b) : f[i] = Cut(f[i - 1], b[i])

Ends(b, s) == \E f : Cutting(f, b) /\ s = f[Len(b)]

(* Nothing is cut from nothing.                                            *)
LEMMA EndsEmpty == \A s : Ends(<<>>, s) <=> s = Nothing
<1>1. Len(<<>>) = 0
  OBVIOUS
<1>2. ASSUME NEW s, Ends(<<>>, s) PROVE s = Nothing
  BY <1>1, <1>2 DEF Ends, Cutting
<1>3. Ends(<<>>, Nothing)
  <2>1. PICK f : f = [i \in 0 .. 0 |-> Nothing]
    OBVIOUS
  <2>2. f = [i \in 0 .. 0 |-> f[i]] /\ f[0] = Nothing
    BY <2>1
  <2>3. Cutting(f, <<>>)
    BY <1>1, <2>2 DEF Cutting
  <2> QED BY <1>1, <2>2, <2>3 DEF Ends
<1> QED BY <1>2, <1>3

(* The cut of one piece more goes on from the cut without it.              *)
LEMMA EndsAppend ==
    ASSUME NEW P, NEW b \in Seq(P), NEW x \in P, NEW s
    PROVE  Ends(Append(b, x), s) <=> \E t : Ends(b, t) /\ s = Cut(t, x)
<1>1. PICK n \in Nat : n = Len(b)
  OBVIOUS
<1>2. PICK d : d = Append(b, x)
  OBVIOUS
<1>3. Len(d) = n + 1 /\ d[n + 1] = x /\ \A i \in 1 .. n : d[i] = b[i]
  BY <1>1, <1>2
<1>4. n + 1 \in 1 .. n + 1 /\ (n + 1) - 1 = n /\ n \in 0 .. n /\ n + 1 \in 0 .. n + 1
      /\ 0 \in 0 .. n
  OBVIOUS
<1>5. ASSUME Ends(d, s) PROVE \E t : Ends(b, t) /\ s = Cut(t, x)
  <2>1. PICK f : Cutting(f, d) /\ s = f[n + 1]
    BY <1>3, <1>5 DEF Ends
  <2>2. PICK g : g = [i \in 0 .. n |-> f[i]]
    OBVIOUS
  <2>3. g = [i \in 0 .. n |-> g[i]] /\ \A i \in 0 .. n : g[i] = f[i]
    BY <2>2
  <2>4. g[0] = Nothing
    BY <1>4, <2>1, <2>3 DEF Cutting
  <2>5. ASSUME NEW i \in 1 .. n PROVE g[i] = Cut(g[i - 1], b[i])
    <3>1. i \in 1 .. n + 1 /\ i \in 0 .. n /\ i - 1 \in 0 .. n
      OBVIOUS
    <3>2. f[i] = Cut(f[i - 1], d[i])
      BY <1>3, <2>1, <3>1 DEF Cutting
    <3> QED BY <1>3, <2>3, <3>1, <3>2
  <2>6. Cutting(g, b)
    BY <1>1, <2>3, <2>4, <2>5 DEF Cutting
  <2>7. Ends(b, g[n])
    BY <1>1, <2>6 DEF Ends
  <2>8. f[n + 1] = Cut(f[(n + 1) - 1], d[n + 1])
    BY <1>3, <1>4, <2>1 DEF Cutting
  <2>9. s = Cut(g[n], x)
    BY <1>3, <1>4, <2>1, <2>3, <2>8
  <2> QED BY <2>7, <2>9
<1>6. ASSUME NEW t, Ends(b, t), s = Cut(t, x) PROVE Ends(d, s)
  <2>1. PICK f : Cutting(f, b) /\ t = f[n]
    BY <1>1, <1>6 DEF Ends
  <2>2. PICK g : g = [i \in 0 .. n + 1 |-> IF i = n + 1 THEN s ELSE f[i]]
    OBVIOUS
  <2>3. g = [i \in 0 .. n + 1 |-> g[i]] /\ g[n + 1] = s /\ \A i \in 0 .. n : g[i] = f[i]
    BY <2>2
  <2>4. g[0] = Nothing
    BY <1>4, <2>1, <2>3 DEF Cutting
  <2>5. ASSUME NEW i \in 1 .. n + 1 PROVE g[i] = Cut(g[i - 1], d[i])
    <3>1. CASE i = n + 1
      BY <1>3, <1>4, <1>6, <2>1, <2>3, <3>1
    <3>2. CASE i \in 1 .. n
      <4>1. i \in 0 .. n /\ i - 1 \in 0 .. n
        BY <3>2
      <4>2. f[i] = Cut(f[i - 1], b[i])
        BY <1>1, <2>1, <3>2 DEF Cutting
      <4> QED BY <1>3, <2>3, <3>2, <4>1, <4>2
    <3> QED BY <3>1, <3>2
  <2>6. Cutting(g, d)
    BY <1>3, <2>3, <2>4, <2>5 DEF Cutting
  <2> QED BY <1>3, <2>3, <2>6 DEF Ends
<1> QED BY <1>2, <1>5, <1>6

EndsOnce(b) == \E s : \A t : Ends(b, t) <=> t = s

(* A buffer is cut in one way.                                             *)
LEMMA CutOnce ==
    ASSUME NEW P, NEW b \in Seq(P)
    PROVE  EndsOnce(b)
<1> DEFINE G == {a \in Seq(P) : EndsOnce(a)}
<1>1. <<>> \in G
  <2>1. EndsOnce(<<>>)
    BY EndsEmpty DEF EndsOnce
  <2> QED BY <2>1
<1>2. ASSUME NEW a \in Seq(P), NEW x \in P, a \in G PROVE Append(a, x) \in G
  <2>1. PICK s : \A t : Ends(a, t) <=> t = s
    BY <1>2 DEF EndsOnce
  <2>2. \A t : Ends(Append(a, x), t) <=> t = Cut(s, x)
    <3> SUFFICES ASSUME NEW t PROVE Ends(Append(a, x), t) <=> t = Cut(s, x)
      OBVIOUS
    <3>1. Ends(Append(a, x), t) <=> \E u : Ends(a, u) /\ t = Cut(u, x)
      BY EndsAppend
    <3> QED BY <2>1, <3>1
  <2>3. EndsOnce(Append(a, x)) /\ Append(a, x) \in Seq(P)
    BY <2>2 DEF EndsOnce
  <2> QED BY <2>3
<1>3. \A a \in Seq(P) : a \in G
  <2> HIDE DEF G
  <2> QED BY <1>1, <1>2, ByOneMore
<1> QED BY <1>3

(* Split(b) is the state at the end of such a cut.                         *)
LEMMA SplitEnds ==
    ASSUME NEW P, NEW b \in Seq(P)
    PROVE  Ends(b, Split(b))
<1> DEFINE Body(f) == [i \in 0 .. Len(b) |->
                         IF i = 0 THEN [frames |-> <<>>, rest |-> <<>>] ELSE Cut(f[i - 1], b[i])]
<1>1. Len(b) \in Nat
  OBVIOUS
<1>2. \E f : f = Body(f)
  <2>1. EndsOnce(b)
    BY CutOnce
  <2>2. PICK f : Cutting(f, b)
    BY <2>1 DEF EndsOnce, Ends
  <2>3. f = [i \in 0 .. Len(b) |-> f[i]]
    BY <2>2 DEF Cutting
  <2>4. ASSUME NEW i \in 0 .. Len(b)
        PROVE  f[i] = IF i = 0 THEN [frames |-> <<>>, rest |-> <<>>] ELSE Cut(f[i - 1], b[i])
    <3>1. CASE i = 0
      BY <2>2, <3>1 DEF Cutting, Nothing
    <3>2. CASE i # 0
      <4>1. i \in 1 .. Len(b)
        BY <1>1, <3>2
      <4> QED BY <2>2, <3>2, <4>1 DEF Cutting
    <3> QED BY <3>1, <3>2
  <2>5. f = Body(f)
    BY <2>3, <2>4
  <2> QED BY <2>5
<1>3. PICK f : f = CHOOSE g : g = Body(g)
  OBVIOUS
<1>4. f = Body(f)
  <2> HIDE DEF Body
  <2> QED BY <1>2, <1>3
<1>5. Split(b) = f[Len(b)]
  BY <1>3, Zenon DEF Split
<1>6. Cutting(f, b)
  <2>1. f = [i \in 0 .. Len(b) |-> f[i]]
    BY <1>4
  <2>2. f[0] = Nothing
    <3>1. 0 \in 0 .. Len(b)
      BY <1>1
    <3> QED BY <1>4, <3>1 DEF Nothing
  <2>3. ASSUME NEW i \in 1 .. Len(b) PROVE f[i] = Cut(f[i - 1], b[i])
    <3>1. i \in 0 .. Len(b) /\ i # 0
      BY <1>1
    <3>2. f[i] = Body(f)[i]
      BY <1>4, Zenon
    <3>3. Body(f)[i] = IF i = 0 THEN [frames |-> <<>>, rest |-> <<>>] ELSE Cut(f[i - 1], b[i])
      BY <3>1, Zenon
    <3> QED BY <3>1, <3>2, <3>3, Zenon
  <2> QED BY <2>1, <2>2, <2>3 DEF Cutting
<1> QED BY <1>5, <1>6 DEF Ends

(***************************************************************************)
(* What Split computes, piece by piece.                                    *)
(***************************************************************************)
LEMMA SplitEmpty == Split(<<>>) = Nothing
<1>1. <<>> \in Seq({})
  OBVIOUS
<1>2. Ends(<<>>, Split(<<>>))
  BY <1>1, SplitEnds
<1> QED BY <1>2, EndsEmpty

(* One more piece is one more Cut.                                         *)
LEMMA SplitAppend ==
    ASSUME NEW P, NEW b \in Seq(P), NEW x \in P
    PROVE  Split(Append(b, x)) = Cut(Split(b), x)
<1>1. Append(b, x) \in Seq(P)
  OBVIOUS
<1>2. PICK d \in Seq(P) : d = Append(b, x)
  BY <1>1
<1>3. Ends(d, Split(d)) /\ Ends(b, Split(b)) /\ EndsOnce(b)
  BY SplitEnds, CutOnce
<1>4. PICK t : Ends(b, t) /\ Split(d) = Cut(t, x)
  <2>1. Ends(Append(b, x), Split(d)) <=> \E t : Ends(b, t) /\ Split(d) = Cut(t, x)
    BY EndsAppend
  <2> QED BY <1>2, <1>3, <2>1
<1>5. t = Split(b)
  BY <1>3, <1>4 DEF EndsOnce
<1> QED BY <1>2, <1>4, <1>5

States(P) == [frames : Seq(Seq(P)), rest : Seq(P)]

(* One more piece: the three cases of Cut.                                 *)
LEMMA CutFacts ==
    ASSUME NEW P, NEW s \in States(P), NEW x \in P
    PROVE  /\ Cut(s, x) \in States(P)
           /\ x[2] # 3 => Cut(s, x) = [frames |-> s.frames, rest |-> Append(s.rest, x)]
           /\ x[2] = 3 => Cut(s, x).rest = <<>>
<1>1. s.frames \in Seq(Seq(P)) /\ s.rest \in Seq(P)
  BY DEF States
<1>2. Append(s.rest, x) \in Seq(P)
  BY <1>1
<1>3. PICK piece \in Seq(P) : piece = Append(s.rest, x)
  BY <1>2
<1>4. Append(s.frames, piece) \in Seq(Seq(P)) /\ <<>> \in Seq(P)
  BY <1>1
<1> QED BY <1>1, <1>2, <1>3, <1>4 DEF Cut, States

(* Frames are sequences of pieces, and so is the rest.                     *)
LEMMA SplitType ==
    ASSUME NEW P
    PROVE  \A b \in Seq(P) : Split(b) \in States(P)
<1> DEFINE G == {a \in Seq(P) : Split(a) \in States(P)}
<1>1. <<>> \in G
  <2>1. Nothing \in States(P) /\ <<>> \in Seq(P)
    BY DEF Nothing, States
  <2> QED BY <2>1, SplitEmpty
<1>2. ASSUME NEW a \in Seq(P), NEW x \in P, a \in G PROVE Append(a, x) \in G
  <2>1. Split(Append(a, x)) = Cut(Split(a), x)
    BY SplitAppend
  <2>2. Cut(Split(a), x) \in States(P)
    BY <1>2, CutFacts
  <2>3. Append(a, x) \in Seq(P)
    OBVIOUS
  <2> QED BY <2>1, <2>2, <2>3
<1>3. \A a \in Seq(P) : a \in G
  <2> HIDE DEF G
  <2> QED BY <1>1, <1>2, ByOneMore
<1> QED BY <1>3

RestIsRest(b) == Split(Split(b).rest) = [frames |-> <<>>, rest |-> Split(b).rest]

(* The unterminated rest has no frame in it.                               *)
LEMMA RestHasNoFrame ==
    ASSUME NEW P
    PROVE  \A b \in Seq(P) : RestIsRest(b)
<1> DEFINE G == {a \in Seq(P) : RestIsRest(a)}
<1>1. <<>> \in G
  <2>1. RestIsRest(<<>>) /\ <<>> \in Seq(P)
    BY SplitEmpty DEF RestIsRest, Nothing
  <2> QED BY <2>1
<1>2. ASSUME NEW a \in Seq(P), NEW x \in P, a \in G PROVE Append(a, x) \in G
  <2>1. PICK s, t : s = Split(a) /\ t = Split(Append(a, x))
    OBVIOUS
  <2>2. t = Cut(s, x) /\ s \in States(P) /\ Append(a, x) \in Seq(P)
    BY <2>1, SplitAppend, SplitType
  <2>3. Split(s.rest) = [frames |-> <<>>, rest |-> s.rest]
    BY <1>2, <2>1 DEF RestIsRest
  <2>4. s.rest \in Seq(P)
    BY <2>2 DEF States
  <2>5. CASE x[2] # 3
    <3>1. t.rest = Append(s.rest, x)
      BY <2>2, <2>5, CutFacts
    <3>2. Split(Append(s.rest, x)) = Cut(Split(s.rest), x)
      BY <2>4, SplitAppend
    <3>3. Cut(Split(s.rest), x) = [frames |-> <<>>, rest |-> Append(s.rest, x)]
      BY <2>3, <2>5 DEF Cut
    <3>4. RestIsRest(Append(a, x))
      BY <2>1, <3>1, <3>2, <3>3 DEF RestIsRest
    <3> QED BY <2>2, <3>4
  <2>6. CASE x[2] = 3
    <3>1. t.rest = <<>>
      BY <2>2, <2>6, CutFacts
    <3>2. RestIsRest(Append(a, x))
      BY <2>1, <3>1, SplitEmpty DEF RestIsRest, Nothing
    <3> QED BY <2>2, <3>2
  <2> QED BY <2>5, <2>6
<1>3. \A a \in Seq(P) : a \in G
  <2> HIDE DEF G
  <2> QED BY <1>1, <1>2, ByOneMore
<1> QED BY <1>3

Before(F, s) == [frames |-> F \o s.frames, rest |-> s.rest]

AppendsBehind(s, t, x) == Append(s \o t, x) = s \o Append(t, x)

(* One more at the end of the second of two sequences.                     *)
LEMMA AppendBehind ==
    ASSUME NEW T, NEW s \in Seq(T), NEW t \in Seq(T), NEW x \in T
    PROVE  AppendsBehind(s, t, x)
  BY DEF AppendsBehind

(* Earlier frames do not change how a piece is cut.                        *)
LEMMA CutBefore ==
    ASSUME NEW P, NEW s \in States(P), NEW F \in Seq(Seq(P)), NEW x \in P
    PROVE  Cut(Before(F, s), x) = Before(F, Cut(s, x))
<1>1. s.frames \in Seq(Seq(P)) /\ s.rest \in Seq(P)
  BY DEF States
<1>2. PICK fs \in Seq(Seq(P)), rest \in Seq(P) : fs = s.frames /\ rest = s.rest
  BY <1>1
<1>3. PICK H : H = F \o fs
  OBVIOUS
<1>4. Append(rest, x) \in Seq(P)
  OBVIOUS
<1>5. PICK last \in Seq(P) : last = Append(rest, x)
  BY <1>4
<1>6. Append(F \o fs, last) = F \o Append(fs, last)
  <2>1. PICK T : T = Seq(P)
    OBVIOUS
  <2>2. F \in Seq(T) /\ fs \in Seq(T) /\ last \in T
    BY <2>1
  <2>3. AppendsBehind(F, fs, last)
    BY <2>2, AppendBehind
  <2> QED BY <2>3, Zenon DEF AppendsBehind
<1>7. Append(H, last) = F \o Append(fs, last)
  BY <1>3, <1>6
<1>8. Before(F, s) = [frames |-> H, rest |-> rest]
  BY <1>2, <1>3 DEF Before
<1>9. s = [frames |-> fs, rest |-> rest]
  BY <1>2 DEF States
<1>10. CASE x[2] # 3
  BY <1>3, <1>8, <1>9, <1>10 DEF Cut, Before
<1>11. CASE x[2] = 3 /\ rest = <<>> /\ x = Keepalive
  BY <1>3, <1>8, <1>9, <1>11 DEF Cut, Before
<1>12. CASE x[2] = 3 /\ ~(rest = <<>> /\ x = Keepalive)
  <2>1. Cut(Before(F, s), x) = [frames |-> Append(H, last), rest |-> <<>>]
    BY <1>5, <1>8, <1>12 DEF Cut
  <2>2. Cut(s, x) = [frames |-> Append(fs, last), rest |-> <<>>]
    BY <1>5, <1>9, <1>12 DEF Cut
  <2> QED BY <1>7, <2>1, <2>2 DEF Before
<1> QED BY <1>10, <1>11, <1>12

GoesOn(b, c) == Split(b \o c) = Before(Split(b).frames, Split(Split(b).rest \o c))

(***************************************************************************)
(* Cutting what was kept with the next chunk behind it goes on where the   *)
(* cut of everything before had stopped.                                   *)
(***************************************************************************)
LEMMA SplitGoesOn ==
    ASSUME NEW P, NEW b \in Seq(P)
    PROVE  \A c \in Seq(P) : GoesOn(b, c)
<1>1. PICK s \in States(P) : s = Split(b)
  BY SplitType
<1>2. PICK F \in Seq(Seq(P)), rest \in Seq(P) : F = s.frames /\ rest = s.rest
  BY DEF States
<1> DEFINE G == {c \in Seq(P) : GoesOn(b, c)}
<1>3. <<>> \in G
  <2>1. b \o <<>> = b /\ rest \o <<>> = rest /\ F \o <<>> = F /\ <<>> \in Seq(P)
    OBVIOUS
  <2>2. Split(rest) = [frames |-> <<>>, rest |-> rest]
    BY <1>1, <1>2, RestHasNoFrame DEF RestIsRest
  <2>3. Before(F, Split(rest)) = [frames |-> F, rest |-> rest]
    BY <2>1, <2>2 DEF Before
  <2>4. s = [frames |-> F, rest |-> rest]
    BY <1>2 DEF States
  <2>5. GoesOn(b, <<>>)
    BY <1>1, <1>2, <2>1, <2>3, <2>4 DEF GoesOn
  <2> QED BY <2>1, <2>5
<1>4. ASSUME NEW a \in Seq(P), NEW x \in P, a \in G PROVE Append(a, x) \in G
  <2>1. /\ b \o Append(a, x) = Append(b \o a, x)
        /\ rest \o Append(a, x) = Append(rest \o a, x)
        /\ b \o a \in Seq(P) /\ rest \o a \in Seq(P) /\ Append(a, x) \in Seq(P)
    <3>1. AppendsBehind(b, a, x) /\ AppendsBehind(rest, a, x)
      BY AppendBehind
    <3>2. b \o a \in Seq(P) /\ rest \o a \in Seq(P) /\ Append(a, x) \in Seq(P)
      OBVIOUS
    <3> QED BY <3>1, <3>2, Zenon DEF AppendsBehind
  <2>2. /\ Split(b \o Append(a, x)) = Cut(Split(b \o a), x)
        /\ Split(rest \o Append(a, x)) = Cut(Split(rest \o a), x)
    BY <2>1, SplitAppend
  <2>3. PICK t \in States(P) : t = Split(rest \o a)
    BY <2>1, SplitType
  <2>4. Split(b \o a) = Before(F, t)
    BY <1>1, <1>2, <1>4, <2>3 DEF GoesOn
  <2>5. Cut(Before(F, t), x) = Before(F, Cut(t, x))
    BY CutBefore
  <2>6. GoesOn(b, Append(a, x))
    BY <1>1, <1>2, <2>2, <2>3, <2>4, <2>5 DEF GoesOn
  <2> QED BY <2>1, <2>6
<1>5. \A c \in Seq(P) : c \in G
  <2> HIDE DEF G
  <2> QED BY <1>3, <1>4, ByOneMore
<1> QED BY <1>5

Whole(b) == SubSeq(b, 1, Len(b) - Len(Split(b).rest))

WholeOK(b, P) ==
    /\ Len(Split(b).rest) <= Len(b)
    /\ Whole(b) \in Seq(P)
    /\ Split(Whole(b)) = [frames |-> Split(b).frames, rest |-> <<>>]

(***************************************************************************)
(* A buffer without its rest has the same frames, and no rest.             *)
(***************************************************************************)
LEMMA WholeFrames ==
    ASSUME NEW P
    PROVE  \A b \in Seq(P) : WholeOK(b, P)
<1> DEFINE G == {a \in Seq(P) : WholeOK(a, P)}
<1>1. <<>> \in G
  <2>1. <<>> \in Seq(P) /\ Len(<<>>) = 0 /\ SubSeq(<<>>, 1, 0) = <<>>
    OBVIOUS
  <2>2. Split(<<>>) = [frames |-> <<>>, rest |-> <<>>]
    BY SplitEmpty DEF Nothing
  <2>3. Whole(<<>>) = <<>>
    BY <2>1, <2>2 DEF Whole
  <2>4. Split(<<>>).rest = <<>> /\ Split(<<>>).frames = <<>>
    BY <2>2
  <2>5. WholeOK(<<>>, P)
    <3>1. Len(Split(<<>>).rest) <= Len(<<>>)
      BY <2>1, <2>4
    <3>2. Split(Whole(<<>>)) = [frames |-> Split(<<>>).frames, rest |-> <<>>]
      BY <2>2, <2>3, <2>4
    <3> QED BY <2>1, <2>3, <3>1, <3>2 DEF WholeOK
  <2> QED BY <2>1, <2>5
<1>2. ASSUME NEW a \in Seq(P), NEW x \in P, a \in G PROVE Append(a, x) \in G
  <2>1. PICK d : d = Append(a, x)
    OBVIOUS
  <2>2. PICK s \in States(P), t \in States(P) : s = Split(a) /\ t = Split(d)
    <3>1. d \in Seq(P)
      BY <2>1
    <3> QED BY <3>1, SplitType
  <2>3. d \in Seq(P) /\ t = Cut(s, x) /\ Len(d) = Len(a) + 1 /\ Len(a) \in Nat
    BY <2>1, <2>2, SplitAppend
  <2>4. PICK rest \in Seq(P), n \in Nat : rest = s.rest /\ n = Len(rest)
    BY DEF States
  <2>5. WholeOK(a, P)
    BY <1>2
  <2>6. CASE x[2] # 3
    <3>1. t = [frames |-> s.frames, rest |-> Append(rest, x)]
      BY <2>3, <2>4, <2>6, CutFacts
    <3>2. Len(Append(rest, x)) = n + 1
      BY <2>4
    <3>3. n <= Len(a)
      BY <2>2, <2>4, <2>5 DEF WholeOK
    <3>4. Len(d) - Len(t.rest) = Len(a) - n /\ Len(t.rest) <= Len(d)
      BY <2>3, <3>1, <3>2, <3>3
    <3>5. Len(a) - n \in Nat /\ Len(a) - n <= Len(a)
      BY <2>3, <3>3
    <3>6. PICK k \in Nat : k = Len(a) - n /\ k <= Len(a)
      BY <3>5
    <3>7. SubSeq(d, 1, k) = SubSeq(a, 1, k)
      BY <2>1, <2>3, <3>6
    <3>8. Whole(d) = Whole(a)
      BY <2>2, <2>4, <3>4, <3>6, <3>7 DEF Whole
    <3>9. t.frames = s.frames
      BY <3>1
    <3>10. WholeOK(d, P)
      BY <2>2, <2>5, <3>4, <3>8, <3>9 DEF WholeOK
    <3> QED BY <2>1, <2>3, <3>10
  <2>7. CASE x[2] = 3
    <3>1. t.rest = <<>> /\ Len(<<>>) = 0
      BY <2>3, <2>7, CutFacts
    <3>2. SubSeq(d, 1, Len(d)) = d /\ Len(d) - 0 = Len(d) /\ 0 <= Len(d)
      BY <2>3
    <3>3. Whole(d) = d
      BY <2>2, <3>1, <3>2 DEF Whole
    <3>4. t = [frames |-> t.frames, rest |-> <<>>]
      BY <3>1 DEF States
    <3>5. WholeOK(d, P)
      BY <2>2, <2>3, <3>1, <3>2, <3>3, <3>4 DEF WholeOK
    <3> QED BY <2>1, <2>3, <3>5
  <2> QED BY <2>6, <2>7
<1>3. \A a \in Seq(P) : a \in G
  <2> HIDE DEF G
  <2> QED BY <1>1, <1>2, ByOneMore
<1> QED BY <1>3

-----------------------------------------------------------------------------
(***************************************************************************)
(* What one more chunk does to what upstream has sent.                     *)
(***************************************************************************)
LEMMA WireType ==
    ASSUME NEW w, WireOK(w)
    PROVE  Wire(w) \in Seq(AnyPiece) /\ Len(Wire(w)) = w.n
<1>1. PICK evs \in Seq(Kinds), n \in Nat : evs = w.evs /\ n = w.n /\ Len(evs) = (n + 2) \div 3
  BY DEF WireOK
<1>2. PICK p : p = Wire(w)
  OBVIOUS
<1>3. p = [i \in 1 .. n |-> <<evs[1 + ((i - 1) \div 3)], 1 + ((i - 1) % 3)>>]
  BY <1>1, <1>2 DEF Wire, Pieces
<1>4. ASSUME NEW i \in 1 .. n PROVE p[i] \in AnyPiece
  <2>1. 1 + ((i - 1) \div 3) \in 1 .. Len(evs) /\ 1 + ((i - 1) % 3) \in 1 .. 3
    BY <1>1
  <2>2. evs[1 + ((i - 1) \div 3)] \in Kinds
    BY <2>1
  <2>3. PICK e \in Kinds, j \in 1 .. 3 :
           e = evs[1 + ((i - 1) \div 3)] /\ j = 1 + ((i - 1) % 3)
    BY <2>1, <2>2
  <2>4. p[i] = <<e, j>>
    BY <1>3, <2>3
  <2>5. <<e, j>> \in AnyPiece
    BY DEF AnyPiece
  <2> QED BY <2>4, <2>5
<1>5. p \in [1 .. n -> AnyPiece]
  BY <1>3, <1>4
<1>6. p \in Seq(AnyPiece) /\ Len(p) = n
  BY <1>5
<1> QED BY <1>1, <1>2, <1>6

Joined(s, t, u, T) ==
    /\ u \in Seq(T) /\ Len(u) = Len(s) + Len(t)
    /\ \A i \in 1 .. Len(s) : u[i] = s[i]
    /\ \A i \in 1 .. Len(t) : u[Len(s) + i] = t[i]

(* Two sequences one behind the other.                                     *)
LEMMA JoinedFacts ==
    ASSUME NEW T, NEW s \in Seq(T), NEW t \in Seq(T)
    PROVE  Joined(s, t, s \o t, T)
  BY DEF Joined

(* The elements of a stretch of a sequence.                                *)
LEMMA StretchFacts ==
    ASSUME NEW T, NEW s \in Seq(T), NEW m \in Nat, NEW n \in Nat, 1 <= m, m <= n + 1, n <= Len(s)
    PROVE  /\ SubSeq(s, m, n) \in Seq(T) /\ Len(SubSeq(s, m, n)) = n + 1 - m
           /\ \A i \in 1 .. n + 1 - m : SubSeq(s, m, n)[i] = s[m + i - 1]
  OBVIOUS

Behind(p, q, u) == q = p \o u

(* A sequence is a beginning of it with the tail behind it.                *)
LEMMA TailBehind ==
    ASSUME NEW T, NEW p \in Seq(T), NEW q \in Seq(T), NEW n \in Nat, NEW m \in Nat,
           Len(p) = n, Len(q) = m, n <= m, \A i \in 1 .. n : q[i] = p[i]
    PROVE  SubSeq(q, n + 1, m) \in Seq(T) /\ Behind(p, q, SubSeq(q, n + 1, m))
<1>1. PICK u : u = SubSeq(q, n + 1, m)
  OBVIOUS
<1>2. PICK k \in Nat : k = m - n
  OBVIOUS
<1>3. u \in Seq(T) /\ Len(u) = k /\ \A j \in 1 .. k : u[j] = q[n + j]
  <2>1. n + 1 \in Nat /\ 1 <= n + 1 /\ n + 1 <= m + 1 /\ m <= Len(q)
    OBVIOUS
  <2>2. /\ u \in Seq(T) /\ Len(u) = m + 1 - (n + 1)
        /\ \A j \in 1 .. m + 1 - (n + 1) : u[j] = q[n + 1 + j - 1]
    BY <1>1, <2>1, StretchFacts
  <2> QED BY <1>2, <2>2
<1>4. PICK w : w = p \o u
  OBVIOUS
<1>5. /\ w \in Seq(T) /\ Len(w) = n + k
      /\ \A i \in 1 .. n : w[i] = p[i]
      /\ \A i \in 1 .. k : w[n + i] = u[i]
  <2>1. /\ w \in Seq(T) /\ Len(w) = Len(p) + Len(u)
        /\ \A i \in 1 .. Len(p) : w[i] = p[i]
        /\ \A i \in 1 .. Len(u) : w[Len(p) + i] = u[i]
    <3>1. Joined(p, u, p \o u, T)
      BY <1>3, JoinedFacts
    <3> QED BY <1>4, <3>1, Zenon DEF Joined
  <2> QED BY <1>3, <2>1
<1>6. ASSUME NEW i \in 1 .. m PROVE q[i] = w[i]
  <2>1. CASE i <= n
    BY <1>5, <2>1
  <2>2. CASE i > n
    <3>1. PICK j \in 1 .. k : i = n + j
      <4>1. i - n \in 1 .. k /\ i = n + (i - n)
        BY <1>2, <2>2
      <4> QED BY <4>1
    <3> QED BY <1>3, <1>5, <3>1
  <2> QED BY <2>1, <2>2
<1>7. Len(w) = m
  BY <1>2, <1>5
<1>8. q = w
  BY <1>5, <1>6, <1>7
<1> QED BY <1>1, <1>3, <1>4, <1>8, Zenon DEF Behind

(* A chunk is what follows what was sent.                                  *)
LEMMA ChunkFacts ==
    ASSUME NEW v, WireOK(v), NEW most \in Nat, NEW w \in More(v, most)
    PROVE  /\ WireOK(w)
           /\ SubSeq(Wire(w), v.n + 1, w.n) \in Seq(AnyPiece)
           /\ Wire(w) = Wire(v) \o SubSeq(Wire(w), v.n + 1, w.n)
<1>1. PICK evs \in Seq(Kinds), n \in Nat : evs = v.evs /\ n = v.n /\ Len(evs) = (n + 2) \div 3
  BY DEF WireOK
<1>2. PICK m \in n + 1 .. n + MaxChunk :
         \E ks \in [1 .. ((m + 2) \div 3) - Len(evs) -> Kinds] : w = [evs |-> evs \o ks, n |-> m]
  BY <1>1 DEF More
<1>3. PICK ks \in [1 .. ((m + 2) \div 3) - Len(evs) -> Kinds] : w = [evs |-> evs \o ks, n |-> m]
  BY <1>2
<1>4. MaxChunk \in Nat /\ m \in Nat /\ n < m
  BY <1>2, GatewayAssumption
<1>5. PICK k \in Nat : k = ((m + 2) \div 3) - Len(evs)
  <2>1. ((m + 2) \div 3) >= ((n + 2) \div 3) /\ ((m + 2) \div 3) \in Nat
    BY <1>4
  <2> QED BY <1>1, <2>1
<1>6. ks \in [1 .. k -> Kinds]
  BY <1>3, <1>5
<1>7. ks \in Seq(Kinds) /\ Len(ks) = k
  BY <1>6
<1>8. /\ evs \o ks \in Seq(Kinds) /\ Len(evs \o ks) = Len(evs) + k
       /\ \A i \in 1 .. Len(evs) : (evs \o ks)[i] = evs[i]
  BY <1>7
<1>9. PICK all \in Seq(Kinds) : all = evs \o ks
  BY <1>8
<1>10. Len(evs) + k = (m + 2) \div 3
  <2>1. Len(evs) \in Nat /\ (m + 2) \div 3 \in Nat
    BY <1>4
  <2> QED BY <1>5, <2>1
<1>11. /\ Len(all) = (m + 2) \div 3
      /\ \A i \in 1 .. Len(evs) : all[i] = evs[i]
  BY <1>9, <1>8, <1>10
<1>12. w.evs = all /\ w.n = m
  BY <1>3, <1>9
<1>13. WireOK(w)
  BY <1>4, <1>11, <1>12 DEF WireOK
<1>14. PICK p \in Seq(AnyPiece), q \in Seq(AnyPiece) :
         p = Wire(v) /\ q = Wire(w) /\ Len(p) = n /\ Len(q) = m
  BY <1>1, <1>12, <1>13, WireType
<1>15. ASSUME NEW i \in 1 .. n PROVE q[i] = p[i]
  <2>1. p[i] = <<evs[1 + ((i - 1) \div 3)], 1 + ((i - 1) % 3)>>
    BY <1>1, <1>14 DEF Wire, Pieces
  <2>2. i \in 1 .. m
    BY <1>4
  <2>3. q = [j \in 1 .. m |-> <<all[1 + ((j - 1) \div 3)], 1 + ((j - 1) % 3)>>]
    BY <1>12, <1>14, Zenon DEF Wire, Pieces
  <2>4. q[i] = <<all[1 + ((i - 1) \div 3)], 1 + ((i - 1) % 3)>>
    BY <2>2, <2>3
  <2>5. 1 + ((i - 1) \div 3) \in 1 .. ((n + 2) \div 3)
    OBVIOUS
  <2>6. 1 + ((i - 1) \div 3) \in 1 .. Len(evs)
    BY <1>1, <2>5
  <2> QED BY <1>11, <2>1, <2>4, <2>6
<1>16. PICK chunk : chunk = SubSeq(q, n + 1, m)
  OBVIOUS
<1>17. chunk \in Seq(AnyPiece) /\ q = p \o chunk
  <2>1. n <= m
    BY <1>4
  <2>2. SubSeq(q, n + 1, m) \in Seq(AnyPiece) /\ Behind(p, q, SubSeq(q, n + 1, m))
    BY <1>4, <1>14, <1>15, <2>1, TailBehind
  <2> QED BY <1>16, <2>2, Zenon DEF Behind
<1> QED BY <1>1, <1>12, <1>13, <1>14, <1>16, <1>17

(* [DONE] is among two runs of frames if it is among one of them.          *)
LEMMA DoneBehind ==
    ASSUME NEW T, NEW s \in Seq(T), NEW t \in Seq(T)
    PROVE  HasDone(s \o t) <=> HasDone(s) \/ HasDone(t)
<1>1. PICK u : u = s \o t
  OBVIOUS
<1>2. PICK m \in Nat, n \in Nat : m = Len(s) /\ n = Len(t)
  OBVIOUS
<1>3. /\ Len(u) = m + n
      /\ \A i \in 1 .. m : u[i] = s[i]
      /\ \A i \in 1 .. n : u[m + i] = t[i]
  <2>1. Joined(s, t, u, T)
    BY <1>1, JoinedFacts
  <2> QED BY <1>2, <2>1 DEF Joined
<1>4. ASSUME NEW k \in 1 .. m, s[k][1][1] = "done" PROVE HasDone(u)
  BY <1>3, <1>4 DEF HasDone
<1>5. ASSUME NEW k \in 1 .. n, t[k][1][1] = "done" PROVE HasDone(u)
  <2>1. m + k \in 1 .. m + n /\ u[m + k] = t[k]
    BY <1>3
  <2> QED BY <1>3, <1>5, <2>1 DEF HasDone
<1>6. ASSUME NEW k \in 1 .. m + n, u[k][1][1] = "done" PROVE HasDone(s) \/ HasDone(t)
  <2>1. CASE k \in 1 .. m
    BY <1>2, <1>3, <1>6, <2>1 DEF HasDone
  <2>2. CASE k \notin 1 .. m
    <3>1. k - m \in 1 .. n /\ m + (k - m) = k
      BY <2>2
    <3>2. t[k - m] = u[k]
      BY <1>3, <3>1
    <3> QED BY <1>2, <1>6, <3>1, <3>2 DEF HasDone
  <2> QED BY <2>1, <2>2
<1> QED BY <1>1, <1>2, <1>3, <1>4, <1>5, <1>6 DEF HasDone

(***************************************************************************)
(* One chunk of stream_body: what it keeps, writes and sees.               *)
(***************************************************************************)
LEMMA ChunkStep ==
    ASSUME NEW x, LocalOK(x), WireOK(x.wire), NEW w, NEW chunk \in Seq(AnyPiece),
           Wire(x.wire) \in Seq(AnyPiece), Wire(w) = Wire(x.wire) \o chunk,
           NEW b, b = x.pending \o chunk, NEW v, v.wire = w, v.pending = Rest(b),
           v.out = x.out \o SubSeq(b, 1, Len(b) - Len(Rest(b))),
           v.done <=> x.done \/ HasDone(Frames(b))
    PROVE  LocalOK(v)
<1>1. PICK sent \in Seq(AnyPiece), all \in Seq(AnyPiece), out \in Seq(AnyPiece) :
         sent = Wire(x.wire) /\ all = Wire(w) /\ out = x.out /\ all = sent \o chunk
  <2>1. Wire(x.wire) \o chunk \in Seq(AnyPiece)
    OBVIOUS
  <2> QED BY <2>1 DEF LocalOK
<1>2. PICK s \in States(AnyPiece) : s = Split(sent)
  BY SplitType
<1>3. PICK F \in Seq(Seq(AnyPiece)), rest \in Seq(AnyPiece) : F = s.frames /\ rest = s.rest
  BY DEF States
<1>4. /\ x.pending = rest /\ Split(out) = [frames |-> F, rest |-> <<>>]
      /\ x.done <=> HasDone(F)
  BY <1>1, <1>2, <1>3 DEF LocalOK, Frames, Rest
<1>5. b = rest \o chunk /\ b \in Seq(AnyPiece)
  BY <1>3, <1>4
<1>6. PICK t \in States(AnyPiece) : t = Split(b)
  BY <1>5, SplitType
<1>7. PICK H \in Seq(Seq(AnyPiece)), left \in Seq(AnyPiece) : H = t.frames /\ left = t.rest
  BY DEF States
<1>8. Split(all) = [frames |-> F \o H, rest |-> left]
  <2>1. GoesOn(sent, chunk)
    BY SplitGoesOn
  <2> QED BY <1>1, <1>2, <1>3, <1>5, <1>6, <1>7, <2>1 DEF GoesOn, Before
<1>9. PICK whole \in Seq(AnyPiece) : /\ whole = SubSeq(b, 1, Len(b) - Len(Rest(b)))
                                     /\ Split(whole) = [frames |-> H, rest |-> <<>>]
  <2>1. WholeOK(b, AnyPiece)
    BY <1>5, WholeFrames
  <2> QED BY <1>6, <1>7, <2>1 DEF WholeOK, Whole, Rest
<1>10. Split(out \o whole) = [frames |-> F \o H, rest |-> <<>>]
  <2>1. GoesOn(out, whole)
    BY SplitGoesOn
  <2>2. <<>> \o whole = whole
    BY <1>9
  <2>3. Split(out).frames = F /\ Split(out).rest = <<>>
    BY <1>4
  <2>4. Split(out \o whole) = Before(F, Split(whole))
    BY <2>1, <2>2, <2>3, Zenon DEF GoesOn
  <2>5. Before(F, [frames |-> H, rest |-> <<>>]) = [frames |-> F \o H, rest |-> <<>>]
    BY DEF Before
  <2> QED BY <1>9, <2>4, <2>5, Zenon
<1>11. v.out = out \o whole /\ out \o whole \in Seq(AnyPiece)
  <2>1. out \o whole \in Seq(AnyPiece)
    OBVIOUS
  <2> QED BY <1>1, <1>9, <2>1, Zenon
<1>12. Frames(Wire(w)) = F \o H /\ Rest(Wire(w)) = left /\ Frames(b) = H /\ Rest(b) = left
  <2>1. Split(all).frames = F \o H /\ Split(all).rest = left
    BY <1>8
  <2> QED BY <1>1, <1>6, <1>7, <2>1, Zenon DEF Frames, Rest
<1>13. HasDone(F \o H) <=> HasDone(F) \/ HasDone(H)
  <2>1. PICK T : T = Seq(AnyPiece)
    OBVIOUS
  <2>2. F \in Seq(T) /\ H \in Seq(T)
    BY <2>1
  <2> QED BY <2>2, DoneBehind
<1>14. v.done <=> HasDone(Frames(Wire(w)))
  BY <1>4, <1>12, <1>13, Zenon
<1>15. v.pending = Rest(Wire(v.wire))
  BY <1>12, Zenon
<1>16. Split(v.out) = [frames |-> Frames(Wire(v.wire)), rest |-> <<>>] /\ v.out \in Seq(AnyPiece)
  BY <1>10, <1>11, <1>12, Zenon
<1>17. v.done <=> HasDone(Frames(Wire(v.wire)))
  BY <1>14, Zenon
<1> QED BY <1>15, <1>16, <1>17, Zenon DEF LocalOK

-----------------------------------------------------------------------------
(* A step of one call, from what its stream becomes.                       *)
LEMMA StreamStep ==
    ASSUME IInv, RelayInv, NEW c \in Callers, NEW v, RelayOK(v), r' = [r EXCEPT ![c] = v]
    PROVE  RelayInv'
<1>1. DOMAIN r = Callers
  BY DEF IInv
<1>2. r'[c] = v /\ \A d \in Callers : d # c => r'[d] = r[d]
  BY <1>1
<1> QED BY <1>2 DEF RelayInv

Kept(x, v) ==
    /\ v.wire = x.wire /\ v.pending = x.pending /\ v.out = x.out /\ v.done = x.done
    /\ v.tr = x.tr

(* A call that has no stream yet, or ends.                                 *)
LEMMA NoStreamStep ==
    ASSUME IInv, RelayInv, NEW c \in Callers, NEW v, r' = [r EXCEPT ![c] = v],
           \/ v.ph = "end"
           \/ v.ph # "stream" /\ r[c].ph \notin {"stream", "end"} /\ Kept(r[c], v)
    PROVE  RelayInv'
<1>1. RelayOK(r[c])
  BY DEF RelayInv
<1>2. RelayOK(v)
  BY <1>1 DEF RelayOK, Kept
<1> QED BY <1>2, StreamStep

(* Return and RecordAndReturn                                              *)
LEMMA ReturnsStream ==
    ASSUME IInv, RelayInv, NEW c \in Callers, NEW n, NEW met, NEW lost, Return(c, n, met, lost)
    PROVE  RelayInv'
<1>1. PICK s : s = IF n = 0 THEN finish_request(Slot(c)) ELSE finish_request(finish_request(Slot(c)))
  OBVIOUS
<1>2. PICK v : v = [Idle EXCEPT !.op = r[c].op, !.stream = r[c].stream, !.path = r[c].path,
                                !.ph = "end", !.fin = s.fin, !.met = met, !.lost = lost]
  OBVIOUS
<1>3. r' = [r EXCEPT ![c] = v]
  BY <1>1, <1>2, Zenon DEF Return
<1>4. v.ph = "end"
  BY <1>2, IdleFacts DEF Fields
<1> QED BY <1>3, <1>4, NoStreamStep

(* Enter                                                                   *)
LEMMA EnterStream ==
    ASSUME IInv, RelayInv, NEW c \in Callers, NEW op, NEW model, NEW media, NEW stream,
           Enter(c, op, model, media, stream)
    PROVE  RelayInv'
<1>1. PICK v : v = [Idle EXCEPT !.op = op, !.model = model, !.media = media, !.stream = stream,
                                !.ph = IF op = "list" THEN "routes" ELSE "body"]
  OBVIOUS
<1>2. r' = [r EXCEPT ![c] = v]
  BY <1>1 DEF Enter
<1>3. v.wire = NoWire /\ v.pending = <<>> /\ v.out = <<>> /\ v.done = FALSE /\ v.ph # "stream"
  BY <1>1 DEF Idle
<1>4. RelayOK(v)
  BY <1>3 DEF RelayOK
<1> QED BY <1>2, <1>4, StreamStep

(* A call moves on and its stream stays as it is.                          *)
Moves(c, v) == r' = [r EXCEPT ![c] = v] /\ v.ph # "stream" /\ Kept(r[c], v)

Routed(c) == (\E n, met, lost : Return(c, n, met, lost)) \/ (\E v : Moves(c, v))

(* The steps of a call before its request, and of a list.                  *)
LEMMA RoutingMoves ==
    ASSUME IInv, NEW c \in Callers,
           \/ _dispatch_proxy(c) \/ _dispatch_responses(c) \/ read_upstream_exposure(c)
           \/ ReadUrl(c) \/ ReadKey(c)
           \/ openai_models(c) \/ list_upstream_models(c) \/ CacheGet(c) \/ FetchModels(c)
           \/ CacheSet(c)
    PROVE  r[c].ph \notin {"stream", "end"} /\ Routed(c)
<1>1. /\ r[c].ph \notin {"stream", "end"} /\ DOMAIN r[c] = Fields
      /\ r = [d \in Callers |-> r[d]]
  BY DEF IInv, CallOK, _dispatch_proxy, _dispatch_responses, read_upstream_exposure, ReadUrl,
         ReadKey, openai_models,
         list_upstream_models, CacheGet, FetchModels, CacheSet
<1>2. ASSUME NEW n, NEW met, NEW lost, Return(c, n, met, lost)
      PROVE  Routed(c)
  BY <1>2 DEF Routed
<1>3. ASSUME NEW v, r' = [r EXCEPT ![c] = v], v.ph # "stream", Kept(r[c], v)
      PROVE  Routed(c)
  BY <1>3 DEF Routed, Moves
<1>4. ASSUME NEW ph, ph # "stream",
             \/ r' = [r EXCEPT ![c].ph = ph]
             \/ \E x : r' = [r EXCEPT ![c].ph = ph, ![c].path = x]
             \/ \E x : r' = [r EXCEPT ![c].ph = ph, ![c].routes = x]
             \/ \E x : r' = [r EXCEPT ![c].ph = ph, ![c].list = x]
             \/ \E x : r' = [r EXCEPT ![c].ph = ph, ![c].url = x]
             \/ \E x : r' = [r EXCEPT ![c].ph = ph, ![c].sel = x]
             \/ \E x, y, z : r' = [r EXCEPT ![c].url = x, ![c].key = y, ![c].path = z, ![c].ph = ph]
      PROVE  Routed(c)
  <2>1. ASSUME r' = [r EXCEPT ![c].ph = ph] PROVE Routed(c)
    <3>1. PICK v : v = [r[c] EXCEPT !.ph = ph]
      OBVIOUS
    <3>2. r' = [r EXCEPT ![c] = v]
      BY <1>1, <2>1, <3>1
    <3>3. v.ph = ph /\ Kept(r[c], v)
      BY <1>1, <3>1 DEF Fields, Kept
    <3> QED BY <1>3, <1>4, <3>2, <3>3
  <2>2. ASSUME \E x : r' = [r EXCEPT ![c].ph = ph, ![c].path = x] PROVE Routed(c)
    <3>0. PICK x : r' = [r EXCEPT ![c].ph = ph, ![c].path = x]
      BY <2>2
    <3>1. PICK v : v = [r[c] EXCEPT !.ph = ph, !.path = x]
      OBVIOUS
    <3>2. r' = [r EXCEPT ![c] = v]
      BY <1>1, <3>0, <3>1
    <3>3. v.ph = ph /\ Kept(r[c], v)
      BY <1>1, <3>1 DEF Fields, Kept
    <3> QED BY <1>3, <1>4, <3>2, <3>3
  <2>3. ASSUME \E x : r' = [r EXCEPT ![c].ph = ph, ![c].routes = x] PROVE Routed(c)
    <3>0. PICK x : r' = [r EXCEPT ![c].ph = ph, ![c].routes = x]
      BY <2>3
    <3>1. PICK v : v = [r[c] EXCEPT !.ph = ph, !.routes = x]
      OBVIOUS
    <3>2. r' = [r EXCEPT ![c] = v]
      BY <1>1, <3>0, <3>1
    <3>3. v.ph = ph /\ Kept(r[c], v)
      BY <1>1, <3>1 DEF Fields, Kept
    <3> QED BY <1>3, <1>4, <3>2, <3>3
  <2>4. ASSUME \E x : r' = [r EXCEPT ![c].ph = ph, ![c].list = x] PROVE Routed(c)
    <3>0. PICK x : r' = [r EXCEPT ![c].ph = ph, ![c].list = x]
      BY <2>4
    <3>1. PICK v : v = [r[c] EXCEPT !.ph = ph, !.list = x]
      OBVIOUS
    <3>2. r' = [r EXCEPT ![c] = v]
      BY <1>1, <3>0, <3>1
    <3>3. v.ph = ph /\ Kept(r[c], v)
      BY <1>1, <3>1 DEF Fields, Kept
    <3> QED BY <1>3, <1>4, <3>2, <3>3
  <2>5. ASSUME \E x : r' = [r EXCEPT ![c].ph = ph, ![c].url = x] PROVE Routed(c)
    <3>0. PICK x : r' = [r EXCEPT ![c].ph = ph, ![c].url = x]
      BY <2>5
    <3>1. PICK v : v = [r[c] EXCEPT !.ph = ph, !.url = x]
      OBVIOUS
    <3>2. r' = [r EXCEPT ![c] = v]
      BY <1>1, <3>0, <3>1
    <3>3. v.ph = ph /\ Kept(r[c], v)
      BY <1>1, <3>1 DEF Fields, Kept
    <3> QED BY <1>3, <1>4, <3>2, <3>3
  <2>6. ASSUME \E x : r' = [r EXCEPT ![c].ph = ph, ![c].sel = x] PROVE Routed(c)
    <3>0. PICK x : r' = [r EXCEPT ![c].ph = ph, ![c].sel = x]
      BY <2>6
    <3>1. PICK v : v = [r[c] EXCEPT !.ph = ph, !.sel = x]
      OBVIOUS
    <3>2. r' = [r EXCEPT ![c] = v]
      BY <1>1, <3>0, <3>1
    <3>3. v.ph = ph /\ Kept(r[c], v)
      BY <1>1, <3>1 DEF Fields, Kept
    <3> QED BY <1>3, <1>4, <3>2, <3>3
  <2>7. ASSUME \E x, y, z : r' = [r EXCEPT ![c].url = x, ![c].key = y, ![c].path = z, ![c].ph = ph] PROVE Routed(c)
    <3>0. PICK x, y, z : r' = [r EXCEPT ![c].url = x, ![c].key = y, ![c].path = z, ![c].ph = ph]
      BY <2>7
    <3>1. PICK v : v = [r[c] EXCEPT !.url = x, !.key = y, !.path = z, !.ph = ph]
      OBVIOUS
    <3>2. r' = [r EXCEPT ![c] = v]
      BY <1>1, <3>0, <3>1
    <3>3. v.ph = ph /\ Kept(r[c], v)
      BY <1>1, <3>1 DEF Fields, Kept
    <3> QED BY <1>3, <1>4, <3>2, <3>3
  <2> QED BY <1>4, <2>1, <2>2, <2>3, <2>4, <2>5, <2>6, <2>7, Zenon
<1>5. CASE _dispatch_proxy(c) \/ _dispatch_responses(c)
  BY <1>2, <1>4, <1>5 DEF _dispatch_proxy, _dispatch_responses, Bad, Forward
<1>6. ASSUME NEW url, NEW key, Resolved(c, url, key)
      PROVE  Routed(c)
  <2>1. PICK ph, path : /\ ph = IF r[c].op = "list" THEN "lookup" ELSE "send"
                        /\ path = IF r[c].op = "list" THEN "none" ELSE "fallback"
    OBVIOUS
  <2>2. ph # "stream"
    BY <2>1
  <2>3. CASE r' = [r EXCEPT ![c].url = url, ![c].key = key, ![c].path = path, ![c].ph = ph]
    <3>1. \E x, y, z : r' = [r EXCEPT ![c].url = x, ![c].key = y, ![c].path = z, ![c].ph = ph]
      BY <2>3
    <3> QED BY <1>4, <2>2, <3>1
  <2>4. \/ Return(c, 1, "none", FALSE)
        \/ r' = [r EXCEPT ![c].url = url, ![c].key = key, ![c].path = path, ![c].ph = ph]
    BY <1>6, <2>1, Zenon DEF Resolved
  <2> QED BY <1>2, <2>3, <2>4
<1>7. CASE read_upstream_exposure(c) \/ ReadUrl(c) \/ ReadKey(c)
  <2>1. ASSUME r' = [r EXCEPT ![c].ph = "key", ![c].url = cfg.url]
      PROVE  Routed(c)
    <3>1. \E x : r' = [r EXCEPT ![c].ph = "key", ![c].url = x]
      BY <2>1
    <3>2. "key" # "stream" /\ "url" # "stream"
      OBVIOUS
    <3> QED BY <1>4, <3>1, <3>2, Zenon
  <2>2. ASSUME r' = [r EXCEPT ![c].ph = "url", ![c].sel = cfg.sel]
      PROVE  Routed(c)
    <3>1. \E x : r' = [r EXCEPT ![c].ph = "url", ![c].sel = x]
      BY <2>2
    <3>2. "key" # "stream" /\ "url" # "stream"
      OBVIOUS
    <3> QED BY <1>4, <3>1, <3>2, Zenon
  <2>3. ASSUME r' = [r EXCEPT ![c].ph = "end"]
      PROVE  Routed(c)
    <3>1. "end" # "stream"
      OBVIOUS
    <3> QED BY <1>4, <2>3, <3>1, Zenon
  <2>4. ASSUME Return(c, 1, "none", FALSE)
      PROVE  Routed(c)
    BY <1>2, <2>4, Zenon
  <2>5. ASSUME Resolved(c, FallbackEnv.url, FallbackEnv.key) \/ Resolved(c, r[c].url, cfg.key)
      PROVE  Routed(c)
    BY <1>6, <2>5, Zenon
  <2>6. \/ r' = [r EXCEPT ![c].ph = "key", ![c].url = cfg.url]
        \/ r' = [r EXCEPT ![c].ph = "url", ![c].sel = cfg.sel]
        \/ r' = [r EXCEPT ![c].ph = "end"]
        \/ Return(c, 1, "none", FALSE)
        \/ Resolved(c, FallbackEnv.url, FallbackEnv.key) \/ Resolved(c, r[c].url, cfg.key)
    BY <1>7, Zenon DEF read_upstream_exposure, ReadUrl, ReadKey
  <2>7. Routed(c)
    BY <2>1, <2>2, <2>3, <2>4, <2>5, <2>6, Zenon
  <2> QED BY <1>1, <2>7
<1>8. CASE openai_models(c) \/ list_upstream_models(c)
  BY <1>4, <1>8 DEF openai_models, list_upstream_models
<1>9. CASE CacheGet(c) \/ FetchModels(c) \/ CacheSet(c)
  BY <1>4, <1>9 DEF CacheGet, FetchModels, CacheSet, Answer
<1> QED BY <1>1, <1>5, <1>6, <1>7, <1>8, <1>9

(* The streams are as before when a call is routed.                        *)
LEMMA RoutingStream ==
    ASSUME IInv, RelayInv, NEW c \in Callers,
           \/ _dispatch_proxy(c) \/ _dispatch_responses(c) \/ read_upstream_exposure(c)
           \/ ReadUrl(c) \/ ReadKey(c)
           \/ openai_models(c) \/ list_upstream_models(c) \/ CacheGet(c) \/ FetchModels(c)
           \/ CacheSet(c)
    PROVE  RelayInv'
<1>1. r[c].ph \notin {"stream", "end"} /\ Routed(c)
  BY RoutingMoves
<1>2. ASSUME NEW n, NEW met, NEW lost, Return(c, n, met, lost) PROVE RelayInv'
  BY <1>2, ReturnsStream
<1>3. ASSUME NEW v, Moves(c, v) PROVE RelayInv'
  BY <1>1, <1>3, NoStreamStep DEF Moves
<1> QED BY <1>1, <1>2, <1>3 DEF Routed

(* A request that is answered whole, with an error, or not at all.         *)
LEMMA SendStreams ==
    ASSUME IInv, RelayInv, NEW c \in Callers, SendFails(c) \/ SendError(c) \/ SendWhole(c)
    PROVE  RelayInv'
  BY ReturnsStream DEF SendFails, SendError, SendWhole, RecordAndReturn

(***************************************************************************)
(* The headers of a stream: nothing was sent or written yet.               *)
(***************************************************************************)
LEMMA SendStreamStreams ==
    ASSUME IInv, RelayInv, NEW c \in Callers, SendStream(c)
    PROVE  RelayInv'
<1>1. r[c].ph = "send" /\ DOMAIN r[c] = Fields /\ r = [d \in Callers |-> r[d]] /\ RelayOK(r[c])
  BY DEF SendStream, IInv, CallOK, RelayInv
<1>2. PICK tr : tr = IF r[c].path = "responses" THEN start(translator) ELSE r[c].tr
  OBVIOUS
<1>3. PICK v : v = [r[c] EXCEPT !.ph = "stream", !.model = None, !.media = {}, !.url = None,
                                !.key = None, !.sel = {}, !.tr = tr]
  OBVIOUS
<1>4. r' = [r EXCEPT ![c] = v]
  BY <1>1, <1>2, <1>3 DEF SendStream, Fields
<1>5. /\ v.wire = r[c].wire /\ v.pending = r[c].pending /\ v.out = r[c].out
      /\ v.done = r[c].done /\ v.ph = "stream"
  BY <1>1, <1>3 DEF Fields
<1>6. v.wire = NoWire /\ v.pending = <<>> /\ v.out = <<>> /\ v.done = FALSE
  BY <1>1, <1>5 DEF RelayOK
<1>7. WireOK(NoWire) /\ Wire(NoWire) = <<>>
  <2>1. (0 + 2) \div 3 = 0 /\ Len(<<>>) = 0 /\ <<>> \in Seq(Kinds)
    OBVIOUS
  <2>2. NoWire.evs = <<>> /\ NoWire.n = 0
    BY DEF NoWire
  <2> QED BY <2>1, <2>2 DEF WireOK, Wire, Pieces
<1>8. Frames(<<>>) = <<>> /\ Rest(<<>>) = <<>> /\ Split(<<>>) = [frames |-> <<>>, rest |-> <<>>]
  BY SplitEmpty DEF Frames, Rest, Nothing
<1>9. ~HasDone(<<>>) /\ <<>> \in Seq(AnyPiece)
  BY DEF HasDone
<1>10. LocalOK(v)
  BY <1>6, <1>7, <1>8, <1>9, Zenon DEF LocalOK
<1>11. RelayOK(v)
  BY <1>5, <1>6, <1>7, <1>10 DEF RelayOK
<1> QED BY <1>4, <1>11, StreamStep

(***************************************************************************)
(* A chunk: a chat stream keeps its cut, the fallback writes what came,    *)
(* and a Responses stream writes no piece of it.                           *)
(***************************************************************************)
LEMMA RelayStreams ==
    ASSUME IInv, RelayInv, NEW c \in Callers, RelayChunk(c)
    PROVE  RelayInv'
<1>1. /\ r[c].ph = "stream" /\ DOMAIN r[c] = Fields /\ r = [d \in Callers |-> r[d]]
      /\ RelayOK(r[c])
  BY DEF RelayChunk, IInv, CallOK, RelayInv
<1>2. PICK x : x = r[c]
  OBVIOUS
<1>3. /\ x.ph = "stream" /\ DOMAIN x = Fields /\ WireOK(x.wire)
      /\ x.path = "local" => LocalOK(x)
      /\ x.path = "fallback" => x.out = Wire(x.wire)
  BY <1>1, <1>2 DEF RelayOK
<1>4. PICK w \in More(x.wire, MaxEvents[c]) :
        LET chunk == SubSeq(Wire(w), x.wire.n + 1, w.n)
        IN  CASE x.path = "local" -> stream_body(c, w, chunk)
              [] x.path = "fallback" -> relay_verbatim(c, w, chunk)
              [] OTHER -> translate(c, w, chunk)
  BY <1>2 DEF RelayChunk
<1>5. PICK chunk : chunk = SubSeq(Wire(w), x.wire.n + 1, w.n)
  OBVIOUS
<1>6. /\ WireOK(w) /\ chunk \in Seq(AnyPiece) /\ Wire(w) = Wire(x.wire) \o chunk
      /\ Wire(x.wire) \in Seq(AnyPiece)
  <2>1. MaxEvents[c] \in Nat
    BY GatewayAssumption
  <2> QED BY <1>3, <1>4, <1>5, <2>1, ChunkFacts, WireType
<1>7. CASE x.path = "local"
  <2>1. stream_body(c, w, chunk)
    BY <1>4, <1>5, <1>7
  <2>2. PICK b : b = x.pending \o chunk
    OBVIOUS
  <2>3. PICK whole, rest, seen : /\ whole = x.out \o SubSeq(b, 1, Len(b) - Len(Rest(b)))
                                 /\ rest = Rest(b) /\ seen = (x.done \/ HasDone(Frames(b)))
    OBVIOUS
  <2>4. PICK v : v = [x EXCEPT !.wire = w, !.pending = rest, !.out = whole, !.done = seen]
    OBVIOUS
  <2>5. r' = [r EXCEPT ![c] = v]
    BY <1>1, <1>2, <2>1, <2>2, <2>3, <2>4 DEF stream_body, buffered, Fields
  <2>6. /\ v.wire = w /\ v.pending = rest /\ v.out = whole /\ v.done = seen
        /\ v.ph = "stream" /\ v.path = "local"
    BY <1>3, <1>7, <2>4 DEF Fields
  <2>7. LocalOK(v)
    <3>1. v.done <=> x.done \/ HasDone(Frames(b))
      BY <2>3, <2>6, Zenon
    <3>2. v.pending = Rest(b) /\ v.out = x.out \o SubSeq(b, 1, Len(b) - Len(Rest(b)))
      BY <2>3, <2>6, Zenon
    <3> QED BY <1>3, <1>6, <1>7, <2>2, <2>6, <3>1, <3>2, ChunkStep, Zenon
  <2>8. RelayOK(v)
    BY <1>6, <2>6, <2>7 DEF RelayOK
  <2> QED BY <2>5, <2>8, StreamStep
<1>8. CASE x.path = "fallback"
  <2>1. relay_verbatim(c, w, chunk)
    BY <1>4, <1>5, <1>8
  <2>2. PICK out : out = x.out \o chunk
    OBVIOUS
  <2>3. PICK v : v = [x EXCEPT !.wire = w, !.out = out]
    OBVIOUS
  <2>4. r' = [r EXCEPT ![c] = v]
    BY <1>1, <1>2, <2>1, <2>2, <2>3 DEF relay_verbatim, Fields
  <2>5. v.wire = w /\ v.out = out /\ v.ph = "stream" /\ v.path = "fallback"
    BY <1>3, <1>8, <2>3 DEF Fields
  <2>6. out = Wire(w)
    BY <1>3, <1>6, <1>8, <2>2
  <2>7. RelayOK(v)
    BY <1>6, <2>5, <2>6 DEF RelayOK
  <2> QED BY <2>4, <2>7, StreamStep
<1>9. CASE x.path \notin {"local", "fallback"}
  <2>1. translate(c, w, chunk)
    BY <1>4, <1>5, <1>9
  <2>2. PICK rest, tr :
          /\ rest = Rest(buffered(x.pending, chunk))
          /\ tr = Feed(x.tr, Frames(buffered(x.pending, chunk)), Len(Frames(Wire(x.wire))))
    OBVIOUS
  <2>3. PICK v : v = [x EXCEPT !.wire = w, !.pending = rest, !.tr = tr]
    OBVIOUS
  <2>4. r' = [r EXCEPT ![c] = v]
    BY <1>1, <1>2, <2>1, <2>2, <2>3 DEF translate, Fields
  <2>5. v.wire = w /\ v.ph = "stream" /\ v.path = x.path
    BY <1>3, <2>3 DEF Fields
  <2>6. RelayOK(v)
    BY <1>6, <1>9, <2>5 DEF RelayOK
  <2> QED BY <2>4, <2>6, StreamStep
<1> QED BY <1>7, <1>8, <1>9

(* A keepalive is written between two frames and is none itself.           *)
LEMMA HeartbeatStreams ==
    ASSUME IInv, RelayInv, NEW c \in Callers, RelayHeartbeat(c)
    PROVE  RelayInv'
<1>1. /\ r[c].ph = "stream" /\ r[c].path = "local" /\ DOMAIN r[c] = Fields
      /\ r = [d \in Callers |-> r[d]] /\ WireOK(r[c].wire) /\ LocalOK(r[c])
  BY DEF RelayHeartbeat, IInv, CallOK, RelayInv, RelayOK
<1>2. PICK out, beats : out = Append(r[c].out, Keepalive) /\ beats = r[c].beats + 1
  OBVIOUS
<1>3. PICK v : v = [r[c] EXCEPT !.out = out, !.beats = beats]
  OBVIOUS
<1>4. r' = [r EXCEPT ![c] = v]
  BY <1>1, <1>2, <1>3 DEF RelayHeartbeat, Fields
<1>5. /\ v.wire = r[c].wire /\ v.pending = r[c].pending /\ v.out = out /\ v.done = r[c].done
      /\ v.ph = "stream" /\ v.path = "local"
  BY <1>1, <1>3 DEF Fields
<1>6. PICK old \in Seq(AnyPiece) : old = r[c].out
  BY <1>1 DEF LocalOK
<1>7. Keepalive \in AnyPiece /\ Keepalive[2] = 3
  BY DEF Keepalive, AnyPiece
<1>8. Append(old, Keepalive) \in Seq(AnyPiece)
  BY <1>7
<1>9. Split(Append(old, Keepalive)) = Cut(Split(old), Keepalive)
  BY <1>7, SplitAppend
<1>10. Cut(Split(old), Keepalive) = Split(old)
  <2>1. Split(old).rest = <<>>
    BY <1>1, <1>6 DEF LocalOK
  <2> QED BY <1>7, <2>1 DEF Cut
<1>11. LocalOK(v)
  BY <1>1, <1>2, <1>5, <1>6, <1>8, <1>9, <1>10, Zenon DEF LocalOK
<1>12. RelayOK(v)
  BY <1>1, <1>5, <1>11 DEF RelayOK
<1> QED BY <1>4, <1>12, StreamStep

(* The end of a stream.                                                    *)
LEMMA EndsStreams ==
    ASSUME IInv, RelayInv, NEW c \in Callers, UpstreamEnds(c) \/ UpstreamBreaks(c)
    PROVE  RelayInv'
<1>1. DOMAIN r[c] = Fields
  BY DEF IInv, CallOK
<1>2. ASSUME NEW kept, DOMAIN kept = Fields, RelayEnds(c, kept) PROVE RelayInv'
  <2>1. PICK met, s : /\ met = IF r[c].path = "local" /\ ~r[c].done THEN "499" ELSE "200"
                      /\ s = finish_request(Slot(c))
    OBVIOUS
  <2>2. PICK v : /\ r' = [r EXCEPT ![c] = v]
                 /\ \/ v = [kept EXCEPT !.ph = "end", !.fin = s.fin, !.met = met]
                    \/ v = [kept EXCEPT !.ph = "end", !.lost = TRUE]
    BY <1>2, <2>1 DEF RelayEnds
  <2>3. v.ph = "end"
    BY <1>2, <2>2 DEF Fields
  <2> QED BY <2>2, <2>3, NoStreamStep
<1>3. DOMAIN Forgotten(c) = Fields
  BY <1>1 DEF Forgotten, Fields
<1>4. ASSUME NEW tr PROVE DOMAIN [r[c] EXCEPT !.tr = tr] = Fields
  BY <1>1
<1>5. CASE UpstreamEnds(c)
  <2>1. PICK n, rest : /\ n = Len(Frames(Wire(r[c].wire)))
                       /\ rest = IF r[c].pending = <<>> THEN <<>> ELSE <<r[c].pending>>
    OBVIOUS
  <2>2. PICK tr : tr = finish(Feed(r[c].tr, rest, n))
    OBVIOUS
  <2>3. RelayEnds(c, IF r[c].path = "responses"
                     THEN [r[c] EXCEPT !.tr = finish(Feed(@, rest, n))] ELSE Forgotten(c))
    BY <1>5, <2>1 DEF UpstreamEnds
  <2>4. [r[c] EXCEPT !.tr = finish(Feed(@, rest, n))] = [r[c] EXCEPT !.tr = tr]
    BY <1>1, <2>2 DEF Fields
  <2> QED BY <1>2, <1>3, <1>4, <2>3, <2>4
<1> QED BY <1>2, <1>3, <1>5 DEF UpstreamBreaks

(* Nothing is relayed at first.                                            *)
LEMMA InitRelays == Init => RelayInv
<1>1. RelayOK(Idle)
  BY DEF Idle, RelayOK
<1> QED BY <1>1 DEF Init, RelayInv

(* Every step keeps what the relays know.                                  *)
LEMMA InductiveRelays == IInv /\ RelayInv /\ [Next]_vars => RelayInv'
<1> SUFFICES ASSUME IInv, RelayInv, [Next]_vars PROVE RelayInv'
  OBVIOUS
<1>1. CASE UNCHANGED vars
  BY <1>1 DEF vars, RelayInv
<1>2. CASE put_upstream \/ put_upstream_exposure \/ put_commit \/ CacheExpire
  <2>1. r' = r
    BY <1>2 DEF put_upstream, put_upstream_exposure, put_commit, CacheExpire, Begin
  <2> QED BY <2>1 DEF RelayInv
<1>3. ASSUME NEW c \in Callers,
             \/ \E m \in Models \cup {None}, x \in SUBSET Media, s \in BOOLEAN :
                   Enter(c, "proxy", m, x, s)
             \/ \E m \in Models \cup {None}, s \in BOOLEAN : Enter(c, "responses", m, {}, s)
             \/ Enter(c, "list", None, {}, FALSE)
      PROVE  RelayInv'
  BY <1>3, EnterStream
<1> QED BY <1>1, <1>2, <1>3, RoutingStream, SendStreams, SendStreamStreams, RelayStreams,
           HeartbeatStreams, EndsStreams DEF Next

(***************************************************************************)
(* However upstream's bytes are cut into chunks, and for any number and    *)
(* kind of events and keepalives, a caller that parses what stream_body or *)
(* the fallback relay wrote finds exactly the events upstream terminated,  *)
(* whole and in order, and stream_body knows whether [DONE] was one.       *)
(***************************************************************************)
THEOREM EventsAreRelayedWhole == Spec => []RelaysKeepEvents
<1>1. IInv /\ RelayInv => RelaysKeepEvents
  <2> SUFFICES ASSUME RelayInv, NEW c \in Callers, r[c].ph = "stream",
                      r[c].path \in {"local", "fallback"}
               PROVE  LET all == Frames(Wire(r[c].wire))
                      IN  /\ Frames(r[c].out) = all
                          /\ r[c].path = "local" =>
                                Rest(r[c].out) = <<>> /\ (r[c].done <=> HasDone(all))
    BY DEF RelaysKeepEvents
  <2>1. CASE r[c].path = "local"
    <3>1. LocalOK(r[c])
      BY <2>1 DEF RelayInv, RelayOK
    <3>2. Frames(r[c].out) = Frames(Wire(r[c].wire)) /\ Rest(r[c].out) = <<>>
      BY <3>1 DEF LocalOK, Frames, Rest
    <3> QED BY <3>1, <3>2, Zenon DEF LocalOK
  <2>2. CASE r[c].path = "fallback"
    BY <2>2 DEF RelayInv, RelayOK
  <2> QED BY <2>1, <2>2
<1>2. IInv /\ RelayInv /\ [Next]_vars => (IInv /\ RelayInv)'
  BY Inductive, InductiveRelays
<1>3. Init => IInv /\ RelayInv
  BY InitInv, InitRelays
<1> QED BY <1>1, <1>2, <1>3, PTL DEF Spec

-----------------------------------------------------------------------------
(* The frames of a Responses stream: one more of them.                     *)

ResponseFrames == [n : Nat, type : FrameTypes, index : Int, text : Seq(Nat)]
Items == [key : Int, text : Seq(Nat)]

Longer(f, x, g) ==
    /\ g \in Seq(ResponseFrames) /\ Len(g) = Len(f) + 1 /\ g[Len(f) + 1] = x
    /\ \A k \in 1 .. Len(f) : g[k] = f[k]

(* One frame more at the end.                                              *)
LEMMA LongerFacts ==
    ASSUME NEW f \in Seq(ResponseFrames), NEW x \in ResponseFrames
    PROVE  Longer(f, x, Append(f, x))
  BY DEF Longer

(* The frames of a type with one more frame.                               *)
LEMMA OfTypeFacts ==
    ASSUME NEW f \in Seq(ResponseFrames), NEW x, NEW g, Longer(f, x, g), NEW type
    PROVE  /\ OfType(g, type) = IF x.type = type THEN OfType(f, type) \cup {Len(f) + 1}
                                ELSE OfType(f, type)
           /\ IsFiniteSet(OfType(f, type)) /\ OfType(f, type) \subseteq 1 .. Len(f)
           /\ Len(f) \in Nat /\ Len(f) + 1 \notin OfType(f, type)
<1>1. PICK n \in Nat : n = Len(f)
  OBVIOUS
<1>2. /\ Len(g) = n + 1 /\ g[n + 1] = x /\ \A k \in 1 .. n : g[k] = f[k]
  BY <1>1 DEF Longer
<1>3. OfType(f, type) = {k \in 1 .. n : f[k].type = type}
  BY <1>1 DEF OfType
<1>4. OfType(g, type) = {k \in 1 .. n + 1 : g[k].type = type}
  BY <1>2 DEF OfType
<1>5. ASSUME NEW k PROVE k \in OfType(g, type) <=>
                           k \in OfType(f, type) \/ (k = n + 1 /\ x.type = type)
  <2>1. CASE k \in 1 .. n
    <3>1. k # n + 1 /\ k \in 1 .. n + 1 /\ g[k] = f[k]
      BY <1>2, <2>1
    <3> QED BY <1>3, <1>4, <2>1, <3>1, Zenon
  <2>2. CASE k = n + 1
    <3>1. k \notin 1 .. n /\ k \in 1 .. n + 1 /\ g[k] = x
      BY <1>2, <2>2
    <3> QED BY <1>3, <1>4, <2>2, <3>1, Zenon
  <2>3. CASE k \notin 1 .. n /\ k # n + 1
    <3>1. k \notin 1 .. n + 1
      BY <2>3
    <3> QED BY <1>3, <1>4, <2>3, <3>1, Zenon
  <2> QED BY <2>1, <2>2, <2>3
<1>6. OfType(g, type) = IF x.type = type THEN OfType(f, type) \cup {n + 1} ELSE OfType(f, type)
  <2>1. CASE x.type = type
    BY <1>5, <2>1
  <2>2. CASE x.type # type
    BY <1>5, <2>2
  <2> QED BY <2>1, <2>2
<1>7. IsFiniteSet(1 .. n)
  BY FS_Interval
<1>8. IsFiniteSet(OfType(f, type)) /\ OfType(f, type) \subseteq 1 .. n
  BY <1>3, <1>7, FS_Subset
<1>9. n + 1 \notin OfType(f, type)
  BY <1>3
<1> QED BY <1>1, <1>6, <1>8, <1>9

Added(f) == Cardinality(OfType(f, "item.added"))

(* The number of items that were opened.                                   *)
LEMMA AddedFacts ==
    ASSUME NEW f \in Seq(ResponseFrames), NEW x, NEW g, Longer(f, x, g)
    PROVE  /\ Added(f) \in Nat
           /\ Added(g) = IF x.type = "item.added" THEN Added(f) + 1 ELSE Added(f)
<1>1. PICK a, b, n : a = OfType(f, "item.added") /\ b = OfType(g, "item.added") /\ n = Len(f) + 1
  OBVIOUS
<1>2. IsFiniteSet(a) /\ n \notin a /\ b = IF x.type = "item.added" THEN a \cup {n} ELSE a
  BY <1>1, OfTypeFacts
<1>3. Cardinality(a) \in Nat /\ Cardinality(a \cup {n}) = Cardinality(a) + 1
  BY <1>2, FS_CardinalityType, FS_AddElement
<1>4. Added(f) = Cardinality(a) /\ Added(g) = Cardinality(b)
  BY <1>1 DEF Added
<1> QED BY <1>2, <1>3, <1>4

(***************************************************************************)
(* A frame more keeps the frames in order: it has the next number, and it  *)
(* opens the next index, or is a delta of an index that was opened, or is  *)
(* neither.                                                                *)
(***************************************************************************)
LEMMA StillGrowing ==
    ASSUME NEW f \in Seq(ResponseFrames), NEW x, NEW g, Longer(f, x, g), Growing(f),
           x.n = Len(f),
           x.type = "item.added" => x.index = Added(f),
           x.type = "delta" => x.index \in 0 .. Added(f) - 1
    PROVE  Growing(g)
<1>1. PICK a, d : a = OfType(f, "item.added") /\ d = OfType(f, "delta")
  OBVIOUS
<1>2. PICK b, e : b = OfType(g, "item.added") /\ e = OfType(g, "delta")
  OBVIOUS
<1>3. PICK n \in Nat, c \in Nat : n = Len(f) /\ c = Added(f)
  BY AddedFacts
<1>4. /\ Len(g) = n + 1 /\ g[n + 1] = x /\ \A k \in 1 .. n : g[k] = f[k]
  BY <1>3 DEF Longer
<1>5. /\ a \subseteq 1 .. n /\ d \subseteq 1 .. n
      /\ b = IF x.type = "item.added" THEN a \cup {n + 1} ELSE a
      /\ e = IF x.type = "delta" THEN d \cup {n + 1} ELSE d
  BY <1>1, <1>2, <1>3, OfTypeFacts
<1>6. /\ \A k \in 1 .. n : f[k].n = k - 1
      /\ {f[k].index : k \in a} = 0 .. c - 1
      /\ \A k \in d : \E j \in a : j < k /\ f[j].index = f[k].index
  BY <1>1, <1>3 DEF Growing, Added
<1>7. Added(g) = IF x.type = "item.added" THEN c + 1 ELSE c
  BY <1>3, AddedFacts
<1>8. \A k \in 1 .. n + 1 : g[k].n = k - 1
  BY <1>3, <1>4, <1>6
<1>9. {g[k].index : k \in b} = 0 .. Added(g) - 1
  <2>1. {g[k].index : k \in a} = {f[k].index : k \in a}
    BY <1>4, <1>5
  <2>2. CASE x.type = "item.added"
    <3>1. {g[k].index : k \in b} = {g[k].index : k \in a} \cup {x.index}
      BY <1>4, <1>5, <2>2
    <3>2. x.index = c
      BY <1>3, <2>2
    <3>3. (0 .. c - 1) \cup {c} = 0 .. (c + 1) - 1
      OBVIOUS
    <3> QED BY <1>6, <1>7, <2>1, <2>2, <3>1, <3>2, <3>3
  <2>3. CASE x.type # "item.added"
    BY <1>5, <1>6, <1>7, <2>1, <2>3
  <2> QED BY <2>2, <2>3
<1>10. ASSUME NEW k \in e PROVE \E j \in b : j < k /\ g[j].index = g[k].index
  <2>1. CASE k \in d
    <3>1. PICK j \in a : j < k /\ f[j].index = f[k].index
      BY <1>6, <2>1
    <3> QED BY <1>4, <1>5, <2>1, <3>1
  <2>2. CASE k = n + 1 /\ x.type = "delta"
    <3>1. x.index \in {f[j].index : j \in a}
      BY <1>3, <1>6, <2>2
    <3>2. PICK j \in a : f[j].index = x.index
      BY <3>1
    <3>3. j \in b /\ j \in 1 .. n
      BY <1>5, <3>2
    <3>4. j < k /\ g[j].index = g[k].index
      BY <1>4, <2>2, <3>2, <3>3
    <3> QED BY <3>3, <3>4
  <2> QED BY <1>5, <2>1, <2>2
<1> QED BY <1>2, <1>4, <1>8, <1>9, <1>10 DEF Growing, Added
-----------------------------------------------------------------------------
Deltas(f, i) == {k \in OfType(f, "delta") : f[k].index = i}

SpelledAt(at, text, f, i) ==
    /\ at \in [1 .. Len(text) -> Deltas(f, i)]
    /\ \A k \in Deltas(f, i) : \E m \in 1 .. Len(text) : at[m] = k
    /\ \A m \in 1 .. Len(text) : f[at[m]].text = <<text[m]>>
    /\ \A l, m \in 1 .. Len(text) : l < m => at[l] < at[m]

(* Spells, with the places of the deltas.                                  *)
LEMMA SpellsFacts ==
    ASSUME NEW text, NEW f, NEW i
    PROVE  Spells(text, f, i) <=> \E at : SpelledAt(at, text, f, i)
  BY DEF Spells, SpelledAt, Deltas

(* The deltas of an index with one more frame.                             *)
LEMMA DeltasFacts ==
    ASSUME NEW f \in Seq(ResponseFrames), NEW x, NEW g, Longer(f, x, g), NEW i
    PROVE  /\ Deltas(g, i) = IF x.type = "delta" /\ x.index = i THEN Deltas(f, i) \cup {Len(f) + 1}
                             ELSE Deltas(f, i)
           /\ Deltas(f, i) \subseteq 1 .. Len(f)
<1>1. PICK d, e : d = OfType(f, "delta") /\ e = OfType(g, "delta")
  OBVIOUS
<1>2. PICK n \in Nat : n = Len(f)
  OBVIOUS
<1>3. d \subseteq 1 .. n /\ e = IF x.type = "delta" THEN d \cup {n + 1} ELSE d
  BY <1>1, <1>2, OfTypeFacts
<1>4. g[n + 1] = x /\ \A k \in 1 .. n : g[k] = f[k]
  BY <1>2 DEF Longer
<1>5. Deltas(f, i) = {k \in d : f[k].index = i} /\ Deltas(g, i) = {k \in e : g[k].index = i}
  BY <1>1 DEF Deltas
<1> QED BY <1>2, <1>3, <1>4, <1>5

(* A frame that is no delta of an index leaves what is spelled.            *)
LEMMA SpellsKept ==
    ASSUME NEW f \in Seq(ResponseFrames), NEW x, NEW g, Longer(f, x, g), NEW i,
           ~ (x.type = "delta" /\ x.index = i), NEW text, Spells(text, f, i)
    PROVE  Spells(text, g, i)
<1>1. PICK at : SpelledAt(at, text, f, i)
  BY SpellsFacts
<1>2. Deltas(g, i) = Deltas(f, i) /\ Deltas(f, i) \subseteq 1 .. Len(f)
  BY DeltasFacts
<1>3. \A k \in Deltas(f, i) : g[k] = f[k]
  BY <1>2 DEF Longer
<1>4. \A m \in 1 .. Len(text) : g[at[m]].text = <<text[m]>>
  BY <1>1, <1>3 DEF SpelledAt
<1>5. SpelledAt(at, text, g, i)
  BY <1>1, <1>2, <1>4 DEF SpelledAt
<1> QED BY <1>5, SpellsFacts

(* A delta of an index adds its piece.                                     *)
LEMMA SpellsMore ==
    ASSUME NEW f \in Seq(ResponseFrames), NEW x, NEW g, Longer(f, x, g),
           x.type = "delta", NEW p \in Nat, x.text = <<p>>,
           NEW text \in Seq(Nat), Spells(text, f, x.index)
    PROVE  Spells(Append(text, p), g, x.index)
<1>1. PICK i : i = x.index
  OBVIOUS
<1>2. PICK at : SpelledAt(at, text, f, i)
  BY <1>1, SpellsFacts
<1>3. PICK n \in Nat, l \in Nat : n = Len(f) /\ l = Len(text)
  OBVIOUS
<1>4. Deltas(g, i) = Deltas(f, i) \cup {n + 1} /\ Deltas(f, i) \subseteq 1 .. n
  BY <1>1, <1>3, DeltasFacts
<1>5. PICK long : long = Append(text, p)
  OBVIOUS
<1>6. Len(long) = l + 1 /\ long[l + 1] = p /\ \A m \in 1 .. l : long[m] = text[m]
  BY <1>3, <1>5
<1>7. PICK as : as = [m \in 1 .. l + 1 |-> IF m = l + 1 THEN n + 1 ELSE at[m]]
  OBVIOUS
<1>8. as[l + 1] = n + 1 /\ \A m \in 1 .. l : as[m] = at[m]
  BY <1>7
<1>9. \A m \in 1 .. l : at[m] \in Deltas(f, i)
  BY <1>2, <1>3 DEF SpelledAt
<1>10. as \in [1 .. l + 1 -> Deltas(g, i)]
  BY <1>4, <1>7, <1>9
<1>11. ASSUME NEW k \in Deltas(g, i) PROVE \E m \in 1 .. l + 1 : as[m] = k
  <2>1. CASE k = n + 1
    <3>1. l + 1 \in 1 .. l + 1
      OBVIOUS
    <3> QED BY <1>8, <2>1, <3>1, Zenon
  <2>2. CASE k \in Deltas(f, i)
    <3>1. PICK m \in 1 .. l : at[m] = k
      BY <1>2, <1>3, <2>2 DEF SpelledAt
    <3>2. m \in 1 .. l + 1
      OBVIOUS
    <3> QED BY <1>8, <3>1, <3>2, Zenon
  <2> QED BY <1>4, <2>1, <2>2
<1>12. ASSUME NEW m \in 1 .. l + 1 PROVE g[as[m]].text = <<long[m]>>
  <2>1. CASE m = l + 1
    <3>1. g[n + 1] = x
      BY <1>3 DEF Longer
    <3> QED BY <1>6, <1>8, <2>1, <3>1, Zenon
  <2>2. CASE m \in 1 .. l
    <3>1. at[m] \in 1 .. n /\ f[at[m]].text = <<text[m]>>
      BY <1>2, <1>3, <1>4, <1>9, <2>2 DEF SpelledAt
    <3>2. g[at[m]] = f[at[m]]
      BY <1>3, <3>1 DEF Longer
    <3> QED BY <1>6, <1>8, <2>2, <3>1, <3>2, Zenon
  <2>3. m = l + 1 \/ m \in 1 .. l
    OBVIOUS
  <2> QED BY <2>1, <2>2, <2>3, Zenon
<1>13. ASSUME NEW j \in 1 .. l + 1, NEW m \in 1 .. l + 1, j < m PROVE as[j] < as[m]
  <2>1. j \in 1 .. l
    BY <1>13
  <2>2. as[j] = at[j] /\ at[j] \in 1 .. n
    BY <1>4, <1>8, <1>9, <2>1, Zenon
  <2>3. CASE m = l + 1
    <3>1. as[m] = n + 1
      BY <1>8, <2>3, Zenon
    <3> QED BY <2>2, <3>1
  <2>4. CASE m \in 1 .. l
    <3>1. at[j] < at[m]
      BY <1>2, <1>3, <1>13, <2>1, <2>4 DEF SpelledAt
    <3> QED BY <1>8, <2>2, <2>4, <3>1, Zenon
  <2>5. m = l + 1 \/ m \in 1 .. l
    OBVIOUS
  <2> QED BY <2>3, <2>4, <2>5, Zenon
<1>14. SpelledAt(as, long, g, i)
  BY <1>6, <1>10, <1>11, <1>12, <1>13 DEF SpelledAt
<1> QED BY <1>1, <1>5, <1>14, SpellsFacts

(* An index that was not opened has no delta yet.                          *)
LEMMA SpellsNothing ==
    ASSUME NEW f \in Seq(ResponseFrames), Growing(f), NEW i, i \notin 0 .. Added(f) - 1
    PROVE  Spells(<<>>, f, i)
<1>1. Deltas(f, i) = {}
  <2> SUFFICES ASSUME NEW k \in Deltas(f, i) PROVE FALSE
    OBVIOUS
  <2>1. PICK j \in OfType(f, "item.added") : f[j].index = f[k].index
    BY DEF Growing, Deltas
  <2>2. f[j].index \in 0 .. Added(f) - 1
    BY <2>1 DEF Growing, Added
  <2>3. f[k].index = i
    BY DEF Deltas
  <2> QED BY <2>1, <2>2, <2>3
<1>2. Len(<<>>) = 0 /\ 1 .. 0 = {}
  OBVIOUS
<1>3. PICK at : at = [m \in {} |-> 0]
  OBVIOUS
<1>4. at \in [1 .. Len(<<>>) -> {}]
  BY <1>2, <1>3
<1>5. SpelledAt(at, <<>>, f, i)
  BY <1>1, <1>2, <1>4 DEF SpelledAt
<1> QED BY <1>5, SpellsFacts

(* What holds of 0, and of one more whenever it holds before, up to n.     *)
LEMMA UpTo ==
    ASSUME NEW n \in Nat, NEW G, 0 \in G, \A k \in 1 .. n : k - 1 \in G => k \in G
    PROVE  \A k \in 0 .. n : k \in G
<1> DEFINE S == {k \in Nat : k <= n /\ k \notin G}
<1>1. SUFFICES ASSUME S # {} PROVE FALSE
  OBVIOUS
<1>2. S \subseteq Nat
  OBVIOUS
<1>3. PICK k \in S : \A m \in S : k <= m
  <2> HIDE DEF S
  <2> QED BY <1>1, <1>2, LeastNumber
<1>4. k \in 1 .. n /\ k - 1 \in Nat /\ k - 1 <= n /\ ~ (k <= k - 1)
  BY <1>3
<1>5. k - 1 \in G
  BY <1>3, <1>4
<1> QED BY <1>3, <1>4, <1>5

Iterated(f, S, G, t, n) ==
    f \in [0 .. n -> S] /\ f[0] = t /\ \A k \in 1 .. n : f[k] = G[k][f[k - 1]]

(* A function can be applied again and again.                              *)
LEMMA Iterates ==
    ASSUME NEW S, NEW t \in S, NEW n \in Nat, NEW G \in [1 .. n -> [S -> S]]
    PROVE  \E f : Iterated(f, S, G, t, n)
<1> DEFINE B == {m \in 0 .. n : \E f : Iterated(f, S, G, t, m)}
<1>1. 0 \in B
  <2>1. PICK f : f = [k \in 0 .. 0 |-> t]
    OBVIOUS
  <2>2. Iterated(f, S, G, t, 0)
    BY <2>1 DEF Iterated
  <2> QED BY <2>2
<1>2. ASSUME NEW m \in 1 .. n, m - 1 \in B PROVE m \in B
  <2>1. PICK f : Iterated(f, S, G, t, m - 1)
    BY <1>2
  <2>2. f[m - 1] \in S /\ \A k \in 0 .. m - 1 : f[k] \in S
    BY <2>1 DEF Iterated
  <2>3. PICK x \in S : x = G[m][f[m - 1]]
    BY <2>2
  <2>4. PICK g : g = [k \in 0 .. m |-> IF k = m THEN x ELSE f[k]]
    OBVIOUS
  <2>5. g[m] = x /\ \A k \in 0 .. m - 1 : g[k] = f[k]
    BY <2>4
  <2>6. g \in [0 .. m -> S]
    BY <2>2, <2>4
  <2>7. g[0] = t
    <3>1. 0 \in 0 .. m - 1
      OBVIOUS
    <3> QED BY <2>1, <2>5, <3>1, Zenon DEF Iterated
  <2>8. ASSUME NEW k \in 1 .. m PROVE g[k] = G[k][g[k - 1]]
    <3>1. k - 1 \in 0 .. m - 1
      OBVIOUS
    <3>2. g[k - 1] = f[k - 1]
      BY <2>5, <3>1
    <3>3. CASE k = m
      BY <2>3, <2>5, <3>2, <3>3, Zenon
    <3>4. CASE k # m
      <4>1. k \in 1 .. m - 1 /\ k \in 0 .. m - 1
        BY <3>4
      <4>2. f[k] = G[k][f[k - 1]]
        BY <2>1, <4>1 DEF Iterated
      <4> QED BY <2>5, <3>2, <4>1, <4>2, Zenon
    <3> QED BY <3>3, <3>4
  <2>9. Iterated(g, S, G, t, m)
    BY <2>6, <2>7, <2>8 DEF Iterated
  <2> QED BY <2>9
<1>3. \A k \in 0 .. n : k \in B
  <2>1. 0 \in B /\ \A m \in 1 .. n : m - 1 \in B => m \in B
    BY <1>1, <1>2
  <2> HIDE DEF B
  <2> QED BY <2>1, UpTo
<1>4. n \in B
  <2>1. n \in 0 .. n
    OBVIOUS
  <2> HIDE DEF B
  <2> QED BY <1>3, <2>1
<1> QED BY <1>4

-----------------------------------------------------------------------------
(* The translator: one frame, one delta, one item, one event more.         *)

Frame(n, type, index, text) == [n |-> n, type |-> type, index |-> index, text |-> text]

(* u is t with one more frame.                                             *)
Emitted(t, u, type, index, text) ==
    /\ u \in Translators /\ u.seq = Len(u.frames)
    /\ u.items = t.items /\ u._tool_order = t._tool_order /\ u.completed = t.completed
    /\ Frame(Len(t.frames), type, index, text) \in ResponseFrames
    /\ Longer(t.frames, Frame(Len(t.frames), type, index, text), u.frames)

(* What _emit does: the frame has the next sequence number.                *)
LEMMA EmitFacts ==
    ASSUME NEW t \in Translators, t.seq = Len(t.frames), NEW type \in FrameTypes,
           NEW index \in Int, NEW text \in Seq(Nat)
    PROVE  Emitted(t, _emit(t, type, index, text), type, index, text)
<1>1. PICK u, x : u = _emit(t, type, index, text) /\ x = Frame(Len(t.frames), type, index, text)
  OBVIOUS
<1>2. t.frames \in Seq(ResponseFrames) /\ Len(t.frames) \in Nat
  BY DEF Translators, ResponseFrames
<1>3. x \in ResponseFrames
  BY <1>1, <1>2 DEF Frame, ResponseFrames
<1>4. u = [t EXCEPT !.seq = @ + 1, !.frames = Append(@, x)]
  BY <1>1 DEF _emit, Frame
<1>5. /\ u.seq = Len(t.frames) + 1 /\ u.frames = Append(t.frames, x)
      /\ u.items = t.items /\ u._tool_order = t._tool_order /\ u.completed = t.completed
  BY <1>4 DEF Translators
<1>6. Longer(t.frames, x, u.frames)
  BY <1>2, <1>3, <1>5, LongerFacts
<1>7. u.frames \in Seq(ResponseFrames) /\ u.seq = Len(u.frames)
  BY <1>2, <1>5, <1>6 DEF Longer
<1>8. u \in Translators
  <2>1. u.seq \in Nat
    BY <1>2, <1>5
  <2>2. DOMAIN u = DOMAIN t /\ u = [k \in DOMAIN t |-> u[k]]
    BY <1>4 DEF Translators
  <2> QED BY <1>4, <1>5, <1>7, <2>1, <2>2 DEF Translators, ResponseFrames
<1> QED BY <1>1, <1>3, <1>5, <1>6, <1>7, <1>8 DEF Emitted

(* The parts of TranslatorOK.                                              *)
LEMMA TranslatorFacts ==
    ASSUME NEW t, TranslatorOK(t)
    PROVE  /\ t \in Translators /\ t.seq = Len(t.frames) /\ t.frames \in Seq(ResponseFrames)
           /\ t.items \in Seq(Items) /\ Len(t.items) \in Nat /\ Len(t.frames) \in Nat
           /\ t._tool_order \in Seq(Int) /\ t.completed \in BOOLEAN
           /\ KeysOK(t) /\ Growing(t.frames) /\ Added(t.frames) = Len(t.items)
           /\ \A i \in 1 .. Len(t.items) : Spells(t.items[i].text, t.frames, i - 1)
           /\ \A i \in 1 .. Len(t.items) : t.items[i].key \in Int /\ t.items[i].text \in Seq(Nat)
<1>1. /\ t \in Translators /\ t.seq = Len(t.frames) /\ KeysOK(t) /\ Growing(t.frames)
      /\ Added(t.frames) = Len(t.items)
      /\ \A i \in 1 .. Len(t.items) : Spells(t.items[i].text, t.frames, i - 1)
  BY DEF TranslatorOK, Added
<1>2. /\ t.frames \in Seq(ResponseFrames) /\ t.items \in Seq(Items)
      /\ t._tool_order \in Seq(Int) /\ t.completed \in BOOLEAN
  BY <1>1 DEF Translators, ResponseFrames, Items
<1>3. \A i \in 1 .. Len(t.items) : t.items[i] \in Items
  BY <1>2
<1>4. \A i \in 1 .. Len(t.items) : t.items[i].key \in Int /\ t.items[i].text \in Seq(Nat)
  BY <1>3 DEF Items
<1>5. Len(t.items) \in Nat /\ Len(t.frames) \in Nat
  BY <1>2
<1> QED BY <1>1, <1>2, <1>4, <1>5

(* A frame more, with the items that go with it.                           *)
LEMMA Grows ==
    ASSUME NEW t, TranslatorOK(t), NEW u \in Translators, u.seq = Len(u.frames), KeysOK(u),
           NEW x, Longer(t.frames, x, u.frames), x.n = Len(t.frames),
           x.type = "item.added" => x.index = Len(t.items) /\ Len(u.items) = Len(t.items) + 1,
           x.type # "item.added" => Len(u.items) = Len(t.items),
           x.type = "delta" => x.index \in 0 .. Len(t.items) - 1,
           \A i \in 1 .. Len(u.items) : Spells(u.items[i].text, u.frames, i - 1)
    PROVE  TranslatorOK(u)
<1>1. t.frames \in Seq(ResponseFrames) /\ Growing(t.frames) /\ Added(t.frames) = Len(t.items)
  BY TranslatorFacts
<1>2. Growing(u.frames)
  BY <1>1, StillGrowing
<1>3. Added(u.frames) = Len(u.items)
  BY <1>1, AddedFacts
<1> QED BY <1>2, <1>3 DEF TranslatorOK, Added

(* The keys are those of the items and of _tool_order.                     *)
LEMMA SameKeys ==
    ASSUME NEW t, KeysOK(t), NEW u, u._tool_order = t._tool_order, Len(u.items) = Len(t.items),
           \A i \in 1 .. Len(t.items) : u.items[i].key = t.items[i].key
    PROVE  KeysOK(u)
<1>1. {u.items[i].key : i \in 1 .. Len(u.items)} = {t.items[i].key : i \in 1 .. Len(t.items)}
  OBVIOUS
<1>2. PICK n : n = Len(t.items)
  OBVIOUS
<1>3. \A i, j \in 1 .. n : t.items[i].key = t.items[j].key => i = j
  BY <1>2 DEF KeysOK
<1>4. \A i, j \in 1 .. n : u.items[i].key = u.items[j].key => i = j
  BY <1>2, <1>3, Zenon
<1>5. /\ \A l, m \in 1 .. Len(t._tool_order) : t._tool_order[l] = t._tool_order[m] => l = m
      /\ {t._tool_order[m] : m \in 1 .. Len(t._tool_order)} =
            {t.items[i].key : i \in 1 .. Len(t.items)} \ {-2, -1}
  BY DEF KeysOK
<1>6. \A i, j \in 1 .. Len(u.items) : u.items[i].key = u.items[j].key => i = j
  BY <1>2, <1>4
<1>7. /\ \A l, m \in 1 .. Len(u._tool_order) : u._tool_order[l] = u._tool_order[m] => l = m
      /\ {u._tool_order[m] : m \in 1 .. Len(u._tool_order)} =
            {t.items[i].key : i \in 1 .. Len(t.items)} \ {-2, -1}
  BY <1>5
<1>8. {u._tool_order[m] : m \in 1 .. Len(u._tool_order)} =
            {u.items[i].key : i \in 1 .. Len(u.items)} \ {-2, -1}
  BY <1>1, <1>7
<1> QED BY <1>6, <1>7, <1>8, Zenon DEF KeysOK

(* A frame that opens nothing and is no delta.                             *)
LEMMA EmitKeeps ==
    ASSUME NEW t, TranslatorOK(t), NEW type \in FrameTypes \ {"item.added", "delta"},
           NEW index \in Int, NEW text \in Seq(Nat), NEW u, Emitted(t, u, type, index, text)
    PROVE  TranslatorOK(u)
<1>1. PICK x : x = Frame(Len(t.frames), type, index, text)
  OBVIOUS
<1>2. x.n = Len(t.frames) /\ x.type = type /\ x.type \notin {"item.added", "delta"}
  BY <1>1 DEF Frame
<1>3. /\ u \in Translators /\ u.seq = Len(u.frames) /\ u.items = t.items
      /\ u._tool_order = t._tool_order /\ Longer(t.frames, x, u.frames)
  BY <1>1 DEF Emitted
<1>4. KeysOK(u)
  BY <1>3, TranslatorFacts, SameKeys
<1>5. ASSUME NEW i \in 1 .. Len(u.items) PROVE Spells(u.items[i].text, u.frames, i - 1)
  <2>1. t.frames \in Seq(ResponseFrames) /\ Spells(t.items[i].text, t.frames, i - 1)
    BY <1>3, <1>5, TranslatorFacts
  <2>2. ~ (x.type = "delta" /\ x.index = i - 1)
    BY <1>2
  <2>3. Spells(t.items[i].text, u.frames, i - 1)
    BY <1>3, <2>1, <2>2, SpellsKept
  <2> QED BY <1>3, <2>3
<1> QED BY <1>2, <1>3, <1>4, <1>5, Grows

(* A stream stays open while nothing is closed.                            *)
LEMMA StaysOpen ==
    ASSUME NEW t, TranslatorOK(t), Open(t), NEW x, NEW u, Longer(t.frames, x, u.frames),
           u.completed = t.completed, x.type \notin {"item.done", "completed"}
    PROVE  Open(u)
<1>1. t.frames \in Seq(ResponseFrames)
  BY TranslatorFacts
<1>2. /\ OfType(u.frames, "item.done") = OfType(t.frames, "item.done")
      /\ OfType(u.frames, "completed") = OfType(t.frames, "completed")
  BY <1>1, OfTypeFacts
<1> QED BY <1>2 DEF Open

(* The item of a key.                                                      *)
LEMMA ItemFacts ==
    ASSUME NEW t, t.items \in Seq(Items), NEW key, opened(t, key)
    PROVE  item(t, key) \in 1 .. Len(t.items) /\ t.items[item(t, key)].key = key
<1>1. DOMAIN t.items = 1 .. Len(t.items)
  OBVIOUS
<1>2. \E i \in DOMAIN t.items : t.items[i].key = key
  BY DEF opened
<1>3. item(t, key) \in DOMAIN t.items /\ t.items[item(t, key)].key = key
  BY <1>2, Zenon DEF item
<1> QED BY <1>1, <1>3

(* The texts, piece by piece.                                              *)
LEMMA TextsFacts ==
    ASSUME NEW t, t.items \in Seq(Items), NEW n
    PROVE  n \in Texts(t) <=> \E i \in 1 .. Len(t.items) : \E m \in 1 .. Len(t.items[i].text) :
                                 t.items[i].text[m] = n
<1>1. ASSUME NEW i \in 1 .. Len(t.items)
      PROVE  ToSet(t.items[i].text) = {t.items[i].text[m] : m \in 1 .. Len(t.items[i].text)}
  <2>1. t.items[i] \in Items
    OBVIOUS
  <2>2. PICK text \in Seq(Nat) : text = t.items[i].text
    BY <2>1 DEF Items
  <2>3. ToSet(text) = {text[m] : m \in 1 .. Len(text)}
    BY DEF ToSet
  <2> QED BY <2>2, <2>3
<1>2. n \in Texts(t) <=> \E i \in 1 .. Len(t.items) : n \in ToSet(t.items[i].text)
  BY DEF Texts
<1>3. ASSUME NEW i \in 1 .. Len(t.items)
      PROVE  n \in ToSet(t.items[i].text) <=>
                \E m \in 1 .. Len(t.items[i].text) : t.items[i].text[m] = n
  BY <1>1
<1> QED BY <1>2, <1>3

(* A stream that is open and has heard the events X.                       *)
Hears(t, X) == TranslatorOK(t) /\ Open(t) /\ Texts(t) = X

(* What delta does to the items.                                           *)
Pushed(t, u, i, n) ==
    /\ u \in Translators /\ u.seq = t.seq /\ u.frames = t.frames
    /\ u._tool_order = t._tool_order /\ u.completed = t.completed
    /\ Len(u.items) = Len(t.items)
    /\ u.items[i].key = t.items[i].key /\ u.items[i].text = Append(t.items[i].text, n)
    /\ \A j \in 1 .. Len(t.items) : j # i => u.items[j] = t.items[j]

(* delta appends to the text of one item and leaves the others alone.      *)
LEMMA PushFacts ==
    ASSUME NEW t \in Translators, NEW i \in 1 .. Len(t.items), NEW n \in Nat
    PROVE  Pushed(t, [t EXCEPT !.items[i].text = Append(@, n)], i, n)
<1>1. PICK items \in Seq(Items) : items = t.items
  BY DEF Translators, Items
<1>2. PICK it \in Items : it = items[i]
  BY <1>1
<1>3. PICK text \in Seq(Nat) : text = it.text
  BY DEF Items
<1>4. PICK new : new = [it EXCEPT !.text = Append(text, n)]
  OBVIOUS
<1>5. new \in Items /\ new.key = it.key /\ new.text = Append(text, n)
  <2>1. Append(text, n) \in Seq(Nat)
    OBVIOUS
  <2>2. PICK app \in Seq(Nat) : app = Append(text, n)
    BY <2>1
  <2>3. new = [it EXCEPT !.text = app]
    BY <1>4, <2>2
  <2> QED BY <2>2, <2>3 DEF Items
<1>6. PICK long : long = [items EXCEPT ![i] = new]
  OBVIOUS
<1>7. /\ long \in Seq(Items) /\ Len(long) = Len(items) /\ long[i] = new
      /\ \A j \in 1 .. Len(items) : j # i => long[j] = items[j]
  BY <1>1, <1>5, <1>6
<1>8. PICK u : u = [t EXCEPT !.items[i].text = Append(@, n)]
  OBVIOUS
<1>9. u = [t EXCEPT !.items = long]
  BY <1>1, <1>2, <1>3, <1>4, <1>6, <1>8 DEF Translators
<1>10. /\ u \in Translators /\ u.seq = t.seq /\ u.frames = t.frames /\ u.items = long
       /\ u._tool_order = t._tool_order /\ u.completed = t.completed
  BY <1>7, <1>9 DEF Translators, Items
<1>11. Pushed(t, u, i, n)
  BY <1>1, <1>2, <1>3, <1>5, <1>7, <1>10 DEF Pushed
<1> QED BY <1>8, <1>11

(* One piece for an open item.                                             *)
LEMMA DeltaKeeps ==
    ASSUME NEW t, NEW X, Hears(t, X), NEW key, opened(t, key), NEW n \in Nat
    PROVE  Hears(delta(t, key, n), X \cup {n})
<1>1. TranslatorOK(t) /\ Open(t) /\ Texts(t) = X
  BY DEF Hears
<1>2. /\ t \in Translators /\ t.seq = Len(t.frames) /\ t.frames \in Seq(ResponseFrames)
      /\ t.items \in Seq(Items) /\ Len(t.items) \in Nat /\ KeysOK(t)
      /\ \A j \in 1 .. Len(t.items) : Spells(t.items[j].text, t.frames, j - 1)
      /\ \A j \in 1 .. Len(t.items) : t.items[j].text \in Seq(Nat)
  BY <1>1, TranslatorFacts
<1>3. PICK i \in 1 .. Len(t.items) : i = item(t, key)
  BY <1>2, ItemFacts
<1>4. PICK s : s = [t EXCEPT !.items[i].text = Append(@, n)]
  OBVIOUS
<1>5. Pushed(t, s, i, n)
  BY <1>2, <1>4, PushFacts
<1>6. PICK u : u = _emit(s, "delta", i - 1, <<n>>)
  OBVIOUS
<1>7. u = delta(t, key, n)
  BY <1>3, <1>4, <1>6 DEF delta
<1>8. PICK x : x = Frame(Len(s.frames), "delta", i - 1, <<n>>)
  OBVIOUS
<1>9. Emitted(s, u, "delta", i - 1, <<n>>)
  <2>1. s \in Translators /\ s.seq = Len(s.frames)
    BY <1>2, <1>5 DEF Pushed
  <2>2. "delta" \in FrameTypes /\ i - 1 \in Int /\ <<n>> \in Seq(Nat)
    BY DEF FrameTypes
  <2> QED BY <1>6, <2>1, <2>2, EmitFacts
<1>10. /\ u \in Translators /\ u.seq = Len(u.frames) /\ Longer(t.frames, x, u.frames)
       /\ u._tool_order = t._tool_order /\ u.completed = t.completed
       /\ Len(u.items) = Len(t.items) /\ u.items[i].key = t.items[i].key
       /\ u.items[i].text = Append(t.items[i].text, n)
       /\ \A j \in 1 .. Len(t.items) : j # i => u.items[j] = t.items[j]
  BY <1>5, <1>8, <1>9 DEF Emitted, Pushed
<1>11. x.n = Len(t.frames) /\ x.type = "delta" /\ x.index = i - 1 /\ x.text = <<n>>
  BY <1>5, <1>8 DEF Frame, Pushed
<1>12. KeysOK(u)
  <2>1. \A j \in 1 .. Len(t.items) : u.items[j].key = t.items[j].key
    BY <1>10
  <2> QED BY <1>2, <1>10, <2>1, SameKeys
<1>13. ASSUME NEW j \in 1 .. Len(u.items) PROVE Spells(u.items[j].text, u.frames, j - 1)
  <2>1. j \in 1 .. Len(t.items)
    BY <1>10
  <2>2. PICK text \in Seq(Nat) : text = t.items[j].text /\ Spells(text, t.frames, j - 1)
    BY <1>2, <2>1
  <2>3. CASE j = i
    <3>1. Spells(Append(text, n), u.frames, x.index)
      <4>1. Spells(text, t.frames, x.index)
        BY <1>11, <2>2, <2>3
      <4> QED BY <1>2, <1>10, <1>11, <4>1, SpellsMore
    <3> QED BY <1>10, <1>11, <2>2, <2>3, <3>1
  <2>4. CASE j # i
    <3>1. ~ (x.type = "delta" /\ x.index = j - 1)
      BY <1>2, <1>11, <2>1, <2>4
    <3>2. Spells(text, u.frames, j - 1)
      BY <1>2, <1>10, <2>2, <3>1, SpellsKept
    <3> QED BY <1>10, <2>1, <2>2, <2>4, <3>2
  <2> QED BY <2>3, <2>4
<1>14. TranslatorOK(u)
  <2>1. x.index \in 0 .. Len(t.items) - 1 /\ x.type # "item.added"
    BY <1>2, <1>11
  <2> QED BY <1>1, <1>10, <1>11, <1>12, <1>13, <2>1, Grows
<1>15. Open(u)
  <2>1. x.type \notin {"item.done", "completed"}
    BY <1>11
  <2> QED BY <1>1, <1>10, <2>1, StaysOpen
<1>16. u.items \in Seq(Items)
  BY <1>14, TranslatorFacts
<1>17. ASSUME NEW y PROVE y \in Texts(u) <=> y \in X \cup {n}
  <2>1. PICK text \in Seq(Nat), l \in Nat : text = t.items[i].text /\ l = Len(text)
    <3>1. PICK text \in Seq(Nat) : text = t.items[i].text
      BY <1>2, Zenon
    <3>2. Len(text) \in Nat
      OBVIOUS
    <3> QED BY <3>1, <3>2
  <2>2. PICK long : long = Append(text, n)
    OBVIOUS
  <2>3. /\ u.items[i].text = long /\ Len(long) = l + 1 /\ long[l + 1] = n
        /\ \A m \in 1 .. l : long[m] = text[m]
    BY <1>10, <2>1, <2>2
  <2>4. y \in X <=> \E j \in 1 .. Len(t.items) : \E m \in 1 .. Len(t.items[j].text) :
                       t.items[j].text[m] = y
    BY <1>1, <1>2, TextsFacts
  <2>5. y \in Texts(u) <=> \E j \in 1 .. Len(t.items) : \E m \in 1 .. Len(u.items[j].text) :
                       u.items[j].text[m] = y
    <3>1. y \in Texts(u) <=> \E j \in 1 .. Len(u.items) : \E m \in 1 .. Len(u.items[j].text) :
                       u.items[j].text[m] = y
      BY <1>16, TextsFacts
    <3> QED BY <1>10, <3>1
  <2>6. (\E m \in 1 .. l + 1 : long[m] = y) <=> (\E m \in 1 .. l : text[m] = y) \/ y = n
    <3>1. ASSUME NEW m \in 1 .. l + 1, long[m] = y PROVE (\E k \in 1 .. l : text[k] = y) \/ y = n
      <4>1. m = l + 1 \/ m \in 1 .. l
        OBVIOUS
      <4> QED BY <2>3, <3>1, <4>1, Zenon
    <3>2. ASSUME NEW m \in 1 .. l, text[m] = y PROVE \E k \in 1 .. l + 1 : long[k] = y
      <4>1. m \in 1 .. l + 1
        OBVIOUS
      <4> QED BY <2>3, <3>2, <4>1, Zenon
    <3>3. ASSUME y = n PROVE \E k \in 1 .. l + 1 : long[k] = y
      <4>1. l + 1 \in 1 .. l + 1
        OBVIOUS
      <4> QED BY <2>3, <3>3, <4>1, Zenon
    <3> QED BY <3>1, <3>2, <3>3
  <2>7. (\E m \in 1 .. Len(u.items[i].text) : u.items[i].text[m] = y) <=>
           (\E m \in 1 .. Len(t.items[i].text) : t.items[i].text[m] = y) \/ y = n
    BY <2>1, <2>3, <2>6
  <2>8. \A j \in 1 .. Len(t.items) : j # i =>
           ((\E m \in 1 .. Len(u.items[j].text) : u.items[j].text[m] = y) <=>
            (\E m \in 1 .. Len(t.items[j].text) : t.items[j].text[m] = y))
    BY <1>10
  <2> QED BY <2>4, <2>5, <2>7, <2>8, Zenon
<1>18. Texts(u) = X \cup {n}
  BY <1>17
<1> QED BY <1>7, <1>14, <1>15, <1>18 DEF Hears

(* The keys with one more item, which is a tool call or is not.            *)
LEMMA MoreKeys ==
    ASSUME NEW t, KeysOK(t), t.items \in Seq(Items), t._tool_order \in Seq(Int),
           NEW key \in Int, \A i \in 1 .. Len(t.items) : t.items[i].key # key,
           NEW u, Len(u.items) = Len(t.items) + 1, u.items[Len(t.items) + 1].key = key,
           \A i \in 1 .. Len(t.items) : u.items[i] = t.items[i],
           \/ key \in {-2, -1} /\ u._tool_order = t._tool_order
           \/ key \notin {-2, -1} /\ u._tool_order = Append(t._tool_order, key)
    PROVE  KeysOK(u)
<1>1. PICK n \in Nat, l \in Nat : n = Len(t.items) /\ l = Len(t._tool_order)
  OBVIOUS
<1>2. PICK old, new : /\ old = {t.items[i].key : i \in 1 .. n}
                      /\ new = {u.items[i].key : i \in 1 .. n + 1}
  OBVIOUS
<1>3. /\ \A i, j \in 1 .. n : t.items[i].key = t.items[j].key => i = j
      /\ \A i \in 1 .. n : u.items[i].key = t.items[i].key /\ t.items[i].key # key
      /\ u.items[n + 1].key = key /\ Len(u.items) = n + 1
  BY <1>1 DEF KeysOK
<1>4. ASSUME NEW i \in 1 .. n + 1, NEW j \in 1 .. n + 1, u.items[i].key = u.items[j].key
      PROVE  i = j
  <2>1. (i = n + 1 \/ i \in 1 .. n) /\ (j = n + 1 \/ j \in 1 .. n)
    OBVIOUS
  <2> QED BY <1>3, <1>4, <2>1, Zenon
<1>5. new = old \cup {key}
  <2>1. ASSUME NEW y PROVE y \in new <=> y \in old \cup {key}
    <3>1. ASSUME NEW i \in 1 .. n + 1, y = u.items[i].key PROVE y \in old \cup {key}
      <4>1. i = n + 1 \/ i \in 1 .. n
        OBVIOUS
      <4> QED BY <1>2, <1>3, <3>1, <4>1, Zenon
    <3>2. ASSUME NEW i \in 1 .. n, y = t.items[i].key PROVE y \in new
      <4>1. i \in 1 .. n + 1
        OBVIOUS
      <4> QED BY <1>2, <1>3, <3>2, <4>1, Zenon
    <3>3. key \in new
      <4>1. n + 1 \in 1 .. n + 1
        OBVIOUS
      <4> QED BY <1>2, <1>3, <4>1, Zenon
    <3> QED BY <1>2, <3>1, <3>2, <3>3, Zenon
  <2> QED BY <2>1
<1>6. key \notin old
  BY <1>2, <1>3
<1>7. /\ \A a, b \in 1 .. l : t._tool_order[a] = t._tool_order[b] => a = b
      /\ {t._tool_order[m] : m \in 1 .. l} = old \ {-2, -1}
  BY <1>1, <1>2 DEF KeysOK
<1>8. PICK k : k = Len(u._tool_order)
  OBVIOUS
<1>9. /\ \A a, b \in 1 .. k : u._tool_order[a] = u._tool_order[b] => a = b
      /\ {u._tool_order[m] : m \in 1 .. k} = new \ {-2, -1}
  <2>1. CASE key \in {-2, -1} /\ u._tool_order = t._tool_order
    BY <1>1, <1>5, <1>7, <1>8, <2>1
  <2>2. CASE key \notin {-2, -1} /\ u._tool_order = Append(t._tool_order, key)
    <3>1. /\ k = l + 1 /\ u._tool_order[l + 1] = key
          /\ \A m \in 1 .. l : u._tool_order[m] = t._tool_order[m]
      BY <1>1, <1>8, <2>2
    <3>2. \A m \in 1 .. l : t._tool_order[m] \in old
      BY <1>7
    <3>3. ASSUME NEW a \in 1 .. k, NEW b \in 1 .. k, u._tool_order[a] = u._tool_order[b]
          PROVE  a = b
      <4>1. (a = l + 1 \/ a \in 1 .. l) /\ (b = l + 1 \/ b \in 1 .. l)
        BY <3>1
      <4>2. \A m \in 1 .. l : u._tool_order[m] \in old /\ u._tool_order[m] # key
        BY <1>6, <3>1, <3>2, Zenon
      <4>3. CASE a \in 1 .. l /\ b \in 1 .. l
        <5>1. t._tool_order[a] = t._tool_order[b]
          BY <3>1, <3>3, <4>3, Zenon
        <5> QED BY <1>7, <4>3, <5>1, Zenon
      <4> QED BY <3>1, <3>3, <4>1, <4>2, <4>3, Zenon
    <3>4. {u._tool_order[m] : m \in 1 .. l + 1} = {t._tool_order[m] : m \in 1 .. l} \cup {key}
      <4>1. ASSUME NEW m \in 1 .. l + 1
            PROVE  u._tool_order[m] \in {t._tool_order[j] : j \in 1 .. l} \cup {key}
        <5>1. m = l + 1 \/ m \in 1 .. l
          OBVIOUS
        <5> QED BY <3>1, <5>1, Zenon
      <4>2. ASSUME NEW m \in 1 .. l
            PROVE  t._tool_order[m] \in {u._tool_order[j] : j \in 1 .. l + 1}
        <5>1. m \in 1 .. l + 1
          OBVIOUS
        <5> QED BY <3>1, <5>1, Zenon
      <4>3. key \in {u._tool_order[j] : j \in 1 .. l + 1}
        <5>1. l + 1 \in 1 .. l + 1
          OBVIOUS
        <5> QED BY <3>1, <5>1, Zenon
      <4> QED BY <4>1, <4>2, <4>3, Zenon
    <3>5. new \ {-2, -1} = (old \ {-2, -1}) \cup {key}
      BY <1>5, <2>2
    <3> QED BY <1>7, <3>1, <3>3, <3>4, <3>5, Zenon
  <2> QED BY <2>1, <2>2
<1>10. \A i, j \in 1 .. Len(u.items) : u.items[i].key = u.items[j].key => i = j
  BY <1>3, <1>4
<1>11. {u.items[i].key : i \in 1 .. Len(u.items)} = new
  BY <1>2, <1>3
<1>12. /\ \A a, b \in 1 .. Len(u._tool_order) : u._tool_order[a] = u._tool_order[b] => a = b
       /\ {u._tool_order[m] : m \in 1 .. Len(u._tool_order)} =
             {u.items[i].key : i \in 1 .. Len(u.items)} \ {-2, -1}
  BY <1>8, <1>9, <1>11
<1> QED BY <1>10, <1>12, Zenon DEF KeysOK

(* s has one more item than t.                                             *)
Extended(t, s, key, order) ==
    /\ s \in Translators /\ s.seq = t.seq /\ s.frames = t.frames /\ s._tool_order = order
    /\ s.completed = t.completed
    /\ Len(s.items) = Len(t.items) + 1
    /\ s.items[Len(t.items) + 1] = [key |-> key, text |-> <<>>]
    /\ \A i \in 1 .. Len(t.items) : s.items[i] = t.items[i]

(* open appends an empty item behind those that are there.                 *)
LEMMA ExtendFacts ==
    ASSUME NEW t \in Translators, NEW key \in Int, NEW order \in Seq(Int), NEW v, NEW s,
           v = [t EXCEPT !._tool_order = order],
           s = [v EXCEPT !.items = Append(@, [key |-> key, text |-> <<>>])]
    PROVE  Extended(t, s, key, order) /\ Len(v.items) = Len(t.items)
<1>1. PICK items \in Seq(Items) : items = t.items
  BY DEF Translators, Items
<1>2. PICK it : it = [key |-> key, text |-> <<>>]
  OBVIOUS
<1>3. it \in Items
  BY <1>2 DEF Items
<1>4. PICK long : long = Append(items, it)
  OBVIOUS
<1>5. /\ long \in Seq(Items) /\ Len(long) = Len(items) + 1 /\ long[Len(items) + 1] = it
      /\ \A i \in 1 .. Len(items) : long[i] = items[i]
  BY <1>3, <1>4
<1>6. /\ v \in Translators /\ v.seq = t.seq /\ v.frames = t.frames /\ v.items = items
      /\ v._tool_order = order /\ v.completed = t.completed
  BY <1>1 DEF Translators
<1>7. s = [v EXCEPT !.items = long]
  BY <1>2, <1>4, <1>6
<1>8. /\ s \in Translators /\ s.seq = t.seq /\ s.frames = t.frames /\ s.items = long
      /\ s._tool_order = order /\ s.completed = t.completed
  BY <1>5, <1>6, <1>7 DEF Translators, Items
<1> QED BY <1>1, <1>2, <1>5, <1>6, <1>8 DEF Extended

(* A new item, the stream being open.                                      *)
LEMMA OpenKeeps ==
    ASSUME NEW t, NEW X, Hears(t, X), NEW key \in Int, ~opened(t, key), NEW order,
           \/ key \in {-2, -1} /\ order = t._tool_order
           \/ key \notin {-2, -1} /\ order = Append(t._tool_order, key)
    PROVE  /\ Hears(open([t EXCEPT !._tool_order = order], key), X)
           /\ opened(open([t EXCEPT !._tool_order = order], key), key)
<1>1. TranslatorOK(t) /\ Open(t) /\ Texts(t) = X
  BY DEF Hears
<1>2. /\ t \in Translators /\ t.seq = Len(t.frames) /\ t.frames \in Seq(ResponseFrames)
      /\ t.items \in Seq(Items) /\ Len(t.items) \in Nat /\ KeysOK(t)
      /\ t._tool_order \in Seq(Int) /\ Growing(t.frames) /\ Added(t.frames) = Len(t.items)
      /\ \A j \in 1 .. Len(t.items) : Spells(t.items[j].text, t.frames, j - 1)
  BY <1>1, TranslatorFacts
<1>3. PICK v : v = [t EXCEPT !._tool_order = order]
  OBVIOUS
<1>4. PICK s : s = [v EXCEPT !.items = Append(@, [key |-> key, text |-> <<>>])]
  OBVIOUS
<1>5. order \in Seq(Int)
  <2>1. Append(t._tool_order, key) \in Seq(Int)
    BY <1>2
  <2> QED BY <1>2, <2>1
<1>6. Extended(t, s, key, order) /\ Len(v.items) = Len(t.items)
  BY <1>2, <1>3, <1>4, <1>5, ExtendFacts
<1>7. PICK n \in Nat : n = Len(t.items)
  BY <1>2
<1>8. PICK u : u = _emit(s, "item.added", n, <<>>)
  OBVIOUS
<1>9. u = open(v, key)
  BY <1>4, <1>6, <1>7, <1>8 DEF open
<1>10. Emitted(s, u, "item.added", n, <<>>)
  <2>1. s \in Translators /\ s.seq = Len(s.frames)
    BY <1>2, <1>6 DEF Extended
  <2>2. "item.added" \in FrameTypes /\ n \in Int /\ <<>> \in Seq(Nat)
    BY DEF FrameTypes
  <2> QED BY <1>8, <2>1, <2>2, EmitFacts
<1>11. PICK x : x = Frame(Len(t.frames), "item.added", n, <<>>)
  OBVIOUS
<1>12. /\ u \in Translators /\ u.seq = Len(u.frames) /\ u._tool_order = order
       /\ u.completed = t.completed /\ Longer(t.frames, x, u.frames)
       /\ u.items = s.items /\ Len(u.items) = n + 1 /\ u.items[n + 1] = [key |-> key, text |-> <<>>]
       /\ \A i \in 1 .. n : u.items[i] = t.items[i]
  BY <1>6, <1>7, <1>10, <1>11 DEF Emitted, Extended
<1>13. x.n = Len(t.frames) /\ x.type = "item.added" /\ x.index = n
  BY <1>11 DEF Frame
<1>14. u.items[n + 1].key = key /\ u.items[n + 1].text = <<>>
  BY <1>12
<1>15. \A i \in 1 .. n : t.items[i].key # key
  BY <1>2, <1>7 DEF opened
<1>16. KeysOK(u)
  BY <1>2, <1>7, <1>12, <1>14, <1>15, MoreKeys
<1>17. ASSUME NEW i \in 1 .. Len(u.items) PROVE Spells(u.items[i].text, u.frames, i - 1)
  <2>1. ~ (x.type = "delta" /\ x.index = i - 1)
    BY <1>13
  <2>2. CASE i \in 1 .. n
    <3>1. Spells(t.items[i].text, t.frames, i - 1)
      BY <1>2, <1>7, <2>2
    <3>2. Spells(t.items[i].text, u.frames, i - 1)
      BY <1>2, <1>12, <2>1, <3>1, SpellsKept
    <3> QED BY <1>12, <2>2, <3>2
  <2>3. CASE i = n + 1
    <3>1. n \notin 0 .. Added(t.frames) - 1
      BY <1>2, <1>7
    <3>2. Spells(<<>>, t.frames, n)
      BY <1>2, <3>1, SpellsNothing
    <3>3. i - 1 = n
      BY <2>3
    <3>4. Spells(<<>>, u.frames, i - 1)
      <4>1. Spells(<<>>, t.frames, i - 1)
        BY <3>2, <3>3
      <4> QED BY <1>2, <1>12, <2>1, <4>1, SpellsKept
    <3> QED BY <1>14, <2>3, <3>4
  <2>4. i \in 1 .. n \/ i = n + 1
    BY <1>12
  <2> QED BY <2>2, <2>3, <2>4
<1>18. TranslatorOK(u)
  BY <1>1, <1>7, <1>12, <1>13, <1>16, <1>17, Grows
<1>19. Open(u)
  <2>1. x.type \notin {"item.done", "completed"}
    BY <1>13
  <2> QED BY <1>1, <1>12, <2>1, StaysOpen
<1>20. u.items \in Seq(Items)
  BY <1>18, TranslatorFacts
<1>21. ASSUME NEW y PROVE y \in Texts(u) <=> y \in X
  <2>1. y \in X <=> \E j \in 1 .. n : \E m \in 1 .. Len(t.items[j].text) : t.items[j].text[m] = y
    <3>1. y \in Texts(t) <=> \E j \in 1 .. Len(t.items) : \E m \in 1 .. Len(t.items[j].text) :
                              t.items[j].text[m] = y
      <4>1. t.items \in Seq(Items)
        BY <1>2
      <4> QED BY <4>1, TextsFacts
    <3> QED BY <1>1, <1>7, <3>1
  <2>2. y \in Texts(u) <=> \E j \in 1 .. n + 1 : \E m \in 1 .. Len(u.items[j].text) :
                              u.items[j].text[m] = y
    <3>1. y \in Texts(u) <=> \E j \in 1 .. Len(u.items) : \E m \in 1 .. Len(u.items[j].text) :
                              u.items[j].text[m] = y
      BY <1>20, TextsFacts
    <3> QED BY <1>12, <3>1
  <2>3. ~ \E m \in 1 .. Len(u.items[n + 1].text) : u.items[n + 1].text[m] = y
    <3>1. Len(<<>>) = 0 /\ 1 .. 0 = {}
      OBVIOUS
    <3> QED BY <1>14, <3>1
  <2>4. \A j \in 1 .. n : (\E m \in 1 .. Len(u.items[j].text) : u.items[j].text[m] = y) <=>
                           (\E m \in 1 .. Len(t.items[j].text) : t.items[j].text[m] = y)
    BY <1>12
  <2>5. \A j : j \in 1 .. n + 1 <=> j \in 1 .. n \/ j = n + 1
    OBVIOUS
  <2> QED BY <2>1, <2>2, <2>3, <2>4, <2>5, Zenon
<1>22. Texts(u) = X
  BY <1>21
<1>23. opened(u, key)
  <2>1. n + 1 \in DOMAIN u.items
    BY <1>12, <1>20
  <2> QED BY <1>14, <2>1, Zenon DEF opened
<1> QED BY <1>3, <1>9, <1>18, <1>19, <1>22, <1>23 DEF Hears

(* A part is added, which no item shows.                                   *)
LEMMA EmitHears ==
    ASSUME NEW t, NEW X, Hears(t, X), NEW type \in FrameTypes,
           type \notin {"item.added", "delta", "item.done", "completed"},
           NEW index \in Int, NEW text \in Seq(Nat)
    PROVE  /\ Hears(_emit(t, type, index, text), X)
           /\ \A key : opened(t, key) => opened(_emit(t, type, index, text), key)
<1>1. TranslatorOK(t) /\ Open(t) /\ Texts(t) = X
  BY DEF Hears
<1>2. t \in Translators /\ t.seq = Len(t.frames)
  BY <1>1, TranslatorFacts
<1>3. PICK u : u = _emit(t, type, index, text)
  OBVIOUS
<1>4. Emitted(t, u, type, index, text)
  BY <1>2, <1>3, EmitFacts
<1>5. TranslatorOK(u)
  BY <1>1, <1>4, EmitKeeps
<1>6. Open(u)
  <2>1. PICK x : x = Frame(Len(t.frames), type, index, text)
    OBVIOUS
  <2>2. x.type \notin {"item.done", "completed"}
    BY <2>1 DEF Frame
  <2> QED BY <1>1, <1>4, <2>1, <2>2, StaysOpen DEF Emitted
<1>7. u.items = t.items
  BY <1>4 DEF Emitted
<1>8. Texts(u) = X /\ \A key : opened(t, key) => opened(u, key)
  BY <1>1, <1>7 DEF Texts, opened
<1> QED BY <1>3, <1>5, <1>6, <1>8 DEF Hears

(* _ensure_reasoning and _ensure_message.                                  *)
LEMMA EnsureKeeps ==
    ASSUME NEW t, NEW X, Hears(t, X), NEW key \in {-2, -1}
    PROVE  Hears(ensure(t, key), X) /\ opened(ensure(t, key), key)
<1>1. CASE opened(t, key)
  BY <1>1 DEF ensure
<1>2. CASE ~opened(t, key)
  <2>1. t \in Translators /\ Len(t.items) \in Nat
    BY TranslatorFacts DEF Hears
  <2>2. t = [t EXCEPT !._tool_order = t._tool_order]
    BY <2>1 DEF Translators
  <2>3. PICK u : u = open(t, key)
    OBVIOUS
  <2>4. Hears(u, X) /\ opened(u, key)
    <3>1. key \in Int
      OBVIOUS
    <3>2. PICK order : order = t._tool_order
      OBVIOUS
    <3>3. PICK v : v = [t EXCEPT !._tool_order = order]
      OBVIOUS
    <3>4. Hears(open(v, key), X) /\ opened(open(v, key), key)
      BY <1>2, <3>1, <3>2, <3>3, OpenKeeps
    <3>5. v = t
      BY <2>2, <3>2, <3>3
    <3> QED BY <2>3, <3>4, <3>5
  <2>5. PICK n \in Int : n = Len(t.items)
    BY <2>1
  <2>6. "part.added" \in FrameTypes /\ <<>> \in Seq(Nat)
    BY DEF FrameTypes
  <2>7. /\ Hears(_emit(u, "part.added", n, <<>>), X)
        /\ opened(_emit(u, "part.added", n, <<>>), key)
    BY <2>4, <2>6, EmitHears
  <2> QED BY <1>2, <2>3, <2>5, <2>7 DEF ensure
<1> QED BY <1>1, <1>2

(* _ensure_tool_call.                                                      *)
LEMMA EnsureToolKeeps ==
    ASSUME NEW t, NEW X, Hears(t, X), NEW key \in Nat
    PROVE  Hears(_ensure_tool_call(t, key), X) /\ opened(_ensure_tool_call(t, key), key)
<1>1. CASE opened(t, key)
  BY <1>1 DEF _ensure_tool_call
<1>2. CASE ~opened(t, key)
  <2>1. PICK order : order = Append(t._tool_order, key)
    OBVIOUS
  <2>2. PICK v : v = [t EXCEPT !._tool_order = order]
    OBVIOUS
  <2>3. key \in Int /\ key \notin {-2, -1}
    OBVIOUS
  <2>4. Hears(open(v, key), X) /\ opened(open(v, key), key)
    BY <1>2, <2>1, <2>2, <2>3, OpenKeeps
  <2>5. v = [t EXCEPT !._tool_order = Append(@, key)]
    BY <2>1, <2>2
  <2>6. _ensure_tool_call(t, key) = open(v, key)
    BY <1>2, <2>5 DEF _ensure_tool_call
  <2> QED BY <2>4, <2>6
<1> QED BY <1>1, <1>2

(* An event more, unless it is [DONE], which changes nothing.              *)
Fed(t, X, e, n) ==
    Hears(feed(t, e, n), IF e = "done" THEN X ELSE X \cup {n})

(* feed keeps the translator well formed and hears the event.              *)
LEMMA FeedKeeps ==
    ASSUME NEW t, NEW X, Hears(t, X), NEW e \in Events, NEW n \in Nat
    PROVE  Fed(t, X, e, n)
<1> DEFINE Y == X \cup {n}
<1>1. PICK a, b : a = feed_reasoning(t, e, n) /\ b = feed_content(a, e, n)
  OBVIOUS
<1>2. feed(t, e, n) = feed_tool_calls(b, e, n)
  BY <1>1 DEF feed
<1>3. IF e \in {"think", "both"} THEN Hears(a, Y) ELSE a = t
  <2>1. CASE e \in {"think", "both"}
    <3>1. PICK s : s = ensure(t, -2)
      OBVIOUS
    <3>2. Hears(s, X) /\ opened(s, -2)
      <4>1. -2 \in {-2, -1}
        OBVIOUS
      <4> QED BY <3>1, <4>1, EnsureKeeps
    <3>3. Hears(delta(s, -2, n), Y)
      BY <3>2, DeltaKeeps
    <3>4. a = delta(s, -2, n)
      BY <1>1, <2>1, <3>1 DEF feed_reasoning, _ensure_reasoning
    <3> QED BY <2>1, <3>3, <3>4
  <2>2. CASE e \notin {"think", "both"}
    BY <1>1, <2>2 DEF feed_reasoning
  <2> QED BY <2>1, <2>2
<1>4. PICK Z : Z = IF e \in {"think", "both"} THEN Y ELSE X
  OBVIOUS
<1>5. Hears(a, Z) /\ Z \cup {n} = Y
  BY <1>3, <1>4
<1>6. IF e \in {"text", "both"} THEN Hears(b, Y) ELSE b = a
  <2>1. CASE e \in {"text", "both"}
    <3>1. PICK s : s = ensure(a, -1)
      OBVIOUS
    <3>2. Hears(s, Z) /\ opened(s, -1)
      <4>1. -1 \in {-2, -1}
        OBVIOUS
      <4> QED BY <1>5, <3>1, <4>1, EnsureKeeps
    <3>3. Hears(delta(s, -1, n), Z \cup {n})
      BY <3>2, DeltaKeeps
    <3>4. b = delta(s, -1, n)
      BY <1>1, <2>1, <3>1 DEF feed_content, _ensure_message
    <3> QED BY <1>5, <2>1, <3>3, <3>4
  <2>2. CASE e \notin {"text", "both"}
    BY <1>1, <2>2 DEF feed_content
  <2> QED BY <2>1, <2>2
<1>7. CASE e \in {"call", "callx"}
  <2>1. b = t /\ e # "done"
    BY <1>3, <1>6, <1>7
  <2>2. PICK key : key = IF e = "call" THEN 0 ELSE Len(b._tool_order)
    OBVIOUS
  <2>3. key \in Nat
    <3>1. b._tool_order \in Seq(Int)
      BY <2>1, TranslatorFacts DEF Hears
    <3> QED BY <2>2, <3>1
  <2>4. PICK s : s = _ensure_tool_call(b, key)
    OBVIOUS
  <2>5. Hears(s, X) /\ opened(s, key)
    BY <2>1, <2>3, <2>4, EnsureToolKeeps
  <2>6. Hears(delta(s, key, n), Y)
    BY <2>5, DeltaKeeps
  <2>7. feed(t, e, n) = delta(s, key, n)
    BY <1>2, <1>7, <2>2, <2>4 DEF feed_tool_calls
  <2> QED BY <2>1, <2>6, <2>7 DEF Fed
<1>8. CASE e \notin {"call", "callx"}
  <2>1. feed(t, e, n) = b
    BY <1>2, <1>8 DEF feed_tool_calls
  <2>2. CASE e = "done"
    <3>1. b = t
      BY <1>3, <1>6, <2>2
    <3> QED BY <2>1, <2>2, <3>1 DEF Fed
  <2>3. CASE e \in {"think", "text", "both"}
    <3>1. Hears(b, Y)
      BY <1>3, <1>6, <2>3
    <3> QED BY <2>1, <2>3, <3>1 DEF Fed
  <2> QED BY <1>8, <2>2, <2>3 DEF Events
<1> QED BY <1>7, <1>8

FedOnce(u, frame, m) == IF Readable(frame) THEN feed(u, frame[1][1], m) ELSE u

(* f is the translator behind each of the frames.                          *)
Feeding(f, t, fs, n) ==
    /\ f[0] = t
    /\ \A k \in 1 .. Len(fs) : f[k] = FedOnce(f[k - 1], fs[k], n + k)

OpenTranslators == {u \in Translators : TranslatorOK(u) /\ Open(u)}

(* A frame of the chat stream is fed to an open translator.                *)
LEMMA FedOnceKeeps ==
    ASSUME NEW u, NEW X, Hears(u, X), NEW frame, frame[1][1] \in Events, NEW m \in Nat
    PROVE  Hears(FedOnce(u, frame, m),
                 IF Readable(frame) /\ frame[1][1] # "done" THEN X \cup {m} ELSE X)
<1>1. PICK e \in Events : e = frame[1][1]
  OBVIOUS
<1>2. CASE Readable(frame)
  <2>1. Fed(u, X, e, m)
    BY FeedKeeps
  <2>2. FedOnce(u, frame, m) = feed(u, e, m)
    BY <1>1, <1>2 DEF FedOnce
  <2>3. Hears(feed(u, e, m), IF e = "done" THEN X ELSE X \cup {m})
    BY <2>1 DEF Fed
  <2> QED BY <1>1, <1>2, <2>2, <2>3
<1>3. CASE ~Readable(frame)
  BY <1>3 DEF FedOnce
<1> QED BY <1>2, <1>3

(* Feed(t, fs, n) is the last of the translators behind the frames.        *)
LEMMA FeedsExist ==
    ASSUME NEW t, NEW X, Hears(t, X), NEW n \in Nat, NEW fs, Len(fs) \in Nat,
           \A k \in 1 .. Len(fs) : fs[k][1][1] \in Events
    PROVE  \E f : Feeding(f, t, fs, n) /\ Feed(t, fs, n) = f[Len(fs)]
<1> DEFINE Body(f) == [k \in 0 .. Len(fs) |->
                         IF k = 0 THEN t
                         ELSE IF Readable(fs[k]) THEN feed(f[k - 1], fs[k][1][1], n + k)
                              ELSE f[k - 1]]
<1>1. PICK N \in Nat : N = Len(fs)
  OBVIOUS
<1>2. PICK S : S = OpenTranslators
  OBVIOUS
<1>3. \A u : u \in S <=> Hears(u, Texts(u))
  BY <1>2, TranslatorFacts DEF Hears, OpenTranslators
<1>4. t \in S
  BY <1>3 DEF Hears
<1>5. PICK G : G = [k \in 1 .. N |-> [u \in S |-> FedOnce(u, fs[k], n + k)]]
  OBVIOUS
<1>6. ASSUME NEW k \in 1 .. N, NEW u \in S PROVE FedOnce(u, fs[k], n + k) \in S
  <2>1. PICK frame, m : frame = fs[k] /\ m = n + k /\ m \in Nat
    OBVIOUS
  <2>2. PICK Y : Hears(FedOnce(u, frame, m), Y)
    <3>1. Hears(u, Texts(u)) /\ frame[1][1] \in Events
      BY <1>1, <1>3, <2>1
    <3> QED BY <2>1, <3>1, FedOnceKeeps
  <2>3. FedOnce(u, frame, m) \in S
    BY <1>3, <2>2 DEF Hears
  <2> QED BY <2>1, <2>3
<1>7. G \in [1 .. N -> [S -> S]]
  BY <1>5, <1>6
<1>8. PICK f : Iterated(f, S, G, t, N)
  BY <1>4, <1>7, Iterates
<1>9. ASSUME NEW k \in 1 .. N PROVE f[k] = FedOnce(f[k - 1], fs[k], n + k)
  <2>1. k - 1 \in 0 .. N
    OBVIOUS
  <2>2. f[k - 1] \in S /\ f[k] = G[k][f[k - 1]]
    BY <1>8, <2>1 DEF Iterated
  <2> QED BY <1>5, <2>2
<1>10. f = [k \in 0 .. N |-> f[k]] /\ f[0] = t
  BY <1>8 DEF Iterated
<1>11. f = Body(f)
  <2>1. ASSUME NEW k \in 0 .. N
        PROVE  f[k] = IF k = 0 THEN t
                      ELSE IF Readable(fs[k]) THEN feed(f[k - 1], fs[k][1][1], n + k)
                           ELSE f[k - 1]
    <3>1. CASE k = 0
      BY <1>10, <3>1
    <3>2. CASE k # 0
      <4>1. k \in 1 .. N
        BY <3>2
      <4>2. f[k] = FedOnce(f[k - 1], fs[k], n + k)
        BY <1>9, <4>1
      <4> QED BY <3>2, <4>2, Zenon DEF FedOnce
    <3> QED BY <3>1, <3>2
  <2> QED BY <1>1, <1>10, <2>1
<1>12. PICK g : g = CHOOSE h : h = Body(h)
  OBVIOUS
<1>13. g = Body(g)
  <2> HIDE DEF Body
  <2> QED BY <1>11, <1>12
<1>14. Feed(t, fs, n) = g[Len(fs)]
  BY <1>12, Zenon DEF Feed
<1>15. Feeding(g, t, fs, n)
  <2>1. g[0] = t
    <3>1. 0 \in 0 .. Len(fs)
      BY <1>1
    <3> QED BY <1>13, <3>1
  <2>2. ASSUME NEW k \in 1 .. Len(fs) PROVE g[k] = FedOnce(g[k - 1], fs[k], n + k)
    <3>1. k \in 0 .. Len(fs) /\ k # 0
      BY <1>1
    <3>2. g[k] = Body(g)[k]
      BY <1>13, Zenon
    <3>3. Body(g)[k] = IF Readable(fs[k]) THEN feed(g[k - 1], fs[k][1][1], n + k)
                       ELSE g[k - 1]
      BY <3>1, Zenon
    <3> QED BY <3>2, <3>3, Zenon DEF FedOnce
  <2> QED BY <2>1, <2>2 DEF Feeding
<1> QED BY <1>14, <1>15

(* The events that the first k frames bring.                               *)
Brought(fs, n, k) ==
    {n + j : j \in {j \in 1 .. k : Readable(fs[j]) /\ fs[j][1][1] # "done"}}

(* Feed hears the readable events of the frames of a buffer.               *)
LEMMA FeedHears ==
    ASSUME NEW t, NEW X, Hears(t, X), NEW n \in Nat, NEW fs, Len(fs) \in Nat,
           \A k \in 1 .. Len(fs) : fs[k][1][1] \in Events
    PROVE  Hears(Feed(t, fs, n), X \cup Brought(fs, n, Len(fs)))
<1>1. PICK f : Feeding(f, t, fs, n) /\ Feed(t, fs, n) = f[Len(fs)]
  BY FeedsExist
<1>2. PICK N \in Nat : N = Len(fs)
  OBVIOUS
<1> DEFINE B == {k \in 0 .. N : Hears(f[k], X \cup Brought(fs, n, k))}
<1>3. 0 \in B
  <2>1. Brought(fs, n, 0) = {}
    BY DEF Brought
  <2>2. X \cup {} = X /\ f[0] = t /\ 0 \in 0 .. N
    BY <1>1 DEF Feeding
  <2>3. Hears(f[0], X \cup Brought(fs, n, 0))
    BY <2>1, <2>2, Zenon
  <2> QED BY <2>2, <2>3
<1>4. ASSUME NEW k \in 1 .. N, k - 1 \in B PROVE k \in B
  <2>1. PICK u, Y : u = f[k - 1] /\ Y = X \cup Brought(fs, n, k - 1)
    OBVIOUS
  <2>2. Hears(u, Y)
    BY <1>4, <2>1
  <2>3. PICK frame, m : frame = fs[k] /\ m = n + k /\ m \in Nat
    OBVIOUS
  <2>4. frame[1][1] \in Events
    BY <1>2, <2>3
  <2>5. PICK Z : Z = IF Readable(frame) /\ frame[1][1] # "done" THEN Y \cup {m} ELSE Y
    OBVIOUS
  <2>6. Hears(FedOnce(u, frame, m), Z)
    BY <2>2, <2>3, <2>4, <2>5, FedOnceKeeps
  <2>7. f[k] = FedOnce(u, frame, m)
    BY <1>1, <1>2, <2>1, <2>3 DEF Feeding
  <2>8. \A j : j \in 1 .. k <=> j \in 1 .. k - 1 \/ j = k
    OBVIOUS
  <2>9. Z = X \cup Brought(fs, n, k)
    BY <2>1, <2>3, <2>5, <2>8, Zenon DEF Brought
  <2> QED BY <2>6, <2>7, <2>9
<1>5. \A k \in 0 .. N : k \in B
  <2>1. 0 \in B /\ \A k \in 1 .. N : k - 1 \in B => k \in B
    BY <1>3, <1>4
  <2> HIDE DEF B
  <2> QED BY <2>1, UpTo
<1>6. N \in B
  <2>1. N \in 0 .. N
    OBVIOUS
  <2> HIDE DEF B
  <2> QED BY <1>5, <2>1
<1> QED BY <1>1, <1>2, <1>6

-----------------------------------------------------------------------------
(* The translator finishes.                                                *)

(* The item of an index was closed once, with its text, behind its deltas. *)
DoneOnce(f, index, text) ==
    \E j \in OfType(f, "item.done") :
       /\ \A l \in OfType(f, "item.done") : f[l].index = index <=> l = j
       /\ f[j].text = text
       /\ \A d \in OfType(f, "delta") : f[d].index = index => d < j

(* A frame more does not open a closed item again.                         *)
LEMMA DoneKept ==
    ASSUME NEW f \in Seq(ResponseFrames), NEW x, NEW g, Longer(f, x, g), x.type # "delta",
           NEW index, ~ (x.type = "item.done" /\ x.index = index), NEW text,
           DoneOnce(f, index, text)
    PROVE  DoneOnce(g, index, text)
<1>1. PICK n \in Nat : n = Len(f)
  OBVIOUS
<1>2. PICK done, deltas : done = OfType(f, "item.done") /\ deltas = OfType(f, "delta")
  OBVIOUS
<1>3. PICK done2, deltas2 : done2 = OfType(g, "item.done") /\ deltas2 = OfType(g, "delta")
  OBVIOUS
<1>4. /\ done \subseteq 1 .. n /\ deltas \subseteq 1 .. n /\ deltas2 = deltas
      /\ done2 = IF x.type = "item.done" THEN done \cup {n + 1} ELSE done
  BY <1>1, <1>2, <1>3, OfTypeFacts
<1>5. g[n + 1] = x /\ \A k \in 1 .. n : g[k] = f[k]
  BY <1>1 DEF Longer
<1>6. PICK j \in done : /\ \A l \in done : f[l].index = index <=> l = j
                        /\ f[j].text = text
                        /\ \A d \in deltas : f[d].index = index => d < j
  BY <1>2 DEF DoneOnce
<1>7. j \in done2 /\ g[j].text = text
  BY <1>4, <1>5, <1>6
<1>8. ASSUME NEW l \in done2 PROVE g[l].index = index <=> l = j
  <2>1. CASE l \in done
    BY <1>4, <1>5, <1>6, <2>1
  <2>2. CASE l = n + 1 /\ x.type = "item.done"
    <3>1. l # j
      BY <1>4, <2>2
    <3> QED BY <1>5, <2>2, <3>1
  <2> QED BY <1>4, <2>1, <2>2
<1>9. \A d \in deltas2 : g[d].index = index => d < j
  BY <1>4, <1>5, <1>6
<1> QED BY <1>3, <1>7, <1>8, <1>9, Zenon DEF DoneOnce

(* A closing frame closes the item of its index.                           *)
LEMMA DoneNow ==
    ASSUME NEW f \in Seq(ResponseFrames), NEW x, NEW g, Longer(f, x, g), x.type = "item.done",
           \A l \in OfType(f, "item.done") : f[l].index # x.index
    PROVE  DoneOnce(g, x.index, x.text)
<1>1. PICK n \in Nat : n = Len(f)
  OBVIOUS
<1>2. PICK done, deltas : done = OfType(f, "item.done") /\ deltas = OfType(f, "delta")
  OBVIOUS
<1>3. PICK done2, deltas2 : done2 = OfType(g, "item.done") /\ deltas2 = OfType(g, "delta")
  OBVIOUS
<1>4. /\ done \subseteq 1 .. n /\ deltas \subseteq 1 .. n /\ deltas2 = deltas
      /\ done2 = done \cup {n + 1}
  BY <1>1, <1>2, <1>3, OfTypeFacts
<1>5. g[n + 1] = x /\ \A k \in 1 .. n : g[k] = f[k]
  BY <1>1 DEF Longer
<1>6. ASSUME NEW l \in done2 PROVE g[l].index = x.index <=> l = n + 1
  <2>1. CASE l \in done
    <3>1. l \in 1 .. n
      BY <1>4, <2>1, Zenon
    <3>2. l # n + 1
      BY <3>1
    <3>3. g[l] = f[l]
      BY <1>5, <3>1, Zenon
    <3> QED BY <1>2, <2>1, <3>2, <3>3
  <2>2. CASE l = n + 1
    BY <1>5, <2>2
  <2> QED BY <1>4, <2>1, <2>2
<1>7. n + 1 \in done2 /\ g[n + 1].text = x.text
  BY <1>4, <1>5
<1>8. \A d \in deltas2 : g[d].index = x.index => d < n + 1
  BY <1>4
<1> QED BY <1>3, <1>6, <1>7, <1>8, Zenon DEF DoneOnce

(***************************************************************************)
(* u has closed the items D of t, each once, and has not finished.         *)
(***************************************************************************)
Closing(t, u, D) ==
    /\ TranslatorOK(u) /\ u.items = t.items /\ OfType(u.frames, "completed") = {}
    /\ \A i \in D : DoneOnce(u.frames, i - 1, t.items[i].text)
    /\ \A l \in OfType(u.frames, "item.done") : \E i \in D : u.frames[l].index = i - 1

(* A frame more that closes nothing.                                       *)
LEMMA EmitClosing ==
    ASSUME NEW t, NEW u, NEW D, Closing(t, u, D), NEW type \in {"text.done", "part.done"},
           NEW index \in Int, NEW text \in Seq(Nat), NEW v, v = _emit(u, type, index, text)
    PROVE  Closing(t, v, D)
<1>1. u \in Translators /\ u.seq = Len(u.frames) /\ u.frames \in Seq(ResponseFrames)
  BY TranslatorFacts DEF Closing
<1>2. type \in FrameTypes /\ type \in FrameTypes \ {"item.added", "delta"}
  BY DEF FrameTypes
<1>3. Emitted(u, v, type, index, text)
  BY <1>1, <1>2, EmitFacts
<1>4. TranslatorOK(v) /\ v.items = t.items
  <2>1. TranslatorOK(u) /\ u.items = t.items
    BY DEF Closing
  <2>2. TranslatorOK(v)
    BY <1>2, <1>3, <2>1, EmitKeeps
  <2> QED BY <1>3, <2>1, <2>2 DEF Emitted
<1>5. PICK x : x = Frame(Len(u.frames), type, index, text)
  OBVIOUS
<1>6. Longer(u.frames, x, v.frames) /\ x.type \in {"text.done", "part.done"}
  BY <1>3, <1>5 DEF Emitted, Frame
<1>7. /\ OfType(v.frames, "completed") = OfType(u.frames, "completed")
      /\ OfType(v.frames, "item.done") = OfType(u.frames, "item.done")
      /\ OfType(u.frames, "item.done") \subseteq 1 .. Len(u.frames)
  BY <1>1, <1>6, OfTypeFacts
<1>8. ASSUME NEW i \in D PROVE DoneOnce(v.frames, i - 1, t.items[i].text)
  <2>1. DoneOnce(u.frames, i - 1, t.items[i].text)
    BY DEF Closing
  <2>2. x.type # "delta" /\ ~ (x.type = "item.done" /\ x.index = i - 1)
    BY <1>6
  <2> QED BY <1>1, <1>6, <2>1, <2>2, DoneKept
<1>9. ASSUME NEW l \in OfType(v.frames, "item.done")
      PROVE  \E i \in D : v.frames[l].index = i - 1
  <2>1. l \in OfType(u.frames, "item.done") /\ v.frames[l] = u.frames[l]
    BY <1>6, <1>7 DEF Longer
  <2> QED BY <2>1 DEF Closing
<1>10. OfType(v.frames, "completed") = {}
  BY <1>7 DEF Closing
<1> QED BY <1>4, <1>8, <1>9, <1>10 DEF Closing

(* The frame that closes an item.                                          *)
LEMMA DoneClosing ==
    ASSUME NEW t, NEW u, NEW D, D \subseteq 1 .. Len(t.items), Closing(t, u, D),
           NEW i \in 1 .. Len(t.items), i \notin D, NEW v,
           v = _emit(u, "item.done", i - 1, t.items[i].text)
    PROVE  Closing(t, v, D \cup {i})
<1>1. u \in Translators /\ u.seq = Len(u.frames) /\ u.frames \in Seq(ResponseFrames)
  BY TranslatorFacts DEF Closing
<1>2. PICK text \in Seq(Nat) : text = t.items[i].text
  BY TranslatorFacts DEF Closing
<1>3. Emitted(u, v, "item.done", i - 1, text) /\ TranslatorOK(v)
  <2>1. "item.done" \in FrameTypes /\ "item.done" \in FrameTypes \ {"item.added", "delta"}
    BY DEF FrameTypes
  <2>2. TranslatorOK(u) /\ i - 1 \in Int
    BY DEF Closing
  <2>3. v = _emit(u, "item.done", i - 1, text)
    BY <1>2
  <2>4. Emitted(u, v, "item.done", i - 1, text)
    BY <1>1, <2>1, <2>2, <2>3, EmitFacts
  <2> QED BY <2>1, <2>2, <2>4, EmitKeeps
<1>4. v.items = t.items
  BY <1>3 DEF Emitted, Closing
<1>5. PICK x : x = Frame(Len(u.frames), "item.done", i - 1, text)
  OBVIOUS
<1>6. /\ Longer(u.frames, x, v.frames) /\ x.type = "item.done" /\ x.index = i - 1
      /\ x.text = text
  BY <1>3, <1>5 DEF Emitted, Frame
<1>7. /\ OfType(v.frames, "completed") = OfType(u.frames, "completed")
      /\ OfType(v.frames, "item.done") = OfType(u.frames, "item.done") \cup {Len(u.frames) + 1}
      /\ OfType(u.frames, "item.done") \subseteq 1 .. Len(u.frames)
  BY <1>1, <1>6, OfTypeFacts
<1>8. ASSUME NEW k \in D PROVE DoneOnce(v.frames, k - 1, t.items[k].text)
  <2>1. DoneOnce(u.frames, k - 1, t.items[k].text)
    BY DEF Closing
  <2>2. x.type # "delta" /\ ~ (x.type = "item.done" /\ x.index = k - 1)
    BY <1>6
  <2> QED BY <1>1, <1>6, <2>1, <2>2, DoneKept
<1>9. DoneOnce(v.frames, i - 1, t.items[i].text)
  <2>1. ASSUME NEW l \in OfType(u.frames, "item.done") PROVE u.frames[l].index # x.index
    <3>1. PICK k \in D : u.frames[l].index = k - 1
      BY DEF Closing
    <3> QED BY <1>6, <3>1
  <2>2. DoneOnce(v.frames, x.index, x.text)
    BY <1>1, <1>6, <2>1, DoneNow
  <2> QED BY <1>2, <1>6, <2>2
<1>10. ASSUME NEW l \in OfType(v.frames, "item.done")
       PROVE  \E k \in D \cup {i} : v.frames[l].index = k - 1
  <2>1. CASE l \in OfType(u.frames, "item.done")
    <3>1. v.frames[l] = u.frames[l]
      BY <1>6, <1>7, <2>1 DEF Longer
    <3> QED BY <2>1, <3>1 DEF Closing
  <2>2. CASE l = Len(u.frames) + 1
    <3>1. v.frames[l] = x
      BY <1>6, <2>2 DEF Longer
    <3> QED BY <1>6, <3>1
  <2> QED BY <1>7, <2>1, <2>2
<1>11. OfType(v.frames, "completed") = {}
  BY <1>7 DEF Closing
<1> QED BY <1>3, <1>4, <1>8, <1>9, <1>10, <1>11 DEF Closing

(* A closing frame leaves a translator as it should be.                    *)
LEMMA DoneKeeps ==
    ASSUME NEW u, TranslatorOK(u), NEW type \in {"text.done", "part.done", "item.done"},
           NEW index \in Int, NEW text \in Seq(Nat)
    PROVE  /\ TranslatorOK(_emit(u, type, index, text))
           /\ _emit(u, type, index, text).items = u.items
<1>1. u \in Translators /\ u.seq = Len(u.frames)
  BY TranslatorFacts
<1>2. type \in FrameTypes /\ type \in FrameTypes \ {"item.added", "delta"}
  BY DEF FrameTypes
<1>3. PICK v : v = _emit(u, type, index, text)
  OBVIOUS
<1>4. Emitted(u, v, type, index, text)
  BY <1>1, <1>2, <1>3, EmitFacts
<1>5. TranslatorOK(v)
  BY <1>2, <1>4, EmitKeeps
<1> QED BY <1>3, <1>4, <1>5 DEF Emitted

(* The steps of close for an item that t opened.                           *)
ClosesAs(t, u, key, i, text, a, b) ==
    /\ i \in 1 .. Len(t.items) /\ i = item(t, key)
    /\ text \in Seq(Nat) /\ text = t.items[i].text
    /\ a = _emit(u, "text.done", i - 1, text)
    /\ b = a \/ b = _emit(a, "part.done", i - 1, text)
    /\ close(u, key) = _emit(b, "item.done", i - 1, text)

(* close sends two or three frames with the text of the item.              *)
LEMMA CloseFacts ==
    ASSUME NEW t, NEW u, TranslatorOK(u), u.items = t.items, NEW key, opened(t, key)
    PROVE  \E i, text, a, b : ClosesAs(t, u, key, i, text, a, b)
<1>1. item(u, key) = item(t, key)
  BY DEF item
<1>2. t.items \in Seq(Items)
  BY TranslatorFacts
<1>3. PICK i \in 1 .. Len(t.items) : i = item(t, key)
  BY <1>2, ItemFacts
<1>4. PICK text \in Seq(Nat) : text = t.items[i].text
  BY TranslatorFacts
<1>5. PICK a : a = _emit(u, "text.done", i - 1, text)
  OBVIOUS
<1>6. PICK b : b = IF key \in {-2, -1} THEN _emit(a, "part.done", i - 1, text) ELSE a
  OBVIOUS
<1>7. close(u, key) = _emit(b, "item.done", i - 1, text)
  BY <1>1, <1>3, <1>4, <1>5, <1>6, Zenon DEF close
<1>8. ClosesAs(t, u, key, i, text, a, b)
  BY <1>3, <1>4, <1>5, <1>6, <1>7 DEF ClosesAs
<1> QED BY <1>8, Zenon

(* close keeps the items and a well formed list of frames.                 *)
LEMMA CloseKeeps ==
    ASSUME NEW t, NEW u, TranslatorOK(u), u.items = t.items, NEW key, opened(t, key)
    PROVE  TranslatorOK(close(u, key)) /\ close(u, key).items = t.items
<1>1. PICK i, text, a, b : ClosesAs(t, u, key, i, text, a, b)
  BY CloseFacts, Zenon
<1>2. /\ i \in 1 .. Len(t.items) /\ text \in Seq(Nat)
      /\ a = _emit(u, "text.done", i - 1, text)
      /\ b = a \/ b = _emit(a, "part.done", i - 1, text)
      /\ close(u, key) = _emit(b, "item.done", i - 1, text)
  BY <1>1 DEF ClosesAs
<1>3. PICK n \in Int : n = i - 1
  BY <1>2
<1>4. TranslatorOK(a) /\ a.items = t.items
  BY <1>2, <1>3, DoneKeeps
<1>5. TranslatorOK(b) /\ b.items = t.items
  BY <1>2, <1>3, <1>4, DoneKeeps
<1> QED BY <1>2, <1>3, <1>5, DoneKeeps

(* close adds one item to those that are closed.                           *)
LEMMA CloseStep ==
    ASSUME NEW t, NEW u, NEW D, D \subseteq 1 .. Len(t.items), Closing(t, u, D), NEW key,
           opened(t, key), item(t, key) \notin D
    PROVE  Closing(t, close(u, key), D \cup {item(t, key)})
<1>1. TranslatorOK(u) /\ u.items = t.items
  BY DEF Closing
<1>2. PICK i, text, a, b : ClosesAs(t, u, key, i, text, a, b)
  BY <1>1, CloseFacts, Zenon
<1>3. /\ i \in 1 .. Len(t.items) /\ i = item(t, key)
      /\ text \in Seq(Nat) /\ text = t.items[i].text
      /\ a = _emit(u, "text.done", i - 1, text)
      /\ b = a \/ b = _emit(a, "part.done", i - 1, text)
      /\ close(u, key) = _emit(b, "item.done", i - 1, text)
  BY <1>2 DEF ClosesAs
<1>4. PICK n \in Int : n = i - 1
  BY <1>3
<1>5. Closing(t, a, D)
  BY <1>3, <1>4, EmitClosing
<1>6. Closing(t, b, D)
  BY <1>3, <1>4, <1>5, EmitClosing
<1>7. PICK v : v = _emit(b, "item.done", i - 1, t.items[i].text)
  OBVIOUS
<1>8. Closing(t, v, D \cup {i})
  BY <1>3, <1>6, <1>7, DoneClosing
<1> QED BY <1>3, <1>7, <1>8

(* Each of the keys is that of one item, and no other key is.              *)
KeysOf(keys, t) ==
    /\ Len(keys) \in Nat
    /\ \A m \in 1 .. Len(keys) : opened(t, keys[m])
    /\ \A l, m \in 1 .. Len(keys) : keys[l] = keys[m] => l = m
    /\ \A i \in 1 .. Len(t.items) : \E m \in 1 .. Len(keys) : keys[m] = t.items[i].key

(* g is the translator behind each of the closed items.                    *)
LEMMA ClosedExists ==
    ASSUME NEW t, NEW u, TranslatorOK(u), u.items = t.items, NEW keys, KeysOf(keys, t)
    PROVE  \E g : /\ g[0] = u /\ closed(u, keys) = g[Len(keys)]
                  /\ \A j \in 1 .. Len(keys) : g[j] = close(g[j - 1], keys[j])
<1> DEFINE Body(f) == [j \in 0 .. Len(keys) |->
                         IF j = 0 THEN u ELSE close(f[j - 1], keys[j])]
<1>1. PICK N \in Nat : N = Len(keys)
  BY DEF KeysOf
<1>2. PICK S : S = {s \in Translators : TranslatorOK(s) /\ s.items = t.items}
  OBVIOUS
<1>3. \A s : s \in S <=> TranslatorOK(s) /\ s.items = t.items
  BY <1>2, TranslatorFacts
<1>4. u \in S
  BY <1>3
<1>5. PICK G : G = [j \in 1 .. N |-> [s \in S |-> close(s, keys[j])]]
  OBVIOUS
<1>6. ASSUME NEW j \in 1 .. N, NEW s \in S PROVE close(s, keys[j]) \in S
  <2>1. PICK key : key = keys[j]
    OBVIOUS
  <2>2. opened(t, key) /\ TranslatorOK(s) /\ s.items = t.items
    BY <1>1, <1>3, <2>1 DEF KeysOf
  <2>3. TranslatorOK(close(s, key)) /\ close(s, key).items = t.items
    BY <2>2, CloseKeeps
  <2> QED BY <1>3, <2>1, <2>3
<1>7. G \in [1 .. N -> [S -> S]]
  BY <1>5, <1>6
<1>8. PICK f : Iterated(f, S, G, u, N)
  BY <1>4, <1>7, Iterates
<1>9. ASSUME NEW j \in 1 .. N PROVE f[j] = close(f[j - 1], keys[j])
  <2>1. j - 1 \in 0 .. N
    OBVIOUS
  <2>2. f[j - 1] \in S /\ f[j] = G[j][f[j - 1]]
    BY <1>8, <2>1 DEF Iterated
  <2> QED BY <1>5, <2>2
<1>10. f = [j \in 0 .. N |-> f[j]] /\ f[0] = u
  BY <1>8 DEF Iterated
<1>11. f = Body(f)
  <2>1. ASSUME NEW j \in 0 .. N
        PROVE  f[j] = IF j = 0 THEN u ELSE close(f[j - 1], keys[j])
    <3>1. CASE j = 0
      BY <1>10, <3>1
    <3>2. CASE j # 0
      <4>1. j \in 1 .. N
        BY <3>2
      <4>2. f[j] = close(f[j - 1], keys[j])
        BY <1>9, <4>1
      <4> QED BY <3>2, <4>2, Zenon
    <3> QED BY <3>1, <3>2
  <2> QED BY <1>1, <1>10, <2>1
<1>12. PICK g : g = CHOOSE h : h = Body(h)
  OBVIOUS
<1>13. g = Body(g)
  <2> HIDE DEF Body
  <2> QED BY <1>11, <1>12
<1>14. closed(u, keys) = g[Len(keys)]
  BY <1>12, Zenon DEF closed
<1>15. g[0] = u
  <2>1. 0 \in 0 .. Len(keys)
    BY <1>1
  <2> QED BY <1>13, <2>1
<1>16. ASSUME NEW j \in 1 .. Len(keys) PROVE g[j] = close(g[j - 1], keys[j])
  <2>1. j \in 0 .. Len(keys) /\ j # 0
    BY <1>1
  <2>2. g[j] = Body(g)[j]
    BY <1>13, Zenon
  <2>3. Body(g)[j] = close(g[j - 1], keys[j])
    BY <2>1, Zenon
  <2> QED BY <2>2, <2>3, Zenon
<1> QED BY <1>14, <1>15, <1>16

(* Every item is closed.                                                   *)
LEMMA ClosedFacts ==
    ASSUME NEW t, NEW u, Closing(t, u, {}), KeysOK(t), NEW keys, KeysOf(keys, t)
    PROVE  Closing(t, closed(u, keys), 1 .. Len(t.items))
<1>1. TranslatorOK(u) /\ u.items = t.items
  BY DEF Closing
<1>2. PICK g : /\ g[0] = u /\ closed(u, keys) = g[Len(keys)]
               /\ \A j \in 1 .. Len(keys) : g[j] = close(g[j - 1], keys[j])
  BY <1>1, ClosedExists
<1>3. PICK N \in Nat : N = Len(keys)
  BY DEF KeysOf
<1> DEFINE D(j) == {item(t, keys[m]) : m \in 1 .. j}
<1>4. ASSUME NEW m \in 1 .. N
      PROVE  item(t, keys[m]) \in 1 .. Len(t.items) /\ t.items[item(t, keys[m])].key = keys[m]
  <2>1. PICK key : key = keys[m]
    OBVIOUS
  <2>2. opened(t, key) /\ t.items \in Seq(Items)
    BY <1>1, <1>3, <2>1, TranslatorFacts DEF KeysOf
  <2> QED BY <2>1, <2>2, ItemFacts
<1> DEFINE B == {j \in 0 .. N : Closing(t, g[j], D(j))}
<1>5. 0 \in B
  <2>1. D(0) = {} /\ 0 \in 0 .. N
    OBVIOUS
  <2> QED BY <1>2, <2>1
<1>6. ASSUME NEW j \in 1 .. N, j - 1 \in B PROVE j \in B
  <2>1. PICK key, s, E : key = keys[j] /\ s = g[j - 1] /\ E = D(j - 1)
    OBVIOUS
  <2>2. Closing(t, s, E)
    BY <1>6, <2>1
  <2>3. E \subseteq 1 .. Len(t.items)
    BY <1>4, <2>1
  <2>4. item(t, key) \notin E
    <3> SUFFICES ASSUME NEW m \in 1 .. j - 1, item(t, keys[m]) = item(t, keys[j]) PROVE FALSE
      BY <2>1
    <3>1. m \in 1 .. N /\ m # j
      OBVIOUS
    <3>2. keys[m] = keys[j]
      BY <1>4, <3>1
    <3> QED BY <1>3, <3>1, <3>2 DEF KeysOf
  <2>5. opened(t, key)
    BY <1>3, <2>1 DEF KeysOf
  <2>6. Closing(t, close(s, key), E \cup {item(t, key)})
    BY <2>2, <2>3, <2>4, <2>5, CloseStep
  <2>7. g[j] = close(s, key)
    BY <1>2, <1>3, <2>1
  <2>8. \A m : m \in 1 .. j <=> m \in 1 .. j - 1 \/ m = j
    OBVIOUS
  <2>9. D(j) = E \cup {item(t, key)}
    BY <2>1, <2>8, Zenon
  <2> QED BY <2>6, <2>7, <2>9
<1>7. N \in B
  <2>1. 0 \in B /\ \A j \in 1 .. N : j - 1 \in B => j \in B
    BY <1>5, <1>6
  <2>2. N \in 0 .. N
    OBVIOUS
  <2> HIDE DEF B
  <2> QED BY <2>1, <2>2, UpTo
<1>8. D(N) = 1 .. Len(t.items)
  <2>1. ASSUME NEW i \in 1 .. Len(t.items) PROVE i \in D(N)
    <3>1. PICK m \in 1 .. N : keys[m] = t.items[i].key
      BY <1>3 DEF KeysOf
    <3>2. t.items[item(t, keys[m])].key = t.items[i].key /\ item(t, keys[m]) \in 1 .. Len(t.items)
      BY <1>4, <3>1
    <3>3. item(t, keys[m]) = i
      BY <3>2 DEF KeysOK
    <3> QED BY <3>3
  <2>2. ASSUME NEW i \in D(N) PROVE i \in 1 .. Len(t.items)
    BY <1>4
  <2> QED BY <2>1, <2>2
<1> QED BY <1>2, <1>3, <1>7, <1>8

Distinct(s) == \A l, m \in 1 .. Len(s) : s[l] = s[m] => l = m
In(s) == {s[i] : i \in 1 .. Len(s)}
Apart(s, t) == In(s) \cap In(t) = {}
JoinsDistinct(s, t, u, T) == u \in Seq(T) /\ Distinct(u) /\ In(u) = In(s) \cup In(t)

(* Two sequences without a common member, one behind the other.            *)
LEMMA JoinDistinct ==
    ASSUME NEW T, NEW s \in Seq(T), NEW t \in Seq(T), Distinct(s), Distinct(t),
           Apart(s, t)
    PROVE  JoinsDistinct(s, t, s \o t, T)
<1>0. PICK u : u = s \o t
  OBVIOUS
<1>1. PICK n \in Nat, k \in Nat : n = Len(s) /\ k = Len(t)
  OBVIOUS
<1>2. Joined(s, t, u, T)
  BY <1>0, JoinedFacts
<1>3. /\ u \in Seq(T) /\ Len(u) = n + k /\ \A i \in 1 .. n : u[i] = s[i]
      /\ \A i \in 1 .. k : u[n + i] = t[i]
  BY <1>1, <1>2 DEF Joined
<1>4. ASSUME NEW l \in 1 .. n + k PROVE l \in 1 .. n \/ (l - n \in 1 .. k /\ n + (l - n) = l)
  OBVIOUS
<1>5. \A l \in 1 .. n : u[l] = s[l] /\ u[l] \in In(s)
  BY <1>1, <1>3 DEF In
<1>6. ASSUME NEW l \in 1 .. n + k, l \notin 1 .. n PROVE u[l] = t[l - n] /\ u[l] \in In(t)
  <2>1. l - n \in 1 .. k /\ n + (l - n) = l
    BY <1>4, <1>6
  <2>2. u[l] = t[l - n]
    BY <1>3, <2>1
  <2> QED BY <1>1, <2>1, <2>2 DEF In
<1>7. ASSUME NEW l \in 1 .. n + k, NEW m \in 1 .. n + k, u[l] = u[m] PROVE l = m
  <2>1. CASE l \in 1 .. n /\ m \in 1 .. n
    <3>1. s[l] = s[m]
      BY <1>5, <1>7, <2>1
    <3> QED BY <1>1, <2>1, <3>1 DEF Distinct
  <2>2. CASE l \notin 1 .. n /\ m \notin 1 .. n
    <3>1. t[l - n] = t[m - n]
      BY <1>6, <1>7, <2>2
    <3>2. l - n \in 1 .. k /\ m - n \in 1 .. k
      BY <1>4, <2>2
    <3>3. l - n = m - n
      BY <1>1, <3>1, <3>2 DEF Distinct
    <3> QED BY <3>3
  <2>3. CASE l \in 1 .. n /\ m \notin 1 .. n
    BY <1>5, <1>6, <1>7, <2>3 DEF Apart
  <2>4. CASE l \notin 1 .. n /\ m \in 1 .. n
    BY <1>5, <1>6, <1>7, <2>4 DEF Apart
  <2> QED BY <2>1, <2>2, <2>3, <2>4
<1>8. In(u) = In(s) \cup In(t)
  <2>1. ASSUME NEW y \in In(u) PROVE y \in In(s) \cup In(t)
    <3>1. PICK l \in 1 .. n + k : y = u[l]
      BY <1>3 DEF In
    <3> QED BY <1>5, <1>6, <3>1
  <2>2. ASSUME NEW y \in In(s) PROVE y \in In(u)
    <3>1. PICK l \in 1 .. n : y = s[l]
      BY <1>1 DEF In
    <3>2. l \in 1 .. n + k /\ u[l] = y
      BY <1>3, <3>1
    <3> QED BY <1>3, <3>2 DEF In
  <2>3. ASSUME NEW y \in In(t) PROVE y \in In(u)
    <3>1. PICK l \in 1 .. k : y = t[l]
      BY <1>1 DEF In
    <3>2. n + l \in 1 .. n + k /\ u[n + l] = y
      BY <1>3, <3>1
    <3> QED BY <1>3, <3>2 DEF In
  <2> QED BY <2>1, <2>2, <2>3
<1> QED BY <1>0, <1>3, <1>7, <1>8 DEF Distinct, JoinsDistinct

Has(t, key) == IF opened(t, key) THEN <<key>> ELSE <<>>

(* One key, or none.                                                       *)
LEMMA HasFacts ==
    ASSUME NEW t, NEW key \in Int
    PROVE  /\ Has(t, key) \in Seq(Int) /\ Distinct(Has(t, key))
           /\ In(Has(t, key)) = IF opened(t, key) THEN {key} ELSE {}
<1>1. CASE opened(t, key)
  <2>1. Has(t, key) = <<key>>
    BY <1>1 DEF Has
  <2>2. Len(<<key>>) = 1 /\ <<key>>[1] = key /\ <<key>> \in Seq(Int)
    OBVIOUS
  <2>3. \A l : l \in 1 .. 1 <=> l = 1
    OBVIOUS
  <2> QED BY <1>1, <2>1, <2>2, <2>3 DEF Distinct, In
<1>2. CASE ~opened(t, key)
  <2>1. Has(t, key) = <<>>
    BY <1>2 DEF Has
  <2>2. Len(<<>>) = 0 /\ 1 .. 0 = {} /\ <<>> \in Seq(Int)
    OBVIOUS
  <2> QED BY <1>2, <2>1, <2>2 DEF Distinct, In
<1> QED BY <1>1, <1>2

(* The items that finish closes: each of them, once.                       *)
LEMMA OutputFacts ==
    ASSUME NEW t, TranslatorOK(t)
    PROVE  output(t) \in Seq(Int) /\ KeysOf(output(t), t)
<1>1. PICK a, b, c : a = Has(t, -2) /\ b = Has(t, -1) /\ c = t._tool_order
  OBVIOUS
<1>2. PICK ab : ab = a \o b
  OBVIOUS
<1>3. PICK keys : keys = ab \o c
  OBVIOUS
<1>4. output(t) = keys
  BY <1>1, <1>2, <1>3 DEF output, Has
<1>5. /\ t.items \in Seq(Items) /\ c \in Seq(Int) /\ KeysOK(t)
  BY <1>1, TranslatorFacts
<1>6. PICK all : all = {t.items[i].key : i \in 1 .. Len(t.items)}
  OBVIOUS
<1>7. \A key : opened(t, key) <=> key \in all
  BY <1>5, <1>6 DEF opened
<1>8. Distinct(c) /\ In(c) = all \ {-2, -1}
  BY <1>1, <1>5, <1>6 DEF KeysOK, Distinct, In
<1>9. /\ a \in Seq(Int) /\ Distinct(a) /\ In(a) = IF -2 \in all THEN {-2} ELSE {}
      /\ b \in Seq(Int) /\ Distinct(b) /\ In(b) = IF -1 \in all THEN {-1} ELSE {}
  <2>1. -2 \in Int /\ -1 \in Int
    OBVIOUS
  <2>2. /\ Has(t, -2) \in Seq(Int) /\ Distinct(Has(t, -2))
        /\ In(Has(t, -2)) = IF opened(t, -2) THEN {-2} ELSE {}
    BY <2>1, HasFacts
  <2>3. /\ Has(t, -1) \in Seq(Int) /\ Distinct(Has(t, -1))
        /\ In(Has(t, -1)) = IF opened(t, -1) THEN {-1} ELSE {}
    BY <2>1, HasFacts
  <2> QED BY <1>1, <1>7, <2>2, <2>3
<1>10. ab \in Seq(Int) /\ Distinct(ab) /\ In(ab) = In(a) \cup In(b)
  <2>1. Apart(a, b)
    BY <1>9 DEF Apart
  <2>2. JoinsDistinct(a, b, ab, Int)
    BY <1>2, <1>9, <2>1, JoinDistinct
  <2> QED BY <2>2 DEF JoinsDistinct
<1>11. keys \in Seq(Int) /\ Distinct(keys) /\ In(keys) = In(ab) \cup In(c)
  <2>1. Apart(ab, c)
    BY <1>8, <1>9, <1>10 DEF Apart
  <2>2. JoinsDistinct(ab, c, keys, Int)
    BY <1>3, <1>5, <1>8, <1>10, <2>1, JoinDistinct
  <2> QED BY <2>2 DEF JoinsDistinct
<1>12. In(keys) = all
  BY <1>8, <1>9, <1>10, <1>11
<1>13. \A m \in 1 .. Len(keys) : opened(t, keys[m])
  BY <1>7, <1>12 DEF In
<1>14. \A i \in 1 .. Len(t.items) : \E m \in 1 .. Len(keys) : keys[m] = t.items[i].key
  BY <1>6, <1>12 DEF In
<1>15. Len(keys) \in Nat
  BY <1>11
<1>16. KeysOf(keys, t)
  BY <1>11, <1>13, <1>14, <1>15 DEF KeysOf, Distinct
<1> QED BY <1>4, <1>11, <1>16

(* finish marks the stream completed before it closes anything.            *)
LEMMA ClosingStarts ==
    ASSUME NEW t, TranslatorOK(t), Open(t), NEW u, u = [t EXCEPT !.completed = TRUE]
    PROVE  Closing(t, u, {})
<1>1. t \in Translators
  BY TranslatorFacts
<1>2. /\ u \in Translators /\ u.seq = t.seq /\ u.frames = t.frames /\ u.items = t.items
      /\ u._tool_order = t._tool_order
  BY <1>1 DEF Translators
<1>3. KeysOK(u)
  BY <1>2, TranslatorFacts, SameKeys
<1>4. TranslatorOK(u)
  BY <1>2, <1>3 DEF TranslatorOK
<1> QED BY <1>2, <1>4 DEF Closing, Open

(* What response.completed lists: the indices of all items.                *)
LEMMA OutputIndices ==
    ASSUME NEW t, TranslatorOK(t), NEW s,
           s = [j \in DOMAIN output(t) |-> item(t, output(t)[j]) - 1]
    PROVE  s \in Seq(Nat) /\ ToSet(s) = 0 .. Len(t.items) - 1
<1>1. PICK keys \in Seq(Int), N \in Nat : keys = output(t) /\ N = Len(keys)
  BY OutputFacts
<1>2. KeysOf(keys, t) /\ KeysOK(t) /\ t.items \in Seq(Items)
  BY <1>1, OutputFacts, TranslatorFacts
<1>3. PICK n \in Nat : n = Len(t.items)
  BY <1>2
<1>4. s = [j \in 1 .. N |-> item(t, keys[j]) - 1]
  BY <1>1
<1>5. ASSUME NEW m \in 1 .. N
      PROVE  item(t, keys[m]) \in 1 .. n /\ t.items[item(t, keys[m])].key = keys[m]
  <2>1. PICK key : key = keys[m]
    OBVIOUS
  <2>2. opened(t, key)
    BY <1>1, <1>2, <2>1 DEF KeysOf
  <2> QED BY <1>2, <1>3, <2>1, <2>2, ItemFacts
<1>6. ASSUME NEW m \in 1 .. N PROVE s[m] \in 0 .. n - 1 /\ s[m] = item(t, keys[m]) - 1
  <2>1. PICK i \in 1 .. n : i = item(t, keys[m])
    BY <1>5
  <2>2. s[m] = i - 1
    BY <1>4, <2>1
  <2> QED BY <2>1, <2>2
<1>7. s \in [1 .. N -> Nat]
  BY <1>4, <1>6
<1>8. s \in Seq(Nat) /\ DOMAIN s = 1 .. N
  BY <1>7
<1>9. ToSet(s) = {s[m] : m \in 1 .. N}
  BY <1>8 DEF ToSet
<1>10. ASSUME NEW k \in 0 .. n - 1 PROVE k \in {s[m] : m \in 1 .. N}
  <2>1. PICK i \in 1 .. n : k = i - 1
    <3>1. k + 1 \in 1 .. n /\ k = (k + 1) - 1
      OBVIOUS
    <3> QED BY <3>1
  <2>2. PICK m \in 1 .. N : keys[m] = t.items[i].key
    BY <1>1, <1>2, <1>3 DEF KeysOf
  <2>3. item(t, keys[m]) = i
    <3>1. PICK j \in 1 .. n : j = item(t, keys[m]) /\ t.items[j].key = keys[m]
      BY <1>5
    <3>2. t.items[j].key = t.items[i].key
      BY <2>2, <3>1
    <3>3. j = i
      BY <1>2, <1>3, <3>2 DEF KeysOK
    <3> QED BY <3>1, <3>3
  <2>4. s[m] = k
    BY <1>6, <2>1, <2>3
  <2> QED BY <2>4
<1>11. {s[m] : m \in 1 .. N} = 0 .. n - 1
  BY <1>6, <1>10
<1> QED BY <1>3, <1>8, <1>9, <1>11

(* The stream is well formed once all items are closed and it completed.   *)
LEMMA ClosedIsFinished ==
    ASSUME NEW t, t.items \in Seq(Items), NEW u, Closing(t, u, 1 .. Len(t.items)),
           NEW text \in Seq(Nat), ToSet(text) = 0 .. Len(t.items) - 1,
           NEW v, v = _emit(u, "completed", NoIndex, text), NEW w, ReadableEvents(w) = Texts(t)
    PROVE  WellFormed(v.frames, w)
<1>1. PICK n \in Nat : n = Len(t.items)
  OBVIOUS
<1>2. /\ u \in Translators /\ u.seq = Len(u.frames) /\ u.frames \in Seq(ResponseFrames)
      /\ TranslatorOK(u) /\ u.items = t.items /\ Len(u.frames) \in Nat
  BY TranslatorFacts DEF Closing
<1>3. Emitted(u, v, "completed", NoIndex, text) /\ TranslatorOK(v)
  <2>1. /\ "completed" \in FrameTypes /\ "completed" \in FrameTypes \ {"item.added", "delta"}
        /\ NoIndex \in Int
    BY DEF FrameTypes, NoIndex
  <2>2. Emitted(u, v, "completed", NoIndex, text)
    BY <1>2, <2>1, EmitFacts
  <2> QED BY <1>2, <2>1, <2>2, EmitKeeps
<1>4. PICK x : x = Frame(Len(u.frames), "completed", NoIndex, text)
  OBVIOUS
<1>5. PICK f, g : f = u.frames /\ g = v.frames
  OBVIOUS
<1>6. Longer(f, x, g) /\ x.type = "completed" /\ x.text = text
  BY <1>3, <1>4, <1>5 DEF Emitted, Frame
<1>7. v.items = t.items /\ Growing(g) /\ Added(g) = n /\ g \in Seq(ResponseFrames)
      /\ \A i \in 1 .. n : Spells(t.items[i].text, g, i - 1)
  <2>1. v.items = t.items
    BY <1>2, <1>3 DEF Emitted
  <2> QED BY <1>1, <1>3, <1>5, <2>1, TranslatorFacts
<1>8. PICK added, done : added = OfType(g, "item.added") /\ done = OfType(g, "item.done")
  OBVIOUS
<1>9. Len(g) = Len(f) + 1 /\ g[Len(g)] = x /\ OfType(g, "completed") = {Len(g)}
  <2>1. OfType(f, "completed") = {}
    BY <1>5 DEF Closing
  <2>2. OfType(g, "completed") = OfType(f, "completed") \cup {Len(f) + 1}
    BY <1>2, <1>5, <1>6, OfTypeFacts
  <2> QED BY <1>6, <2>1, <2>2 DEF Longer
<1>10. {g[k].index : k \in added} = 0 .. n - 1
  BY <1>7, <1>8 DEF Growing, Added
<1>11. ToSet(g[Len(g)].text) = {g[k].index : k \in added}
  BY <1>1, <1>6, <1>9, <1>10
<1>12. ASSUME NEW i \in 1 .. n PROVE DoneOnce(g, i - 1, t.items[i].text)
  <2>1. DoneOnce(f, i - 1, t.items[i].text)
    BY <1>1, <1>5 DEF Closing
  <2>2. x.type # "delta" /\ ~ (x.type = "item.done" /\ x.index = i - 1)
    BY <1>6
  <2> QED BY <1>2, <1>5, <1>6, <2>1, <2>2, DoneKept
<1>13. ASSUME NEW l \in done PROVE \E i \in 1 .. n : g[l].index = i - 1
  <2>1. done = OfType(f, "item.done") /\ OfType(f, "item.done") \subseteq 1 .. Len(f)
    BY <1>2, <1>5, <1>6, <1>8, OfTypeFacts
  <2>2. g[l] = f[l]
    BY <1>6, <2>1 DEF Longer
  <2> QED BY <1>1, <1>5, <2>1, <2>2 DEF Closing
<1>14. ASSUME NEW i \in 1 .. n
       PROVE  \E j \in done : /\ \A l \in done : g[l].index = i - 1 <=> l = j
                              /\ g[j].text = t.items[i].text
                              /\ \A d \in OfType(g, "delta") : g[d].index = i - 1 => d < j
  BY <1>8, <1>12 DEF DoneOnce
<1>15. ASSUME NEW k \in added
       PROVE  \E j \in done : /\ \A l \in done : g[l].index = g[k].index <=> l = j
                              /\ Spells(g[j].text, g, g[k].index)
                              /\ \A d \in OfType(g, "delta") : g[d].index = g[k].index => d < j
  <2>1. g[k].index \in 0 .. n - 1
    BY <1>10
  <2>2. PICK i \in 1 .. n : g[k].index = i - 1
    <3>1. g[k].index + 1 \in 1 .. n /\ g[k].index = (g[k].index + 1) - 1
      BY <2>1
    <3> QED BY <3>1
  <2>3. PICK j \in done : /\ \A l \in done : g[l].index = i - 1 <=> l = j
                          /\ g[j].text = t.items[i].text
                          /\ \A d \in OfType(g, "delta") : g[d].index = i - 1 => d < j
    BY <1>14
  <2>4. Spells(g[j].text, g, i - 1)
    BY <1>7, <2>3
  <2> QED BY <2>2, <2>3, <2>4
<1>16. UNION {ToSet(g[j].text) : j \in done} = Texts(t)
  <2>1. ASSUME NEW y PROVE y \in UNION {ToSet(g[j].text) : j \in done} <=> y \in Texts(t)
    <3>1. y \in Texts(t) <=> \E i \in 1 .. n : y \in ToSet(t.items[i].text)
      BY <1>1 DEF Texts
    <3>2. ASSUME NEW j \in done, y \in ToSet(g[j].text) PROVE y \in Texts(t)
      <4>1. PICK i \in 1 .. n : g[j].index = i - 1
        BY <1>13
      <4>2. g[j].text = t.items[i].text
        BY <1>14, <4>1
      <4> QED BY <3>1, <3>2, <4>2
    <3>3. ASSUME NEW i \in 1 .. n, y \in ToSet(t.items[i].text)
          PROVE  \E j \in done : y \in ToSet(g[j].text)
      <4>1. PICK j \in done : g[j].text = t.items[i].text
        BY <1>14
      <4> QED BY <3>3, <4>1
    <3> QED BY <3>1, <3>2, <3>3
  <2> QED BY <2>1
<1>17. Finished(g, w)
  BY <1>8, <1>9, <1>11, <1>15, <1>16 DEF Finished
<1> QED BY <1>5, <1>7, <1>17 DEF WellFormed

(* finish makes of an open translator a completed, well formed stream.     *)
LEMMA FinishFacts ==
    ASSUME NEW t, NEW w, Hears(t, ReadableEvents(w))
    PROVE  WellFormed(finish(t).frames, w)
<1>1. TranslatorOK(t) /\ Open(t) /\ Texts(t) = ReadableEvents(w)
  BY DEF Hears
<1>2. PICK u : u = [t EXCEPT !.completed = TRUE]
  OBVIOUS
<1>3. Closing(t, u, {})
  BY <1>1, <1>2, ClosingStarts
<1>4. PICK keys : keys = output(t)
  OBVIOUS
<1>5. KeysOK(t) /\ KeysOf(keys, t) /\ t.items \in Seq(Items)
  BY <1>1, <1>4, OutputFacts, TranslatorFacts
<1>6. PICK c : c = closed(u, keys)
  OBVIOUS
<1>7. Closing(t, c, 1 .. Len(t.items))
  BY <1>3, <1>5, <1>6, ClosedFacts
<1>8. PICK s : s = [j \in DOMAIN output(t) |-> item(t, output(t)[j]) - 1]
  OBVIOUS
<1>9. s \in Seq(Nat) /\ ToSet(s) = 0 .. Len(t.items) - 1
  BY <1>1, <1>8, OutputIndices
<1>10. PICK v : v = _emit(c, "completed", NoIndex, s)
  OBVIOUS
<1>11. WellFormed(v.frames, w)
  BY <1>1, <1>5, <1>7, <1>9, <1>10, ClosedIsFinished
<1>12. finish(t) = v
  <2>1. ~t.completed
    BY <1>1 DEF Open
  <2> QED BY <1>2, <1>4, <1>6, <1>8, <1>10, <2>1 DEF finish
<1> QED BY <1>11, <1>12

-----------------------------------------------------------------------------
(* What was sent, cut: terminated events, and the rest.                    *)

(* One piece more of a stream.                                             *)
LEMMA PiecesMore ==
    ASSUME NEW T, NEW evs \in Seq(T), NEW n \in Nat, n > 0, (n + 2) \div 3 <= Len(evs)
    PROVE  /\ Pieces(evs, n - 1) \in Seq(T \X (1 .. 3))
           /\ Pieces(evs, n) =
                 Append(Pieces(evs, n - 1), <<evs[1 + ((n - 1) \div 3)], 1 + ((n - 1) % 3)>>)
           /\ <<evs[1 + ((n - 1) \div 3)], 1 + ((n - 1) % 3)>> \in T \X (1 .. 3)
<1> DEFINE piece(i) == <<evs[1 + ((i - 1) \div 3)], 1 + ((i - 1) % 3)>>
<1>1. ASSUME NEW i \in 1 .. n PROVE piece(i) \in T \X (1 .. 3)
  <2>1. 1 + ((i - 1) \div 3) \in 1 .. Len(evs) /\ 1 + ((i - 1) % 3) \in 1 .. 3
    <3>1. (i - 1) \div 3 <= (n - 1) \div 3 /\ (i - 1) \div 3 >= 0 /\ (i - 1) \div 3 \in Int
      OBVIOUS
    <3>2. 1 + ((n - 1) \div 3) = (n + 2) \div 3
      OBVIOUS
    <3> QED BY <3>1, <3>2
  <2>2. evs[1 + ((i - 1) \div 3)] \in T
    BY <2>1
  <2> QED BY <2>1, <2>2
<1>2. PICK p, q : p = Pieces(evs, n - 1) /\ q = Pieces(evs, n)
  OBVIOUS
<1>3. p = [i \in 1 .. n - 1 |-> piece(i)] /\ q = [i \in 1 .. n |-> piece(i)]
  BY <1>2 DEF Pieces
<1>4. PICK P : P = T \X (1 .. 3)
  OBVIOUS
<1>5. \A i \in 1 .. n : piece(i) \in P
  BY <1>1, <1>4
<1> HIDE DEF piece
<1>6. p \in Seq(P) /\ Len(p) = n - 1 /\ piece(n) \in P
  <2>1. p \in [1 .. n - 1 -> P] /\ n \in 1 .. n /\ n - 1 \in Nat
    BY <1>3, <1>5
  <2> QED BY <1>5, <2>1
<1>7. q = Append(p, piece(n))
  <2>1. PICK x \in P : x = piece(n)
    BY <1>6
  <2>2. PICK a : a = Append(p, x)
    OBVIOUS
  <2>3. a \in Seq(P) /\ Len(a) = n /\ a[n] = x /\ \A i \in 1 .. n - 1 : a[i] = p[i]
    BY <1>6, <2>2
  <2>4. a = [i \in 1 .. n |-> a[i]]
    BY <2>3
  <2>5. ASSUME NEW i \in 1 .. n PROVE a[i] = piece(i)
    <3>1. CASE i = n
      BY <2>1, <2>3, <3>1
    <3>2. CASE i # n
      <4>1. i \in 1 .. n - 1
        BY <3>2
      <4> QED BY <1>3, <2>3, <4>1
    <3> QED BY <3>1, <3>2
  <2> QED BY <1>3, <2>1, <2>2, <2>4, <2>5
<1> QED BY <1>2, <1>4, <1>6, <1>7 DEF piece

FrameOf(f, e) == Readable(f) /\ f[1][1] = e

RestOf(s, e, m) ==
    /\ m = 0 => s = <<>>
    /\ m > 0 => Len(s) = m /\ s[1][1] = e /\ s[1][2] = 1
    /\ m = 2 => s[2][2] = 2

(* The cut of the first n pieces: a frame for each whole event.            *)
WireCut(evs, n) ==
    LET s == Split(Pieces(evs, n))
    IN  /\ Len(s.frames) = n \div 3
        /\ \A k \in 1 .. n \div 3 : FrameOf(s.frames[k], evs[k])
        /\ RestOf(s.rest, evs[1 + (n \div 3)], n % 3)

CutsTo(s, u, e, m, P) ==
    /\ m < 2 => u.frames = s.frames /\ RestOf(u.rest, e, m + 1)
    /\ m = 2 => /\ u.rest = <<>>
                /\ \E f : FrameOf(f, e) /\ f \in Seq(P) /\ u.frames = Append(s.frames, f)

(* The next piece of an event.                                             *)
LEMMA CutWire ==
    ASSUME NEW T, NEW s \in States(T \X (1 .. 3)), NEW e \in T, NEW m \in 0 .. 2,
           RestOf(s.rest, e, m)
    PROVE  CutsTo(s, Cut(s, <<e, m + 1>>), e, m, T \X (1 .. 3))
<1>0. PICK u : u = Cut(s, <<e, m + 1>>)
  OBVIOUS
<1>1. PICK P, x : P = T \X (1 .. 3) /\ x = <<e, m + 1>>
  OBVIOUS
<1>2. x[1] = e /\ x[2] = m + 1 /\ x \in P
  BY <1>1
<1>3. PICK rest \in Seq(P) : rest = s.rest /\ RestOf(rest, e, m)
  BY <1>1 DEF States
<1>4. PICK f : f = Append(rest, x)
  OBVIOUS
<1>5. /\ f \in Seq(P) /\ Len(f) = Len(rest) + 1 /\ f[Len(rest) + 1] = x
      /\ \A i \in 1 .. Len(rest) : f[i] = rest[i]
  BY <1>2, <1>4
<1>6. Len(rest) = m
  <2>1. CASE m = 0
    <3>1. rest = <<>>
      BY <1>3, <2>1 DEF RestOf
    <3> QED BY <2>1, <3>1
  <2>2. CASE m > 0
    BY <1>3, <2>2 DEF RestOf
  <2> QED BY <2>1, <2>2
<1>7. f[1][1] = e /\ f[1][2] = 1
  <2>1. CASE m = 0
    <3>1. f[1] = x
      BY <1>5, <1>6, <2>1
    <3> QED BY <1>2, <2>1, <3>1
  <2>2. CASE m > 0
    <3>1. f[1] = rest[1]
      BY <1>5, <1>6, <2>2
    <3> QED BY <1>3, <2>2, <3>1 DEF RestOf
  <2> QED BY <2>1, <2>2
<1>8. m >= 1 => f[2][2] = 2
  <2>1. CASE m = 1
    <3>1. f[2] = x
      BY <1>5, <1>6, <2>1
    <3> QED BY <1>2, <2>1, <3>1
  <2>2. CASE m = 2
    <3>1. f[2] = rest[2]
      BY <1>5, <1>6, <2>2
    <3> QED BY <1>3, <2>2, <3>1 DEF RestOf
  <2> QED BY <2>1, <2>2
<1>9. CASE m < 2
  <2>1. u = [frames |-> s.frames, rest |-> f]
    BY <1>0, <1>1, <1>2, <1>3, <1>4, <1>9 DEF Cut
  <2>2. RestOf(f, e, m + 1)
    BY <1>5, <1>6, <1>7, <1>8, <1>9 DEF RestOf
  <2>3. u.frames = s.frames /\ u.rest = f /\ m # 2
    BY <1>9, <2>1
  <2>4. CutsTo(s, u, e, m, P)
    BY <2>2, <2>3 DEF CutsTo
  <2> QED BY <1>0, <1>1, <2>4
<1>10. CASE m = 2
  <2>1. rest # <<>>
    <3>1. Len(rest) # 0 /\ Len(<<>>) = 0
      BY <1>6, <1>10
    <3> QED BY <3>1
  <2>2. u = [frames |-> Append(s.frames, f), rest |-> <<>>]
    BY <1>0, <1>1, <1>2, <1>3, <1>4, <1>10, <2>1 DEF Cut
  <2>3. FrameOf(f, e)
    BY <1>5, <1>6, <1>7, <1>8, <1>10 DEF FrameOf, Readable
  <2>4. PICK fs : fs = Append(s.frames, f)
    OBVIOUS
  <2>5. u.rest = <<>> /\ u.frames = fs
    BY <2>2, <2>4
  <2>6. ~ (m < 2)
    BY <1>10
  <2>7. CutsTo(s, u, e, m, P)
    BY <1>5, <2>3, <2>4, <2>5, <2>6, Zenon DEF CutsTo
  <2> QED BY <1>0, <1>1, <2>7
<1> QED BY <1>9, <1>10

(* However many pieces were sent.                                          *)
LEMMA WireCuts ==
    ASSUME NEW T, NEW evs \in Seq(T), NEW N \in Nat, (N + 2) \div 3 <= Len(evs)
    PROVE  WireCut(evs, N)
<1> DEFINE B == {n \in 0 .. N : WireCut(evs, n)}
<1>1. 0 \in B
  <2>1. Pieces(evs, 0) = <<>>
    BY DEF Pieces
  <2>2. Split(Pieces(evs, 0)) = [frames |-> <<>>, rest |-> <<>>]
    BY <2>1, SplitEmpty DEF Nothing
  <2>3. PICK s : s = Split(Pieces(evs, 0)) /\ s.frames = <<>> /\ s.rest = <<>>
    BY <2>2
  <2>4. 0 \div 3 = 0 /\ 0 % 3 = 0 /\ 1 .. 0 = {} /\ Len(<<>>) = 0
    OBVIOUS
  <2>5. WireCut(evs, 0)
    BY <2>3, <2>4 DEF WireCut, RestOf
  <2> QED BY <2>5
<1>2. ASSUME NEW n \in 1 .. N, n - 1 \in B PROVE n \in B
  <2>1. PICK k \in Nat, m \in 0 .. 2 : k = (n - 1) \div 3 /\ m = (n - 1) % 3
    OBVIOUS
  <2>2. /\ n - 1 = 3 * k + m /\ n > 0 /\ n \in Nat /\ (n + 2) \div 3 <= Len(evs)
        /\ 1 + k \in 1 .. Len(evs)
    <3>1. (n + 2) \div 3 = 1 + ((n - 1) \div 3)
      OBVIOUS
    <3>2. (n + 2) \div 3 <= (N + 2) \div 3
      OBVIOUS
    <3> QED BY <2>1, <3>1, <3>2
  <2>3. PICK e \in T : e = evs[1 + k]
    BY <2>2
  <2>4. PICK p, x : p = Pieces(evs, n - 1) /\ x = <<e, m + 1>>
    OBVIOUS
  <2>5. PICK P : P = T \X (1 .. 3)
    OBVIOUS
  <2>6. p \in Seq(P) /\ x \in P /\ Pieces(evs, n) = Append(p, x)
    <3>1. 1 + m = m + 1
      OBVIOUS
    <3> QED BY <2>1, <2>2, <2>3, <2>4, <2>5, <3>1, PiecesMore
  <2>7. PICK s \in States(P), u \in States(P) : s = Split(p) /\ u = Split(Append(p, x))
    <3>1. Append(p, x) \in Seq(P)
      BY <2>6
    <3> QED BY <2>6, <3>1, SplitType
  <2>8. u = Cut(s, x)
    BY <2>6, <2>7, SplitAppend
  <2>9. /\ Len(s.frames) = k /\ \A j \in 1 .. k : FrameOf(s.frames[j], evs[j])
        /\ RestOf(s.rest, e, m)
    BY <1>2, <2>1, <2>3, <2>4, <2>7 DEF WireCut
  <2>10. /\ m < 2 => u.frames = s.frames /\ RestOf(u.rest, e, m + 1)
         /\ m = 2 => /\ u.rest = <<>>
                     /\ \E f : FrameOf(f, e) /\ f \in Seq(P) /\ u.frames = Append(s.frames, f)
    <3>1. CutsTo(s, u, e, m, P)
      BY <2>4, <2>5, <2>8, <2>9, CutWire
    <3> QED BY <3>1 DEF CutsTo
  <2>11. CASE m < 2
    <3>1. n \div 3 = k /\ n % 3 = m + 1
      BY <2>2, <2>11
    <3>2. WireCut(evs, n)
      BY <2>3, <2>6, <2>7, <2>9, <2>10, <2>11, <3>1 DEF WireCut
    <3> QED BY <3>2
  <2>12. CASE m = 2
    <3>1. n \div 3 = k + 1 /\ n % 3 = 0
      BY <2>2, <2>12
    <3>2. PICK f : FrameOf(f, e) /\ f \in Seq(P) /\ u.frames = Append(s.frames, f)
      BY <2>10, <2>12
    <3>3. PICK Q : Q = Seq(P)
      OBVIOUS
    <3>4. s.frames \in Seq(Q) /\ f \in Q
      BY <3>2, <3>3 DEF States
    <3>5. /\ Len(u.frames) = k + 1 /\ u.frames[k + 1] = f
          /\ \A j \in 1 .. k : u.frames[j] = s.frames[j]
      BY <2>9, <3>2, <3>4
    <3>6. ASSUME NEW j \in 1 .. k + 1 PROVE FrameOf(u.frames[j], evs[j])
      <4>1. CASE j = k + 1
        <5>1. u.frames[j] = f /\ evs[j] = e
          BY <2>3, <3>5, <4>1
        <5> QED BY <3>2, <5>1
      <4>2. CASE j \in 1 .. k
        <5>1. u.frames[j] = s.frames[j] /\ FrameOf(s.frames[j], evs[j])
          BY <2>9, <3>5, <4>2
        <5> QED BY <5>1
      <4>3. j = k + 1 \/ j \in 1 .. k
        OBVIOUS
      <4> QED BY <4>1, <4>2, <4>3
    <3>7. RestOf(u.rest, evs[1 + (k + 1)], 0)
      <4>1. u.rest = <<>>
        BY <2>10, <2>12
      <4> QED BY <4>1 DEF RestOf
    <3>8. WireCut(evs, n)
      BY <2>6, <2>7, <3>1, <3>5, <3>6, <3>7 DEF WireCut
    <3> QED BY <3>8
  <2> QED BY <2>11, <2>12
<1>3. N \in B
  <2>1. 0 \in B /\ \A n \in 1 .. N : n - 1 \in B => n \in B
    BY <1>1, <1>2
  <2>2. N \in 0 .. N
    OBVIOUS
  <2> HIDE DEF B
  <2> QED BY <2>1, <2>2, UpTo
<1> QED BY <1>3

(* The frames and the rest of what was sent.                               *)
LEMMA WireFacts ==
    ASSUME NEW w, WireOK(w)
    PROVE  /\ WireCut(w.evs, w.n) /\ w.n \in Nat /\ w.evs \in Seq(Kinds)
           /\ Len(w.evs) = (w.n + 2) \div 3
           /\ \A k \in 1 .. Len(w.evs) : w.evs[k] \in Events
<1>1. w.n \in Nat /\ w.evs \in Seq(Kinds) /\ Len(w.evs) = (w.n + 2) \div 3
  BY DEF WireOK
<1>2. PICK evs \in Seq(Kinds), n \in Nat : evs = w.evs /\ n = w.n /\ Len(evs) = (n + 2) \div 3
  BY <1>1
<1>3. (n + 2) \div 3 <= Len(evs)
  BY <1>2
<1>4. WireCut(evs, n)
  BY <1>3, WireCuts
<1>5. \A k \in 1 .. Len(evs) : evs[k] \in Events
  BY GatewayAssumption
<1> QED BY <1>1, <1>2, <1>4, <1>5

HeardIn(w, F) ==
    /\ \A k \in 1 .. Len(F) : Readable(F[k]) /\ F[k][1][1] \in Events
    /\ Heard(w) = {k \in 1 .. Len(F) : F[k][1][1] # "done"}

(* The events heard are those of the frames.                               *)
LEMMA HeardFacts ==
    ASSUME NEW w, WireOK(w)
    PROVE  HeardIn(w, Frames(Wire(w)))
<1>1. PICK evs, n, F : evs = w.evs /\ n = w.n /\ F = Frames(Wire(w))
  OBVIOUS
<1>2. /\ WireCut(evs, n) /\ n \in Nat /\ Len(evs) = (n + 2) \div 3
      /\ \A k \in 1 .. Len(evs) : evs[k] \in Events
  BY <1>1, WireFacts
<1>3. Len(F) = n \div 3 /\ \A k \in 1 .. n \div 3 : FrameOf(F[k], evs[k])
  BY <1>1, <1>2 DEF WireCut, Frames, Wire
<1>4. ASSUME NEW k \in 1 .. n \div 3
      PROVE  k \in 1 .. Len(evs) /\ n >= 3 * k /\ Readable(F[k]) /\ F[k][1][1] = evs[k]
  <2>1. k \in 1 .. Len(evs) /\ n >= 3 * k
    BY <1>2
  <2> QED BY <1>3, <2>1 DEF FrameOf
<1>5. Heard(w) = {k \in 1 .. Len(evs) : evs[k] # "done" /\ n >= 3 * k}
  BY <1>1 DEF Heard
<1>6. \A k \in 1 .. Len(evs) : n >= 3 * k => k \in 1 .. n \div 3
  BY <1>2
<1>7. Heard(w) = {k \in 1 .. n \div 3 : F[k][1][1] # "done"}
  BY <1>4, <1>5, <1>6
<1>8. HeardIn(w, F)
  BY <1>2, <1>3, <1>4, <1>7 DEF HeardIn
<1> QED BY <1>1, <1>8

(* The unterminated last event is readable when both halves are there.     *)
LEMMA LastEvent ==
    ASSUME NEW w, WireOK(w), NEW rest,
           rest = IF Rest(Wire(w)) = <<>> THEN <<>> ELSE <<Rest(Wire(w))>>
    PROVE  /\ Len(rest) \in Nat
           /\ \A k \in 1 .. Len(rest) : rest[k][1][1] \in Events
           /\ ReadableEvents(w) =
                 Heard(w) \cup Brought(rest, Len(Frames(Wire(w))), Len(rest))
<1>1. PICK evs, n, s : evs = w.evs /\ n = w.n /\ s = Rest(Wire(w))
  OBVIOUS
<1>2. /\ WireCut(evs, n) /\ n \in Nat /\ Len(evs) = (n + 2) \div 3
      /\ \A k \in 1 .. Len(evs) : evs[k] \in Events
  BY <1>1, WireFacts
<1>3. PICK q \in Nat, m \in 0 .. 2 : q = n \div 3 /\ m = n % 3 /\ n = 3 * q + m
  BY <1>2
<1>4. PICK e : e = evs[1 + q]
  OBVIOUS
<1>5. RestOf(s, e, m) /\ Len(Frames(Wire(w))) = q
  BY <1>1, <1>2, <1>3, <1>4 DEF WireCut, Rest, Frames, Wire
<1>6. \A k \in 1 .. Len(evs) : n >= 3 * k - 1 <=> n >= 3 * k \/ (m = 2 /\ k = q + 1)
  BY <1>2, <1>3
<1>7. /\ Heard(w) = {k \in 1 .. Len(evs) : evs[k] # "done" /\ n >= 3 * k}
      /\ ReadableEvents(w) = {k \in 1 .. Len(evs) : evs[k] # "done" /\ n >= 3 * k - 1}
  BY <1>1 DEF Heard, ReadableEvents
<1>8. CASE m = 0
  <2>1. rest = <<>>
    BY <1>1, <1>5, <1>8 DEF RestOf
  <2>2. Len(rest) = 0 /\ 1 .. 0 = {}
    BY <2>1
  <2>3. Brought(rest, q, 0) = {}
    BY <2>2 DEF Brought
  <2>4. ReadableEvents(w) = Heard(w)
    BY <1>6, <1>7, <1>8
  <2> QED BY <1>5, <2>2, <2>3, <2>4
<1>9. CASE m > 0
  <2>1. Len(s) = m /\ s[1][1] = e /\ s[1][2] = 1 /\ (m = 2 => s[2][2] = 2)
    BY <1>5, <1>9 DEF RestOf
  <2>2. s # <<>>
    <3>1. Len(s) # 0 /\ Len(<<>>) = 0
      BY <1>9, <2>1
    <3> QED BY <3>1
  <2>3. rest = <<s>>
    BY <1>1, <2>2
  <2>4. Len(rest) = 1 /\ rest[1] = s
    BY <2>3
  <2>5. q + 1 \in 1 .. Len(evs) /\ 1 + q = q + 1
    BY <1>2, <1>3, <1>9
  <2>6. e \in Events /\ e = evs[q + 1]
    BY <1>2, <1>4, <2>5
  <2>7. \A k : k \in 1 .. 1 <=> k = 1
    OBVIOUS
  <2>8. \A k \in 1 .. Len(rest) : rest[k][1][1] \in Events
    BY <2>1, <2>4, <2>6, <2>7
  <2>9. Readable(s) <=> m = 2
    BY <1>9, <2>1 DEF Readable
  <2>10. Brought(rest, q, 1) = IF m = 2 /\ e # "done" THEN {q + 1} ELSE {}
    <3>1. {j \in 1 .. 1 : Readable(rest[j]) /\ rest[j][1][1] # "done"} =
             IF m = 2 /\ e # "done" THEN {1} ELSE {}
      BY <2>1, <2>4, <2>7, <2>9
    <3> QED BY <3>1 DEF Brought
  <2>11. ReadableEvents(w) = Heard(w) \cup Brought(rest, q, 1)
    BY <1>6, <1>7, <2>5, <2>6, <2>10
  <2> QED BY <1>5, <2>4, <2>8, <2>11
<1> QED BY <1>8, <1>9

(* The chunk behind what was sent, and behind what is pending of it.       *)
Sends(v, w, chunk, b) == Wire(w) = Wire(v) \o chunk /\ b = Rest(Wire(v)) \o chunk

(***************************************************************************)
(* One chunk of a Responses stream: the translator hears the events that   *)
(* the chunk terminates, and keeps the unterminated rest.                  *)
(***************************************************************************)
LEMMA ChunkHears ==
    ASSUME NEW v, WireOK(v), NEW w, WireOK(w), NEW chunk \in Seq(AnyPiece),
           Wire(v) \in Seq(AnyPiece), NEW b, Sends(v, w, chunk, b), NEW t, Hears(t, Heard(v))
    PROVE  /\ Hears(Feed(t, Frames(b), Len(Frames(Wire(v)))), Heard(w))
           /\ Rest(b) = Rest(Wire(w))
<1>1. PICK sent \in Seq(AnyPiece), all \in Seq(AnyPiece) :
         sent = Wire(v) /\ all = Wire(w) /\ all = sent \o chunk
  <2>1. Wire(v) \o chunk \in Seq(AnyPiece)
    OBVIOUS
  <2> QED BY <2>1 DEF Sends
<1>2. PICK s \in States(AnyPiece) : s = Split(sent)
  BY SplitType
<1>3. PICK F \in Seq(Seq(AnyPiece)), rest \in Seq(AnyPiece) : F = s.frames /\ rest = s.rest
  BY DEF States
<1>4. b = rest \o chunk /\ b \in Seq(AnyPiece) /\ Frames(Wire(v)) = F
  <2>1. Rest(Wire(v)) = rest /\ Frames(Wire(v)) = F
    BY <1>1, <1>2, <1>3 DEF Rest, Frames
  <2>2. rest \o chunk \in Seq(AnyPiece)
    OBVIOUS
  <2> QED BY <2>1, <2>2 DEF Sends
<1>5. PICK u \in States(AnyPiece) : u = Split(b)
  BY <1>4, SplitType
<1>6. PICK H \in Seq(Seq(AnyPiece)), left \in Seq(AnyPiece) : H = u.frames /\ left = u.rest
  BY DEF States
<1>7. Split(all) = [frames |-> F \o H, rest |-> left]
  <2>1. GoesOn(sent, chunk)
    BY SplitGoesOn
  <2> QED BY <1>1, <1>2, <1>3, <1>4, <1>5, <1>6, <2>1 DEF GoesOn, Before
<1>8. Frames(Wire(w)) = F \o H /\ Rest(Wire(w)) = left /\ Frames(b) = H /\ Rest(b) = left
  <2>1. Split(all).frames = F \o H /\ Split(all).rest = left
    BY <1>7
  <2> QED BY <1>1, <1>5, <1>6, <2>1, Zenon DEF Frames, Rest
<1>9. PICK U : U = F \o H
  OBVIOUS
<1>10. PICK m \in Nat, n \in Nat : m = Len(F) /\ n = Len(H)
  OBVIOUS
<1>11. /\ Len(U) = m + n
       /\ \A i \in 1 .. m : U[i] = F[i]
       /\ \A i \in 1 .. n : U[m + i] = H[i]
  <2>1. PICK T : T = Seq(AnyPiece)
    OBVIOUS
  <2>2. F \in Seq(T) /\ H \in Seq(T)
    BY <2>1
  <2>3. Joined(F, H, U, T)
    BY <1>9, <2>2, JoinedFacts
  <2> QED BY <1>10, <2>3 DEF Joined
<1>12. Heard(v) = {k \in 1 .. m : F[k][1][1] # "done"}
  <2>1. HeardIn(v, F)
    BY <1>4, HeardFacts
  <2> QED BY <1>10, <2>1 DEF HeardIn
<1>13. /\ Heard(w) = {k \in 1 .. m + n : U[k][1][1] # "done"}
       /\ \A k \in 1 .. m + n : Readable(U[k]) /\ U[k][1][1] \in Events
  <2>1. HeardIn(w, U)
    BY <1>8, <1>9, HeardFacts
  <2> QED BY <1>11, <2>1 DEF HeardIn
<1>14. ASSUME NEW j \in 1 .. n
       PROVE  m + j \in 1 .. m + n /\ U[m + j] = H[j] /\ Readable(H[j]) /\ H[j][1][1] \in Events
  <2>1. m + j \in 1 .. m + n
    OBVIOUS
  <2>2. U[m + j] = H[j]
    BY <1>11
  <2> QED BY <1>13, <2>1, <2>2
<1>15. Heard(w) = Heard(v) \cup Brought(H, m, n)
  <2>1. ASSUME NEW k \in Heard(v) PROVE k \in Heard(w)
    <3>1. k \in 1 .. m /\ F[k][1][1] # "done"
      BY <1>12, <2>1
    <3>2. k \in 1 .. m + n /\ U[k] = F[k]
      BY <1>11, <3>1
    <3> QED BY <1>13, <3>1, <3>2
  <2>2. ASSUME NEW k \in Brought(H, m, n) PROVE k \in Heard(w)
    <3>1. PICK j \in 1 .. n : H[j][1][1] # "done" /\ k = m + j
      BY <2>2 DEF Brought
    <3> QED BY <1>13, <1>14, <3>1
  <2>3. ASSUME NEW k \in Heard(w) PROVE k \in Heard(v) \/ k \in Brought(H, m, n)
    <3>1. k \in 1 .. m + n /\ U[k][1][1] # "done"
      BY <1>13, <2>3
    <3>2. CASE k \in 1 .. m
      BY <1>11, <1>12, <3>1, <3>2
    <3>3. CASE k \notin 1 .. m
      <4>1. PICK j \in 1 .. n : k = m + j
        <5>1. k - m \in 1 .. n /\ k = m + (k - m)
          BY <3>1, <3>3
        <5> QED BY <5>1
      <4>2. Readable(H[j]) /\ H[j][1][1] # "done"
        BY <1>14, <3>1, <4>1
      <4> QED BY <4>1, <4>2 DEF Brought
    <3> QED BY <3>2, <3>3
  <2> QED BY <2>1, <2>2, <2>3
<1>16. Hears(Feed(t, H, m), Heard(v) \cup Brought(H, m, Len(H)))
  <2>1. Len(H) \in Nat /\ \A k \in 1 .. Len(H) : H[k][1][1] \in Events
    BY <1>10, <1>14
  <2> QED BY <2>1, FeedHears
<1> QED BY <1>4, <1>8, <1>10, <1>15, <1>16, Zenon

(* A stream begins with nothing heard.                                     *)
LEMMA StartHears == Hears(start(translator), {})
<1>1. PICK t : t = translator
  OBVIOUS
<1>2. /\ t.seq = 0 /\ t.items = <<>> /\ t._tool_order = <<>> /\ t.completed = FALSE
      /\ t.frames = <<>>
  BY <1>1 DEF translator
<1>3. t \in Translators
  BY <1>1 DEF translator, Translators
<1>4. 1 .. 0 = {} /\ Len(<<>>) = 0 /\ 0 .. -1 = {}
  OBVIOUS
<1>5. KeysOK(t) /\ Texts(t) = {}
  BY <1>2, <1>4 DEF KeysOK, Texts
<1>6. ASSUME NEW type PROVE OfType(<<>>, type) = {}
  BY <1>4 DEF OfType
<1>7. Cardinality({}) = 0
  BY FS_EmptySet
<1>8. Growing(<<>>)
  <2>1. 0 - 1 = -1
    OBVIOUS
  <2> QED BY <1>4, <1>6, <1>7, <2>1 DEF Growing
<1>9. Hears(t, {})
  <2>1. TranslatorOK(t)
    BY <1>2, <1>3, <1>4, <1>5, <1>6, <1>7, <1>8 DEF TranslatorOK
  <2> QED BY <1>2, <1>5, <1>6, <2>1 DEF Hears, Open
<1>10. "created" \in FrameTypes /\ "in_progress" \in FrameTypes /\ NoIndex \in Int /\ <<>> \in Seq(Nat)
  BY DEF FrameTypes, NoIndex
<1>11. PICK u : u = _emit(t, "created", NoIndex, <<>>)
  OBVIOUS
<1>12. Hears(u, {})
  BY <1>9, <1>10, <1>11, EmitHears
<1>13. Hears(_emit(u, "in_progress", NoIndex, <<>>), {})
  BY <1>10, <1>12, EmitHears
<1> QED BY <1>1, <1>11, <1>13, Zenon DEF start

-----------------------------------------------------------------------------
(* Responses turns, step by step.                                          *)

(* A step of one call, from what its turn becomes.                         *)
LEMMA TurnStep ==
    ASSUME IInv, TurnInv, NEW c \in Callers, NEW v, TurnOK(v), r' = [r EXCEPT ![c] = v]
    PROVE  TurnInv'
<1>1. DOMAIN r = Callers
  BY DEF IInv
<1>2. r'[c] = v /\ \A d \in Callers : d # c => r'[d] = r[d]
  BY <1>1
<1> QED BY <1>2 DEF TurnInv

(* A call that translates nothing, yet or any more.                        *)
LEMMA NoTurnStep ==
    ASSUME IInv, TurnInv, NEW c \in Callers, NEW v, r' = [r EXCEPT ![c] = v],
           v.ph # "stream" \/ v.path # "responses", v.tr = translator
    PROVE  TurnInv'
<1>1. translator.frames = <<>>
  BY DEF translator
<1>2. TurnOK(v)
  BY <1>1 DEF TurnOK
<1> QED BY <1>2, TurnStep

(* Return: the handler ends without a stream.                              *)
LEMMA ReturnsTurn ==
    ASSUME IInv, TurnInv, NEW c \in Callers, NEW n, NEW met, NEW lost, Return(c, n, met, lost)
    PROVE  TurnInv'
<1>1. PICK s : s = IF n = 0 THEN finish_request(Slot(c)) ELSE finish_request(finish_request(Slot(c)))
  OBVIOUS
<1>2. PICK v : v = [Idle EXCEPT !.op = r[c].op, !.stream = r[c].stream, !.path = r[c].path,
                                !.ph = "end", !.fin = s.fin, !.met = met, !.lost = lost]
  OBVIOUS
<1>3. r' = [r EXCEPT ![c] = v]
  BY <1>1, <1>2, Zenon DEF Return
<1>4. v.ph = "end" /\ v.tr = translator
  BY <1>2 DEF Idle
<1> QED BY <1>3, <1>4, NoTurnStep

(* Enter: a call arrives.                                                  *)
LEMMA EnterTurn ==
    ASSUME IInv, TurnInv, NEW c \in Callers, NEW op, NEW model, NEW media, NEW stream,
           Enter(c, op, model, media, stream)
    PROVE  TurnInv'
<1>1. PICK v : v = [Idle EXCEPT !.op = op, !.model = model, !.media = media, !.stream = stream,
                                !.ph = IF op = "list" THEN "routes" ELSE "body"]
  OBVIOUS
<1>2. r' = [r EXCEPT ![c] = v]
  BY <1>1 DEF Enter
<1>3. v.tr = translator /\ v.ph # "stream"
  BY <1>1 DEF Idle
<1> QED BY <1>2, <1>3, NoTurnStep

(* The steps of a call before its request, and of a list.                  *)
LEMMA RoutingTurn ==
    ASSUME IInv, TurnInv, NEW c \in Callers,
           \/ _dispatch_proxy(c) \/ _dispatch_responses(c) \/ read_upstream_exposure(c)
           \/ ReadUrl(c) \/ ReadKey(c)
           \/ openai_models(c) \/ list_upstream_models(c) \/ CacheGet(c) \/ FetchModels(c)
           \/ CacheSet(c)
    PROVE  TurnInv'
<1>1. r[c].ph \notin {"stream", "end"} /\ Routed(c)
  BY RoutingMoves
<1>2. ASSUME NEW n, NEW met, NEW lost, Return(c, n, met, lost) PROVE TurnInv'
  BY <1>2, ReturnsTurn
<1>3. r[c].tr = translator
  BY <1>1 DEF TurnInv, TurnOK
<1>4. ASSUME NEW v, Moves(c, v) PROVE TurnInv'
  BY <1>3, <1>4, NoTurnStep DEF Moves, Kept
<1> QED BY <1>1, <1>2, <1>4 DEF Routed

(* A request that is answered whole, with an error, or not at all.         *)
LEMMA SendTurns ==
    ASSUME IInv, TurnInv, NEW c \in Callers, SendFails(c) \/ SendError(c) \/ SendWhole(c)
    PROVE  TurnInv'
  BY ReturnsTurn DEF SendFails, SendError, SendWhole, RecordAndReturn

(* The headers of a stream: the translator greets and has heard nothing.   *)
LEMMA SendStreamTurns ==
    ASSUME IInv, RelayInv, TurnInv, NEW c \in Callers, SendStream(c)
    PROVE  TurnInv'
<1>1. /\ r[c].ph = "send" /\ DOMAIN r[c] = Fields /\ r = [d \in Callers |-> r[d]]
      /\ RelayOK(r[c]) /\ TurnOK(r[c])
  BY DEF SendStream, IInv, CallOK, RelayInv, TurnInv
<1>2. PICK tr : tr = IF r[c].path = "responses" THEN start(translator) ELSE r[c].tr
  OBVIOUS
<1>3. PICK v : v = [r[c] EXCEPT !.ph = "stream", !.model = None, !.media = {}, !.url = None,
                                !.key = None, !.sel = {}, !.tr = tr]
  OBVIOUS
<1>4. r' = [r EXCEPT ![c] = v]
  BY <1>1, <1>2, <1>3 DEF SendStream, Fields
<1>5. /\ v.wire = r[c].wire /\ v.pending = r[c].pending /\ v.path = r[c].path /\ v.tr = tr
      /\ v.ph = "stream"
  BY <1>1, <1>3 DEF Fields
<1>6. v.wire = NoWire /\ v.pending = <<>>
  BY <1>1, <1>5 DEF RelayOK
<1>7. Rest(Wire(NoWire)) = <<>> /\ Heard(NoWire) = {}
  <2>1. NoWire.evs = <<>> /\ NoWire.n = 0 /\ Len(<<>>) = 0 /\ 1 .. 0 = {}
    BY DEF NoWire
  <2>2. Wire(NoWire) = <<>>
    BY <2>1 DEF Wire, Pieces
  <2>3. Rest(<<>>) = <<>>
    BY SplitEmpty DEF Rest, Nothing
  <2> QED BY <2>1, <2>2, <2>3 DEF Heard
<1>8. CASE r[c].path = "responses"
  <2>1. Hears(v.tr, {})
    BY <1>2, <1>5, <1>8, StartHears
  <2>2. TurnOK(v)
    BY <1>5, <1>6, <1>7, <2>1 DEF TurnOK, Hears
  <2> QED BY <1>4, <2>2, TurnStep
<1>9. CASE r[c].path # "responses"
  <2>1. TurnOK(v)
    BY <1>5, <1>9 DEF TurnOK
  <2> QED BY <1>4, <2>1, TurnStep
<1> QED BY <1>8, <1>9

(***************************************************************************)
(* A chunk: the translator of a Responses stream is fed the frames that    *)
(* the chunk completes; the other relays have none.                        *)
(***************************************************************************)
LEMMA RelayTurns ==
    ASSUME IInv, RelayInv, TurnInv, NEW c \in Callers, RelayChunk(c)
    PROVE  TurnInv'
<1>1. /\ r[c].ph = "stream" /\ DOMAIN r[c] = Fields /\ r = [d \in Callers |-> r[d]]
      /\ RelayOK(r[c]) /\ TurnOK(r[c])
  BY DEF RelayChunk, IInv, CallOK, RelayInv, TurnInv
<1>2. PICK x : x = r[c]
  OBVIOUS
<1>3. /\ x.ph = "stream" /\ DOMAIN x = Fields /\ WireOK(x.wire)
      /\ x.path = "responses" => x.pending = Rest(Wire(x.wire)) /\ Hears(x.tr, Heard(x.wire))
  BY <1>1, <1>2 DEF RelayOK, TurnOK, Hears
<1>4. PICK w \in More(x.wire, MaxEvents[c]) :
        LET chunk == SubSeq(Wire(w), x.wire.n + 1, w.n)
        IN  CASE x.path = "local" -> stream_body(c, w, chunk)
              [] x.path = "fallback" -> relay_verbatim(c, w, chunk)
              [] OTHER -> translate(c, w, chunk)
  BY <1>2 DEF RelayChunk
<1>5. PICK chunk : chunk = SubSeq(Wire(w), x.wire.n + 1, w.n)
  OBVIOUS
<1>6. /\ WireOK(w) /\ chunk \in Seq(AnyPiece) /\ Wire(w) = Wire(x.wire) \o chunk
      /\ Wire(x.wire) \in Seq(AnyPiece)
  <2>1. MaxEvents[c] \in Nat
    BY GatewayAssumption
  <2> QED BY <1>3, <1>4, <1>5, <2>1, ChunkFacts, WireType
<1>7. CASE x.path = "local"
  <2>1. stream_body(c, w, chunk)
    BY <1>4, <1>5, <1>7
  <2>2. PICK b : b = x.pending \o chunk
    OBVIOUS
  <2>3. PICK whole, rest, seen : /\ whole = x.out \o SubSeq(b, 1, Len(b) - Len(Rest(b)))
                                 /\ rest = Rest(b) /\ seen = (x.done \/ HasDone(Frames(b)))
    OBVIOUS
  <2>4. PICK v : v = [x EXCEPT !.wire = w, !.pending = rest, !.out = whole, !.done = seen]
    OBVIOUS
  <2>5. r' = [r EXCEPT ![c] = v]
    BY <1>1, <1>2, <2>1, <2>2, <2>3, <2>4 DEF stream_body, buffered, Fields
  <2>6. v.ph = "stream" /\ v.path = "local"
    BY <1>3, <1>7, <2>4 DEF Fields
  <2>7. TurnOK(v)
    BY <2>6 DEF TurnOK
  <2> QED BY <2>5, <2>7, TurnStep
<1>8. CASE x.path = "fallback"
  <2>1. relay_verbatim(c, w, chunk)
    BY <1>4, <1>5, <1>8
  <2>2. PICK out : out = x.out \o chunk
    OBVIOUS
  <2>3. PICK v : v = [x EXCEPT !.wire = w, !.out = out]
    OBVIOUS
  <2>4. r' = [r EXCEPT ![c] = v]
    BY <1>1, <1>2, <2>1, <2>2, <2>3 DEF relay_verbatim, Fields
  <2>5. v.ph = "stream" /\ v.path = "fallback"
    BY <1>3, <1>8, <2>3 DEF Fields
  <2>6. TurnOK(v)
    BY <2>5 DEF TurnOK
  <2> QED BY <2>4, <2>6, TurnStep
<1>9. CASE x.path \notin {"local", "fallback"}
  <2>1. translate(c, w, chunk)
    BY <1>4, <1>5, <1>9
  <2>2. PICK b : b = x.pending \o chunk
    OBVIOUS
  <2>3. PICK rest, tr : rest = Rest(b) /\ tr = Feed(x.tr, Frames(b), Len(Frames(Wire(x.wire))))
    OBVIOUS
  <2>4. PICK v : v = [x EXCEPT !.wire = w, !.pending = rest, !.tr = tr]
    OBVIOUS
  <2>5. r' = [r EXCEPT ![c] = v]
    BY <1>1, <1>2, <2>1, <2>2, <2>3, <2>4 DEF translate, buffered, Fields
  <2>6. v.wire = w /\ v.pending = rest /\ v.tr = tr /\ v.ph = "stream" /\ v.path = x.path
    BY <1>3, <2>4 DEF Fields
  <2>7. ASSUME x.path = "responses" PROVE rest = Rest(Wire(w)) /\ Hears(tr, Heard(w))
    <3>1. b = Rest(Wire(x.wire)) \o chunk /\ Hears(x.tr, Heard(x.wire))
      BY <1>3, <2>2, <2>7
    <3>2. PICK z, t : z = x.wire /\ t = x.tr
      OBVIOUS
    <3>3. /\ WireOK(z) /\ WireOK(w) /\ chunk \in Seq(AnyPiece) /\ Wire(z) \in Seq(AnyPiece)
          /\ Sends(z, w, chunk, b) /\ Hears(t, Heard(z))
      BY <1>3, <1>6, <3>1, <3>2 DEF Sends
    <3>4. /\ Hears(Feed(t, Frames(b), Len(Frames(Wire(z)))), Heard(w))
          /\ Rest(b) = Rest(Wire(w))
      BY <3>3, ChunkHears
    <3> QED BY <2>3, <3>2, <3>4
  <2>8. TurnOK(v)
    BY <2>6, <2>7 DEF TurnOK, Hears
  <2> QED BY <2>5, <2>8, TurnStep
<1> QED BY <1>7, <1>8, <1>9

(* A keepalive is written by stream_body, which translates nothing.        *)
LEMMA HeartbeatTurns ==
    ASSUME IInv, TurnInv, NEW c \in Callers, RelayHeartbeat(c)
    PROVE  TurnInv'
<1>1. /\ r[c].ph = "stream" /\ r[c].path = "local" /\ DOMAIN r[c] = Fields
      /\ r = [d \in Callers |-> r[d]]
  BY DEF RelayHeartbeat, IInv, CallOK
<1>2. PICK out, beats : out = Append(r[c].out, Keepalive) /\ beats = r[c].beats + 1
  OBVIOUS
<1>3. PICK v : v = [r[c] EXCEPT !.out = out, !.beats = beats]
  OBVIOUS
<1>4. r' = [r EXCEPT ![c] = v]
  BY <1>1, <1>2, <1>3 DEF RelayHeartbeat, Fields
<1>5. v.ph = "stream" /\ v.path = "local"
  BY <1>1, <1>3 DEF Fields
<1>6. TurnOK(v)
  BY <1>5 DEF TurnOK
<1> QED BY <1>4, <1>6, TurnStep

(***************************************************************************)
(* The end of a stream: when upstream closed it, the translator hears an   *)
(* unterminated last event and finishes; when it broke off, nothing of     *)
(* the turn is kept.                                                       *)
(***************************************************************************)
LEMMA EndsTurns ==
    ASSUME IInv, RelayInv, TurnInv, NEW c \in Callers, UpstreamEnds(c) \/ UpstreamBreaks(c)
    PROVE  TurnInv'
<1>1. /\ r[c].ph = "stream" /\ DOMAIN r[c] = Fields /\ RelayOK(r[c]) /\ TurnOK(r[c])
  BY DEF UpstreamEnds, UpstreamBreaks, IInv, CallOK, RelayInv, TurnInv
<1>2. ASSUME NEW kept, DOMAIN kept = Fields, RelayEnds(c, kept),
             kept.tr.frames = <<>> \/ WellFormed(kept.tr.frames, kept.wire)
      PROVE  TurnInv'
  <2>1. PICK met, s : /\ met = IF r[c].path = "local" /\ ~r[c].done THEN "499" ELSE "200"
                      /\ s = finish_request(Slot(c))
    OBVIOUS
  <2>2. PICK v : /\ r' = [r EXCEPT ![c] = v]
                 /\ \/ v = [kept EXCEPT !.ph = "end", !.fin = s.fin, !.met = met]
                    \/ v = [kept EXCEPT !.ph = "end", !.lost = TRUE]
    BY <1>2, <2>1 DEF RelayEnds
  <2>3. v.ph = "end" /\ v.tr = kept.tr /\ v.wire = kept.wire
    BY <1>2, <2>2 DEF Fields
  <2>4. TurnOK(v)
    BY <1>2, <2>3 DEF TurnOK
  <2> QED BY <2>2, <2>4, TurnStep
<1>3. DOMAIN Forgotten(c) = Fields /\ Forgotten(c).tr.frames = <<>>
  <2>1. DOMAIN Forgotten(c) = Fields /\ Forgotten(c).tr = translator
    BY <1>1 DEF Forgotten, Fields
  <2>2. translator.frames = <<>>
    BY DEF translator
  <2> QED BY <2>1, <2>2
<1>4. CASE UpstreamEnds(c)
  <2>1. PICK w, n, rest, t : /\ w = r[c].wire /\ n = Len(Frames(Wire(w))) /\ t = r[c].tr
                             /\ rest = IF r[c].pending = <<>> THEN <<>> ELSE <<r[c].pending>>
    OBVIOUS
  <2>2. PICK tr : tr = finish(Feed(t, rest, n))
    OBVIOUS
  <2>3. PICK kept : kept = [r[c] EXCEPT !.tr = tr]
    OBVIOUS
  <2>4. RelayEnds(c, IF r[c].path = "responses" THEN kept ELSE Forgotten(c))
    <3>1. [r[c] EXCEPT !.tr = finish(Feed(@, rest, n))] = kept
      BY <1>1, <2>1, <2>2, <2>3 DEF Fields
    <3>2. RelayEnds(c, IF r[c].path = "responses"
                       THEN [r[c] EXCEPT !.tr = finish(Feed(@, rest, n))] ELSE Forgotten(c))
      BY <1>4, <2>1 DEF UpstreamEnds
    <3> QED BY <3>1, <3>2
  <2>5. DOMAIN kept = Fields /\ kept.tr = tr /\ kept.wire = w
    BY <1>1, <2>1, <2>3 DEF Fields
  <2>6. CASE r[c].path = "responses"
    <3>1. WireOK(w) /\ r[c].pending = Rest(Wire(w)) /\ Hears(t, Heard(w))
      BY <1>1, <2>1, <2>6 DEF RelayOK, TurnOK, Hears
    <3>2. rest = IF Rest(Wire(w)) = <<>> THEN <<>> ELSE <<Rest(Wire(w))>>
      BY <2>1, <3>1
    <3>3. /\ Len(rest) \in Nat
          /\ \A k \in 1 .. Len(rest) : rest[k][1][1] \in Events
          /\ ReadableEvents(w) = Heard(w) \cup Brought(rest, n, Len(rest))
      BY <2>1, <3>1, <3>2, LastEvent, Zenon
    <3>4. n \in Nat
      <4>1. WireCut(w.evs, w.n) /\ w.n \in Nat
        BY <3>1, WireFacts
      <4> QED BY <2>1, <4>1 DEF WireCut, Wire, Frames
    <3>5. Hears(Feed(t, rest, n), ReadableEvents(w))
      BY <3>1, <3>3, <3>4, FeedHears
    <3>6. WellFormed(tr.frames, w)
      BY <2>2, <3>5, FinishFacts
    <3> QED BY <1>2, <2>4, <2>5, <2>6, <3>6
  <2>7. CASE r[c].path # "responses"
    BY <1>2, <1>3, <2>4, <2>7
  <2> QED BY <2>6, <2>7
<1>5. CASE UpstreamBreaks(c)
  BY <1>2, <1>3, <1>5 DEF UpstreamBreaks
<1> QED BY <1>4, <1>5

(* Nothing is translated at first.                                         *)
LEMMA InitTurns == Init => TurnInv
<1>1. TurnOK(Idle)
  BY DEF Idle, TurnOK
<1> QED BY <1>1 DEF Init, TurnInv

(* Every step keeps what the translators know.                             *)
LEMMA InductiveTurns == IInv /\ RelayInv /\ TurnInv /\ [Next]_vars => TurnInv'
<1> SUFFICES ASSUME IInv, RelayInv, TurnInv, [Next]_vars PROVE TurnInv'
  OBVIOUS
<1>1. CASE UNCHANGED vars
  BY <1>1 DEF vars, TurnInv
<1>2. CASE put_upstream \/ put_upstream_exposure \/ put_commit \/ CacheExpire
  <2>1. r' = r
    BY <1>2 DEF put_upstream, put_upstream_exposure, put_commit, CacheExpire, Begin
  <2> QED BY <2>1 DEF TurnInv
<1>3. ASSUME NEW c \in Callers,
             \/ \E m \in Models \cup {None}, x \in SUBSET Media, s \in BOOLEAN :
                   Enter(c, "proxy", m, x, s)
             \/ \E m \in Models \cup {None}, s \in BOOLEAN : Enter(c, "responses", m, {}, s)
             \/ Enter(c, "list", None, {}, FALSE)
      PROVE  TurnInv'
  BY <1>3, EnterTurn
<1> QED BY <1>1, <1>2, <1>3, RoutingTurn, SendTurns, SendStreamTurns, RelayTurns,
           HeartbeatTurns, EndsTurns DEF Next

(***************************************************************************)
(* A Responses stream is well formed for any number and kind of events,    *)
(* however upstream interleaves reasoning, content and tool calls and      *)
(* wherever its chunks are cut: frames are numbered without a gap, output  *)
(* indices are opened once and in order before their deltas, and a         *)
(* completed stream closed every item once with the text of its deltas and *)
(* translated every readable event, an unterminated last one included.     *)
(***************************************************************************)
THEOREM ResponsesStayWellFormed == Spec => []ResponsesAreWellFormed
<1>1. IInv /\ TurnInv => ResponsesAreWellFormed
  <2> SUFFICES ASSUME IInv, TurnInv, NEW c \in Callers, r[c].path = "responses",
                      r[c].tr.frames # <<>>
               PROVE  WellFormed(r[c].tr.frames, r[c].wire)
    BY DEF ResponsesAreWellFormed
  <2>1. TurnOK(r[c])
    BY DEF TurnInv
  <2>2. CASE r[c].ph = "stream"
    <3>1. TranslatorOK(r[c].tr) /\ Open(r[c].tr)
      BY <2>1, <2>2 DEF TurnOK
    <3> QED BY <3>1 DEF TranslatorOK, Open, WellFormed
  <2>3. CASE r[c].ph = "end"
    BY <2>1, <2>3 DEF TurnOK
  <2>4. CASE r[c].ph \notin {"stream", "end"}
    BY <2>1, <2>4 DEF TurnOK, translator
  <2> QED BY <2>2, <2>3, <2>4
<1>2. IInv /\ RelayInv /\ TurnInv /\ [Next]_vars => (IInv /\ RelayInv /\ TurnInv)'
  BY Inductive, InductiveRelays, InductiveTurns
<1>3. Init => IInv /\ RelayInv /\ TurnInv
  BY InitInv, InitRelays, InitTurns
<1> QED BY <1>1, <1>2, <1>3, PTL DEF Spec
=============================================================================
