--------------------------- MODULE ResponsesStream ---------------------------
(***************************************************************************)
(* The translation of a chat completion stream into a Responses stream     *)
(* (backend/app/gateway/responses_stream.py) as operators on the           *)
(* translator's state.  An event of the chat stream is one of Events; its  *)
(* text is its ordinal in the stream, so a text is a sequence of ordinals. *)
(* A frame is a record with the sequence number, the event type, the       *)
(* output index and the text it carries.                                   *)
(***************************************************************************)
EXTENDS Integers, Sequences, SequencesExt

\* "think": reasoning, "text": content, "both": reasoning and content in one
\* delta, "call": a piece of tool call 0, "callx": one without an index,
\* "done": [DONE], which the parser drops.  Usage and the finish reason, which
\* only the last frame's payload shows, are left out.
Events == {"think", "text", "both", "call", "callx", "done"}

NoIndex == -1

\* ResponsesStreamTranslator.__init__: items are kept in the order they were
\* opened; key tells _reasoning, _message and the entries of _tool_calls apart.
translator == [seq |-> 0, items |-> <<>>, _tool_order |-> <<>>, completed |-> FALSE,
               frames |-> <<>>]

_emit(t, type, index, text) ==
    [t EXCEPT !.seq = @ + 1,
              !.frames = Append(@, [n |-> t.seq, type |-> type, index |-> index, text |-> text])]

item(t, key) == CHOOSE i \in DOMAIN t.items : t.items[i].key = key
opened(t, key) == \E i \in DOMAIN t.items : t.items[i].key = key

start(t) ==
    _emit(_emit(t, "created", NoIndex, <<>>), "in_progress", NoIndex, <<>>)

\* A new item takes the next index, the number of items opened so far.
open(t, key) ==
    _emit([t EXCEPT !.items = Append(@, [key |-> key, text |-> <<>>])],
          "item.added", Len(t.items), <<>>)

\* _ensure_reasoning and _ensure_message: an item with one part.
ensure(t, key) ==
    IF opened(t, key) THEN t ELSE _emit(open(t, key), "part.added", Len(t.items), <<>>)

_ensure_reasoning(t) ==
    ensure(t, -2)

_ensure_message(t) ==
    ensure(t, -1)

_ensure_tool_call(t, key) ==
    IF opened(t, key) THEN t ELSE open([t EXCEPT !._tool_order = Append(@, key)], key)

\* mutant: the text is replaced by the latest piece
DeltaReplaces(t, key, n) ==
    LET i == item(t, key)
    IN  _emit([t EXCEPT !.items[i].text = <<n>>], "delta", i - 1, <<n>>)

\* One piece for an open item: kept with its text, and sent.
delta(t, key, n) ==
    LET i == item(t, key)
    IN  _emit([t EXCEPT !.items[i].text = Append(@, n)], "delta", i - 1, <<n>>)

feed_reasoning(t, e, n) ==
    IF e \in {"think", "both"} THEN delta(_ensure_reasoning(t), -2, n) ELSE t

feed_content(t, e, n) ==
    IF e \in {"text", "both"} THEN delta(_ensure_message(t), -1, n) ELSE t

\* A call without an integer index has the number of calls so far as its key,
\* which may be a key in use: then it goes on with that call.  The one index of
\* the model is 0, and every piece of a call has arguments.
feed_tool_calls(t, e, n) ==
    LET key == IF e = "call" THEN 0 ELSE Len(t._tool_order)
    IN  IF e \in {"call", "callx"} THEN delta(_ensure_tool_call(t, key), key, n) ELSE t

feed(t, e, n) ==
    feed_tool_calls(feed_content(feed_reasoning(t, e, n), e, n), e, n)

\* The keys of the items that finish() closes, in its order: reasoning,
\* message, tool calls.
output(t) ==
    LET has(key) == IF opened(t, key) THEN <<key>> ELSE <<>>
    IN  has(-2) \o has(-1) \o t._tool_order

\* A tool call has no part.
close(t, key) ==
    LET i == item(t, key)
        text == t.items[i].text
        u == _emit(t, "text.done", i - 1, text)
        v == IF key \in {-2, -1} THEN _emit(u, "part.done", i - 1, text) ELSE u
    IN  _emit(v, "item.done", i - 1, text)

closed(t, keys) ==
    LET then[j \in 0 .. Len(keys)] == IF j = 0 THEN t ELSE close(then[j - 1], keys[j])
    IN  then[Len(keys)]

finish(t) ==
    IF t.completed THEN t
    ELSE _emit(closed([t EXCEPT !.completed = TRUE], output(t)), "completed", NoIndex,
               [j \in DOMAIN output(t) |-> item(t, output(t)[j]) - 1])
=============================================================================
