------------------------------- MODULE Capture -------------------------------
(***************************************************************************)
(* The capture of a session by cxtx: the proxy's exchanges (proxy.rs) and  *)
(* the history that SessionRuntime compares every request with, to upload  *)
(* only what is new (session.rs).  The child holds one or more             *)
(* conversations and replays each from its start with every request.       *)
(*                                                                         *)
(* A turn's ordinal is its place in "uploaded"; how turns travel to CXDB   *)
(* from there is Delivery's subject.                                       *)
(***************************************************************************)
EXTENDS Provider

CONSTANTS
    Convs,          \* conversations of the child: the main one, its sub-agents
    Routes,         \* the formats they may have: one provider's or, for Pi, both
    Inputs,         \* for each request: items the child may add (user input,
                    \* tool results, a mode), or Nothing to repeat the last one
    Answers,        \* for each request: answers the provider may give
    Chunk,          \* frames in a chunk of a stream, unless it holds all the rest
    MaxUpsets       \* bound: errors of the child, the provider or the disk

\* What the code has of JSON arrays are sequences.
IsSeq(s) == s \in Seq(ToSet(s))
Protocols == {"chat", "responses", "websocket", "anthropic"}

\* The child says nothing, a text, the result of a call or a change of mode, and gets an answer.
ASSUME CaptureAssumption ==
    /\ Routes \subseteq [Convs -> Protocols]
    /\ Len(Inputs) \in Nat
    /\ \A n \in 1 .. Len(Inputs) :
          /\ \A item \in Inputs[n] : /\ item.kind \in {"nothing", "user", "result", "mode"}
                                     /\ item.kind = "nothing" => item = Nothing
                                     /\ item.kind = "user" => IsSeq(item.parts)
          /\ \A a \in Answers[n] : a.kind = "answer" /\ IsSeq(a.calls)

VARIABLES
    proto,          \* conversation -> its format
    conv,           \* conversation -> its items, as the child has them
    exchanges,      \* the exchanges, in the order of their ids
    observed,       \* observed_history
    uploaded,       \* the turns taken, by ordinal
    upsets,         \* errors so far
    requests,       \* requests so far
    raced           \* history: a request came before the answer was taken

captureVars == <<proto, conv, exchanges, observed, uploaded, upsets, requests, raced>>

-----------------------------------------------------------------------------
(* SessionRuntime.                                                         *)

\* Mutant: the finish reason is kept.
normalize_model_only(item) ==
    IF item.kind = "assistant" THEN [item EXCEPT !.model = None] ELSE item

\* A replayed answer names neither the model that gave it nor why it ended.
normalize_history_item(item) ==
    IF item.kind = "assistant" THEN [item EXCEPT !.model = None, !.finish = None] ELSE item

common_prefix_len(left, right) ==
    LET agree == {n \in 0 .. Len(left) : n <= Len(right) /\ \A i \in 1 .. n : left[i] = right[i]}
    IN CHOOSE n \in agree : \A k \in agree : k <= n

Rewrite(before, after) == [kind |-> "rewrite", before |-> before, after |-> after]
ErrorTurn == [kind |-> "error"]

\* Mutant: as many items as were observed are skipped, in a rewritten history too.
RequestTurnsByLength(seen, history) ==
    LET prefix == common_prefix_len(seen, Each(normalize_history_item, history))
    IN (IF prefix < Len(seen) THEN <<Rewrite(Len(seen), Len(history))>> ELSE <<>>)
       \o SubSeq(history, Len(seen) + 1, Len(history))

\* observe_request_history: the turns of a request, by the history so far.
RequestTurns(seen, history) ==
    LET prefix == common_prefix_len(seen, Each(normalize_history_item, history))
    IN (IF prefix < Len(seen) THEN <<Rewrite(Len(seen), Len(history))>> ELSE <<>>)
       \o SubSeq(history, prefix + 1, Len(history))

\* append_history_item for the item, if there is one.
Appended(turns, item) == IF item = Nothing THEN turns ELSE Append(turns, item)
Noted(seen, item) == IF item = Nothing THEN seen ELSE Append(seen, normalize_history_item(item))

append_history_item(item) ==
    /\ uploaded' = Appended(uploaded, item)
    /\ observed' = Noted(observed, item)

\* provider_error_turn: an ordinal, and the history stays.
provider_error_turn ==
    /\ uploaded' = Append(uploaded, ErrorTurn)
    /\ UNCHANGED observed

\* Bound: errors after which the child still asks.
Upset == upsets < MaxUpsets /\ requests < Len(Inputs) /\ upsets' = upsets + 1

-----------------------------------------------------------------------------
(* Requests.  The child waits for the end of an answer, not for the proxy  *)
(* to have taken it: a stream may be complete and still be open.           *)

Exchange(c, phase, model) ==
    [conv |-> c, phase |-> phase, state |-> NewExchange(model), left |-> <<>>, answer |-> Nothing]

Of(c) == {e \in DOMAIN exchanges : exchanges[e].conv = c}
Waits(c) == \E e \in Of(c) : \/ exchanges[e].phase = "request"
                             \/ exchanges[e].phase \in {"stream", "relay"} /\ exchanges[e].left # <<>>
Untaken(c) == \E e \in Of(c) : exchanges[e].phase \in {"stream", "unsaved"}

Asks(c) ==
    /\ ~Waits(c)
    /\ requests < Len(Inputs) /\ requests' = requests + 1
    /\ raced' = (raced \/ Untaken(c))

\* The child says something new, or repeats a request that has no answer.
Says(c, item) ==
    IF item = Nothing
    THEN conv[c] # <<>> /\ Last(conv[c]).kind # "answer" /\ UNCHANGED conv
    ELSE conv' = [conv EXCEPT ![c] = Append(@, item)]

\* handle_proxy_request up to the upstream request: the exchange gets its
\* id, and its history is compared with the one observed.
Request(c, item) ==
    /\ proto[c] # "websocket"
    /\ Asks(c) /\ Says(c, item)
    /\ LET history == parse_request_history(proto[c], conv'[c])
       IN /\ uploaded' = uploaded \o RequestTurns(observed, history)
          /\ observed' = Each(normalize_history_item, history)
    /\ exchanges' = Append(exchanges, Exchange(c, "request", RequestModel))
    /\ UNCHANGED <<proto, upsets>>

\* A body that is no JSON, and names no model, or that has no list of messages
\* with roles.
BadRequest(c, model) ==
    /\ proto[c] # "websocket"
    /\ Asks(c) /\ Upset
    /\ provider_error_turn
    /\ exchanges' = Append(exchanges, Exchange(c, "request", model))
    /\ UNCHANGED <<proto, conv>>

-----------------------------------------------------------------------------
(* Responses.                                                              *)

Closed(e) == exchanges' = [exchanges EXCEPT ![e].phase = "done"]
Hears(e, answer) == conv' = [conv EXCEPT ![exchanges[e].conv] = Append(@, answer)]

\* body_response and finalize_json.
BodyResponse(e, answer) ==
    /\ exchanges[e].phase = "request"
    /\ append_history_item(parse_assistant_payload(proto[exchanges[e].conv], answer))
    /\ Hears(e, answer) /\ Closed(e)
    /\ UNCHANGED <<proto, upsets, requests, raced>>

\* No answer, an HTTP error, or a body nobody can read.
NoResponse(e) ==
    /\ exchanges[e].phase = "request"
    /\ Upset
    /\ provider_error_turn
    /\ Closed(e)
    /\ UNCHANGED <<proto, conv, requests, raced>>

\* The body breaks off, or the ledger cannot be written: an error to the
\* child, and no turn.
ProxyError(e) ==
    /\ exchanges[e].phase = "request"
    /\ Upset /\ Closed(e)
    /\ UNCHANGED <<proto, conv, observed, uploaded, requests, raced>>

\* stream_response: the handler returns, a task of its own reads the frames.
StreamResponse(e, answer) ==
    /\ exchanges[e].phase = "request"
    /\ exchanges' = [exchanges EXCEPT ![e] =
                        [@ EXCEPT !.phase = "stream", !.answer = answer,
                                  !.left = Frames(proto[exchanges[e].conv], answer)]]
    /\ UNCHANGED <<proto, conv, observed, uploaded, upsets, requests, raced>>

\* Frames are absorbed and go on to the child, which has the answer with the
\* last one, unless it missed a frame.
Absorbed(e, n) ==
    LET x == exchanges[e]
        Absorb(state, frame) == absorb_sse_frame(proto[x.conv], state, frame)
    IN [x EXCEPT !.state = FoldLeft(Absorb, @, SubSeq(x.left, 1, n)), !.left = SubSeq(@, n + 1, Len(@))]
Relayed(e, n) ==
    IF Len(exchanges[e].left) = n /\ ~exchanges[e].state.malformed
    THEN Hears(e, exchanges[e].answer) ELSE UNCHANGED conv

Chunks(e) == {Chunk, Len(exchanges[e].left)} \intersect 1 .. Len(exchanges[e].left)

StreamChunk(e, n) ==
    /\ exchanges[e].phase = "stream" /\ n \in Chunks(e)
    /\ exchanges' = [exchanges EXCEPT ![e] = Absorbed(e, n)]
    /\ Relayed(e, n)
    /\ UNCHANGED <<proto, observed, uploaded, upsets, requests, raced>>

\* append_stream_frame fails: one turn more, the frame is absorbed all the same.
FrameUnsaved(e) ==
    /\ exchanges[e].phase = "stream" /\ exchanges[e].left # <<>>
    /\ Upset
    /\ provider_error_turn
    /\ exchanges' = [exchanges EXCEPT ![e] = Absorbed(e, 1)]
    /\ Relayed(e, 1)
    /\ UNCHANGED <<proto, requests, raced>>

\* A frame that is no JSON.
FrameMalformed(e) ==
    /\ exchanges[e].phase = "stream" /\ exchanges[e].left # <<>>
    /\ Upset
    /\ exchanges' = [exchanges EXCEPT ![e] =
                        [@ EXCEPT !.left = Tail(exchanges[e].left), !.state.malformed = TRUE]]
    /\ UNCHANGED <<proto, conv, observed, uploaded, requests, raced>>

\* The upstream connection breaks; what came before is still taken.
StreamBreaks(e) ==
    /\ exchanges[e].phase = "stream" /\ exchanges[e].left # <<>>
    /\ Upset
    /\ provider_error_turn
    /\ exchanges' = [exchanges EXCEPT ![e].left = <<>>]
    /\ UNCHANGED <<proto, conv, requests, raced>>

\* The transcript cannot be written, or the connection breaks behind the last
\* frame: one turn more, and the answer is still taken.
StreamUnsaved(e) ==
    /\ exchanges[e].phase = "stream" /\ exchanges[e].left = <<>>
    /\ Upset
    /\ provider_error_turn
    /\ exchanges' = [exchanges EXCEPT ![e].phase = "unsaved"]
    /\ UNCHANGED <<proto, conv, requests, raced>>

\* finalize_stream
StreamEnds(e) ==
    LET x == exchanges[e]
    IN /\ x.phase \in {"stream", "unsaved"} /\ x.left = <<>>
       /\ IF x.state.malformed THEN provider_error_turn
          ELSE append_history_item(Streamed(proto[x.conv], x.state))
       /\ Closed(e)
       /\ UNCHANGED <<proto, conv, upsets, requests, raced>>

\* A rest without its blank line, or an HTTP error with a stream as its body.
StreamRefused(e) ==
    /\ exchanges[e].phase \in {"stream", "unsaved"} /\ exchanges[e].left = <<>>
    /\ Upset
    /\ provider_error_turn
    /\ Closed(e)
    /\ UNCHANGED <<proto, conv, requests, raced>>

-----------------------------------------------------------------------------
(* A websocket: one exchange for all requests made over it.                *)

Unconnected(c) == proto[c] = "websocket" /\ \A e \in Of(c) : exchanges[e].phase = "done"

\* The handshake.
WsOpen(c) ==
    /\ Unconnected(c)
    /\ exchanges' = Append(exchanges, Exchange(c, "quiet", None))
    /\ UNCHANGED <<proto, conv, observed, uploaded, upsets, requests, raced>>

\* The provider cannot be reached.
WsRefused(c) ==
    /\ Unconnected(c)
    /\ Upset
    /\ provider_error_turn
    /\ UNCHANGED <<proto, conv, exchanges, requests, raced>>

Pending(e) ==
    IF exchanges[e].phase = "relay" THEN Streamed("websocket", exchanges[e].state) ELSE Nothing

\* observe_downstream_text, "response.create": an answer still pending is
\* taken first, with no wait in between.
WsRequest(e, item) ==
    LET c == exchanges[e].conv
        seen == Noted(observed, Pending(e))
    IN /\ exchanges[e].phase \in {"quiet", "relay"}
       /\ Asks(c) /\ Says(c, item)
       /\ LET history == parse_request_history("websocket", conv'[c])
          IN /\ uploaded' = Appended(uploaded, Pending(e)) \o RequestTurns(seen, history)
             /\ observed' = Each(normalize_history_item, history)
       /\ exchanges' = [exchanges EXCEPT ![e] = Exchange(c, "relay", RequestModel)]
       /\ UNCHANGED <<proto, upsets>>

\* The same for a request without a list of input.
WsBadRequest(e) ==
    LET c == exchanges[e].conv
    IN /\ exchanges[e].phase \in {"quiet", "relay"}
       /\ Asks(c) /\ Upset
       /\ uploaded' = Append(Appended(uploaded, Pending(e)), ErrorTurn)
       /\ observed' = Noted(observed, Pending(e))
       /\ exchanges' = [exchanges EXCEPT ![e] = Exchange(c, "relay", RequestModel)]
       /\ UNCHANGED <<proto, conv>>

WsAnswers(e, answer) ==
    /\ exchanges[e].phase = "relay" /\ exchanges[e].answer = Nothing
    /\ exchanges' = [exchanges EXCEPT ![e] =
                        [@ EXCEPT !.answer = answer, !.left = Frames("websocket", answer)]]
    /\ UNCHANGED <<proto, conv, observed, uploaded, upsets, requests, raced>>

\* observe_upstream_text, for one message or for all the rest:
\* "response.completed", the last, ends the answer.
WsFrames(e, n) ==
    LET next == Absorbed(e, n)
        completed == n = Len(exchanges[e].left)
    IN /\ exchanges[e].phase = "relay" /\ n \in Chunks(e)
       /\ append_history_item(IF completed THEN Streamed("websocket", next.state) ELSE Nothing)
       /\ exchanges' = [exchanges EXCEPT ![e] = IF completed THEN [next EXCEPT !.phase = "quiet"] ELSE next]
       /\ Relayed(e, n)
       /\ UNCHANGED <<proto, upsets, requests, raced>>

\* Either side closes: finalize_pending.
WsClose(e) ==
    /\ exchanges[e].phase \in {"quiet", "relay"}
    /\ Upset
    /\ append_history_item(Pending(e))
    /\ Closed(e)
    /\ UNCHANGED <<proto, conv, requests, raced>>

\* websocket_relay_error: what was pending is not taken.
WsBreaks(e) ==
    /\ exchanges[e].phase \in {"quiet", "relay"}
    /\ Upset
    /\ provider_error_turn
    /\ Closed(e)
    /\ UNCHANGED <<proto, conv, requests, raced>>

\* A message cannot be passed on: neither the answer nor an error is taken.
WsLost(e) ==
    /\ exchanges[e].phase \in {"quiet", "relay"}
    /\ Upset /\ Closed(e)
    /\ UNCHANGED <<proto, conv, observed, uploaded, requests, raced>>

-----------------------------------------------------------------------------
\* resolve_route gives every request of a conversation the same format.
CaptureInit ==
    /\ proto \in Routes
    /\ conv = [c \in Convs |-> <<>>]
    /\ exchanges = <<>> /\ observed = <<>> /\ uploaded = <<>>
    /\ upsets = 0 /\ requests = 0 /\ raced = FALSE

AnswersNow == IF requests > 0 THEN Answers[requests] ELSE {}
ItemsNow == IF requests < Len(Inputs) THEN Inputs[requests + 1] ELSE {}
CaptureNext ==
    \/ \E c \in Convs :
          \/ \E item \in ItemsNow : Request(c, item)
          \/ \E model \in {None, RequestModel} : BadRequest(c, model)
          \/ WsOpen(c) \/ WsRefused(c)
    \/ \E e \in DOMAIN exchanges :
          \/ \E a \in AnswersNow : BodyResponse(e, a) \/ StreamResponse(e, a) \/ WsAnswers(e, a)
          \/ NoResponse(e) \/ ProxyError(e)
          \/ \E n \in Chunks(e) : StreamChunk(e, n) \/ WsFrames(e, n)
          \/ FrameUnsaved(e) \/ FrameMalformed(e) \/ StreamBreaks(e)
          \/ StreamUnsaved(e) \/ StreamEnds(e) \/ StreamRefused(e)
          \/ \E item \in ItemsNow : WsRequest(e, item)
          \/ WsBadRequest(e) \/ WsClose(e) \/ WsBreaks(e) \/ WsLost(e)

CaptureSpec == CaptureInit /\ [][CaptureNext]_captureVars

-----------------------------------------------------------------------------
IsItem(turn) == turn.kind \in {"user", "assistant", "result"}
UploadedItems == Each(normalize_history_item, SelectSeq(uploaded, IsItem))

\* How much of what was observed is among the items uploaded, in order.
Found ==
    LET found[n \in 0 .. Len(uploaded)] ==
            IF n = 0 THEN 0
            ELSE LET k == found[n - 1] IN
                 IF /\ k < Len(observed) /\ IsItem(uploaded[n])
                    /\ normalize_history_item(uploaded[n]) = observed[k + 1]
                 THEN k + 1 ELSE k
    IN  found[Len(uploaded)]

\* What the session takes for already recorded was uploaded, in that order:
\* a prefix that is skipped is never one CXDB does not have, whatever
\* conversations interleave, answers break off and requests repeat.
ObservedUploaded == Found = Len(observed)

\* Answers that a request repeats the way they were taken: not empty, for the
\* Responses format without calls, for Anthropic with no arguments in the
\* start of a call's block.
Repeatable(protocol, answer) ==
    /\ answer.texts # <<>> \/ answer.calls # <<>>
    /\ Format(protocol) = "responses" => answer.calls = <<>>
    /\ protocol = "anthropic" => answer.calls = <<>> \/ answer.start = <<>>

\* One conversation without errors, no change of mode, every answer taken
\* before the child goes on.
Steady(c) ==
    /\ upsets = 0 /\ ~raced
    /\ \A d \in Convs \ {c} : conv[d] = <<>>
    /\ \A i \in DOMAIN conv[c] : /\ conv[c][i].kind # "mode"
                                 /\ conv[c][i].kind = "answer" => Repeatable(proto[c], conv[c][i])

\* A steady session becomes its conversation: no rewrite is reported, nothing
\* is uploaded twice although every request replays all, and once nothing is
\* open every item is there, the last answer included.
ConversationOnce ==
    \A c \in Convs : Steady(c) =>
        /\ SelectSeq(uploaded, LAMBDA turn : ~IsItem(turn)) = <<>>
        /\ UploadedItems = observed
        /\ (\A e \in DOMAIN exchanges : exchanges[e].phase \in {"done", "quiet"}) =>
               observed = Each(normalize_history_item, parse_request_history(proto[c], conv[c]))
=============================================================================
