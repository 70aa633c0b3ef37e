------------------------------ MODULE Provider ------------------------------
(***************************************************************************)
(* What cxtx reads in provider traffic (cxtx/src/provider): the history in *)
(* a request, and the answer in a response or in the frames of a stream.   *)
(* Three formats: OpenAI "chat" messages, OpenAI "responses" input (also   *)
(* over a websocket) and "anthropic" messages.                             *)
(*                                                                         *)
(* A text is a sequence of characters; a call's arguments are a text too.  *)
(* JSON is a record of the fields the code looks at.                       *)
(***************************************************************************)
EXTENDS Integers, SequencesExt

None == "none"                      \* Option::None
Newline == "nl"
BootMark == "boot"                  \* how a bootstrap text starts

Joined(texts) == FlattenSeq(texts)
Each(op(_), s) == [i \in DOMAIN s |-> op(s[i])]

\* HistoryItem
UserInput(text) == [kind |-> "user", text |-> text]
AssistantTurn(text, calls, model, finish) ==
    [kind |-> "assistant", text |-> text, calls |-> calls, model |-> model, finish |-> finish]
ToolResult(call, text) == [kind |-> "result", call |-> call, text |-> text]
ToolCallRecord(id, name, args) == [id |-> id, name |-> name, args |-> args]

\* content_to_text of an array: the parts that are not empty, one per line.
content_to_text(parts) ==
    FoldLeft(LAMBDA text, part : IF part = <<>> THEN text
                                 ELSE IF text = <<>> THEN part
                                 ELSE text \o <<Newline>> \o part,
             <<>>, parts)

IsBootstrap(text) == text # <<>> /\ Head(text) = BootMark

-----------------------------------------------------------------------------
(* What the child and the provider say: external.  The child's items are   *)
(* what the user or a tool wrote, a change of mode (a developer message),  *)
(* and the answers it received.  An answer has texts, calls, and what the  *)
(* "input" of a call holds when its block starts.                          *)

Format(protocol) == IF protocol = "websocket" THEN "responses" ELSE protocol

ChatMessages(item) ==
    CASE item.kind = "user"   -> <<[role |-> "user", content |-> item.parts]>>
      [] item.kind = "answer" -> <<[role |-> "assistant", content |-> <<Joined(item.texts)>>,
                                    calls |-> item.calls]>>
      [] item.kind = "result" -> <<[role |-> "tool", call |-> item.call, content |-> item.parts]>>
      [] item.kind = "mode"   -> <<[role |-> "developer"]>>

InputMessage(role, parts) == [type |-> "message", role |-> role, content |-> parts]
InputItems(item) ==
    CASE item.kind = "user"   -> <<InputMessage("user", item.parts)>>
      [] item.kind = "answer" ->
            (IF item.texts = <<>> THEN <<>> ELSE <<InputMessage("assistant", <<Joined(item.texts)>>)>>)
            \o [i \in DOMAIN item.calls |-> [type |-> "function_call", call |-> item.calls[i]]]
      [] item.kind = "result" -> <<[type |-> "function_call_output", call |-> item.call]>>
      [] item.kind = "mode"   -> <<InputMessage("developer", <<>>)>>

TextBlock(text) == [type |-> "text", text |-> text]
UseBlock(call) == [type |-> "tool_use", call |-> call]
BlocksOf(answer) == Each(TextBlock, answer.texts) \o Each(UseBlock, answer.calls)
AnthropicMessages(item) ==
    CASE item.kind = "user"   -> <<[role |-> "user", blocks |-> Each(TextBlock, item.parts)]>>
      [] item.kind = "answer" -> <<[role |-> "assistant", blocks |-> BlocksOf(item)]>>
      [] item.kind = "result" -> <<[role |-> "user", blocks |->
                                    <<[type |-> "tool_result", call |-> item.call, parts |-> item.parts]>>]>>
      [] item.kind = "mode"   -> <<[role |-> "system"]>>

\* The frames of a streamed answer.
Done == [data |-> "[DONE]"]
ChatFrames(answer) ==
    LET delta(text, calls, finish) == [delta |-> text, calls |-> calls, finish |-> finish]
        call(i) == answer.calls[i]
        head(i) == [index |-> i, id |-> call(i).id, name |-> call(i).name, args |-> <<>>]
        rest(i) == [index |-> i, id |-> None, name |-> None, args |-> call(i).args]
    IN [i \in DOMAIN answer.texts |-> delta(answer.texts[i], <<>>, None)]
       \o FlattenSeq([i \in DOMAIN answer.calls |-> <<delta(<<>>, <<head(i)>>, None), delta(<<>>, <<rest(i)>>, None)>>])
       \o <<delta(<<>>, <<>>, "stop"), Done>>

ResponsesOutput(answer) ==
    (IF answer.texts = <<>> THEN <<>> ELSE <<InputMessage("assistant", <<Joined(answer.texts)>>)>>)
    \o [i \in DOMAIN answer.calls |-> [type |-> "function_call", call |-> answer.calls[i]]]
ResponsesFrames(answer) ==
    LET item(type, call) == [type |-> type, item |-> [type |-> "function_call", call |-> call]]
    IN <<[type |-> "response.created", status |-> "in_progress", output |-> <<>>]>>
       \o [i \in DOMAIN answer.texts |-> [type |-> "response.output_text.delta", delta |-> answer.texts[i]]]
       \o FlattenSeq([i \in DOMAIN answer.calls |->
              <<item("response.output_item.added", [answer.calls[i] EXCEPT !.args = <<>>]),
                item("response.output_item.done", answer.calls[i])>>])
       \o <<[type |-> "response.completed", status |-> "completed", output |-> ResponsesOutput(answer)]>>

AnthropicFrames(answer) ==
    LET at(i) == i - 1
        more(i) == Len(answer.texts) + i - 1
        call(i) == answer.calls[i]
    IN <<[event |-> "message_start"]>>
       \o FlattenSeq([i \in DOMAIN answer.texts |->
              <<[event |-> "content_block_start", index |-> at(i), block |-> TextBlock(<<>>)],
                [event |-> "content_block_delta", index |-> at(i), type |-> "text_delta", text |-> answer.texts[i]]>>])
       \o FlattenSeq([i \in DOMAIN answer.calls |->
              <<[event |-> "content_block_start", index |-> more(i),
                 block |-> UseBlock([call(i) EXCEPT !.args = answer.start])],
                [event |-> "content_block_delta", index |-> more(i), type |-> "input_json_delta", text |-> call(i).args]>>])
       \o <<[event |-> "message_delta", finish |-> "end_turn"]>>

Frames(protocol, answer) ==
    CASE Format(protocol) = "chat"      -> ChatFrames(answer)
      [] Format(protocol) = "responses" -> ResponsesFrames(answer)
      [] Format(protocol) = "anthropic" -> AnthropicFrames(answer)

-----------------------------------------------------------------------------
(* parse_request_history.  The request names its model, "m".               *)

RequestModel == "m"

ChatItem(message) ==
    CASE message.role = "user"      -> <<UserInput(content_to_text(message.content))>>
      [] message.role = "assistant" ->
            <<AssistantTurn(content_to_text(message.content), message.calls, RequestModel, None)>>
      [] message.role = "tool"      -> <<ToolResult(message.call, content_to_text(message.content))>>
      [] OTHER -> <<>>
parse_message_history(messages) == FlattenSeq(Each(ChatItem, messages))

is_bootstrap_input_item(item) ==
    item.type = "message" /\ item.role = "user" /\ IsBootstrap(content_to_text(item.content))

\* Only messages are read; calls and their outputs are passed over.
InputItem(item) ==
    IF item.type # "message" THEN <<>>
    ELSE CASE item.role = "user"      -> <<UserInput(content_to_text(item.content))>>
           [] item.role = "assistant" ->
                 <<AssistantTurn(content_to_text(item.content), <<>>, RequestModel, None)>>
           [] item.role = "tool"      -> <<ToolResult(item.call, content_to_text(item.content))>>
           [] OTHER -> <<>>

\* The conversation starts behind the last developer message and the
\* bootstrap messages that follow it.
LastDeveloper(input) ==
    SelectLastInSeq(input, LAMBDA item : item.type = "message" /\ item.role = "developer")
FirstItem(input) == SelectInSeq(input, LAMBDA item : ~is_bootstrap_input_item(item))
parse_input_history(input) ==
    LET recent == SubSeq(input, LastDeveloper(input) + 1, Len(input))
    IN IF FirstItem(recent) = 0 THEN <<>>
       ELSE FlattenSeq(Each(InputItem, SubSeq(recent, FirstItem(recent), Len(recent))))

is_bootstrap_user_block(block) == block.type = "text" /\ IsBootstrap(block.text)

\* Text blocks are gathered until a tool result or the end.
Gathered(acc) == IF acc.buffer = <<>> THEN acc.items ELSE Append(acc.items, UserInput(acc.buffer))
UserBlock(acc, block) ==
    IF block.type = "text"
    THEN [acc EXCEPT !.buffer = (IF @ = <<>> THEN @ ELSE Append(@, Newline)) \o block.text]
    ELSE [items |-> Append(Gathered(acc), ToolResult(block.call, content_to_text(block.parts))), buffer |-> <<>>]
FirstBlock(blocks) == SelectInSeq(blocks, LAMBDA block : ~is_bootstrap_user_block(block))
parse_user_blocks(blocks) ==
    LET acc[n \in 0 .. Len(blocks)] ==
            IF n < FirstBlock(blocks) THEN [items |-> <<>>, buffer |-> <<>>]
            ELSE UserBlock(acc[n - 1], blocks[n])
    IN IF FirstBlock(blocks) = 0 THEN <<>> ELSE Gathered(acc[Len(blocks)])

TextOf(blocks) == Joined(Each(LAMBDA b : b.text, SelectSeq(blocks, LAMBDA b : b.type = "text")))
CallsOf(blocks) == Each(LAMBDA b : b.call, SelectSeq(blocks, LAMBDA b : b.type = "tool_use"))
parse_assistant_content(blocks, model, finish) ==
    AssistantTurn(TextOf(blocks), CallsOf(blocks), model, finish)

AnthropicItem(message) ==
    CASE message.role = "user"      -> parse_user_blocks(message.blocks)
      [] message.role = "assistant" -> <<parse_assistant_content(message.blocks, RequestModel, None)>>
      [] OTHER -> <<>>

parse_request_history(protocol, items) ==
    CASE Format(protocol) = "chat"      -> parse_message_history(FlattenSeq(Each(ChatMessages, items)))
      [] Format(protocol) = "responses" -> parse_input_history(FlattenSeq(Each(InputItems, items)))
      [] Format(protocol) = "anthropic" -> FlattenSeq(Each(AnthropicItem, FlattenSeq(Each(AnthropicMessages, items))))

-----------------------------------------------------------------------------
(* The body of a response that is not streamed; it names the model "r".    *)

ReplyModel == "r"
Nothing == [kind |-> "nothing"]     \* Ok(None)

\* parse_assistant_payload for "output": messages and calls.
OutputText(output) ==
    LET texts == SelectSeq(output, LAMBDA item : item.type = "message" /\ item.role = "assistant")
    IN content_to_text(Each(LAMBDA item : content_to_text(item.content), texts))
OutputCalls(output) ==
    Each(LAMBDA item : item.call, SelectSeq(output, LAMBDA item : item.type = "function_call"))
ResponsesAssistant(output) ==
    IF OutputText(output) = <<>> /\ OutputCalls(output) = <<>> THEN Nothing
    ELSE AssistantTurn(OutputText(output), OutputCalls(output), ReplyModel, "completed")

parse_assistant_payload(protocol, answer) ==
    CASE Format(protocol) = "chat" ->
            AssistantTurn(content_to_text(<<Joined(answer.texts)>>), answer.calls, ReplyModel, "stop")
      [] Format(protocol) = "responses" -> ResponsesAssistant(ResponsesOutput(answer))
      [] Format(protocol) = "anthropic" -> parse_assistant_content(BlocksOf(answer), ReplyModel, "end_turn")

-----------------------------------------------------------------------------
(* OpenAiExchange and AnthropicExchange: what the frames have said so far. *)

NewExchange(model) ==
    [model |-> model, content |-> <<>>, tools |-> <<>>, blocks |-> [i \in {} |-> Nothing],
     finish |-> None, malformed |-> FALSE]

EmptyCall == ToolCallRecord("", "", <<>>)

\* absorb_tool_call_delta: the slot of the delta's index, created if need be.
absorb_tool_call_delta(tools, delta) ==
    LET slots == [i \in 1 .. (IF delta.index > Len(tools) THEN delta.index ELSE Len(tools)) |->
                     IF i <= Len(tools) THEN tools[i] ELSE EmptyCall]
        slot  == slots[delta.index]
    IN [slots EXCEPT ![delta.index] =
           ToolCallRecord(IF delta.id = None THEN slot.id ELSE delta.id,
                          IF delta.name = None THEN slot.name ELSE delta.name,
                          slot.args \o delta.args)]

absorb_chat(x, frame) ==
    [x EXCEPT !.model = IF @ = None THEN ReplyModel ELSE @,
              !.content = @ \o frame.delta,
              !.tools = FoldLeft(absorb_tool_call_delta, @, frame.calls),
              !.finish = IF @ = None THEN frame.finish ELSE @]

\* A message fills an empty content; a call fills what its slot still lacks.
absorb_responses_output_item(x, item) ==
    IF item.type = "message"
    THEN [x EXCEPT !.content = IF @ = <<>> THEN content_to_text(item.content) ELSE @]
    ELSE LET slot == SelectInSeq(x.tools, LAMBDA tool : tool.id = item.call.id)
         IN IF slot = 0 THEN [x EXCEPT !.tools = Append(@, item.call)]
            ELSE [x EXCEPT !.tools[slot].name = IF @ = "" THEN item.call.name ELSE @,
                           !.tools[slot].args = IF @ = <<>> THEN item.call.args ELSE @]

absorb_responses_event(x, frame) ==
    CASE frame.type \in {"response.created", "response.completed"} ->
            FoldLeft(absorb_responses_output_item,
                     [x EXCEPT !.model = IF @ = None THEN ReplyModel ELSE @, !.finish = frame.status],
                     frame.output)
      [] frame.type = "response.output_text.delta" -> [x EXCEPT !.content = @ \o frame.delta]
      [] OTHER -> absorb_responses_output_item(x, frame.item)

With(blocks, index, block) == [i \in DOMAIN blocks \union {index} |-> IF i = index THEN block ELSE blocks[i]]

\* A delta goes to the block of its index, if that is of the delta's type.
absorb_anthropic(x, frame) ==
    CASE frame.event = "message_start" -> [x EXCEPT !.model = IF @ = None THEN ReplyModel ELSE @]
      [] frame.event = "content_block_start" -> [x EXCEPT !.blocks = With(@, frame.index, frame.block)]
      [] frame.event = "message_delta" -> [x EXCEPT !.finish = IF @ = None THEN frame.finish ELSE @]
      [] OTHER ->
            LET type  == IF frame.type = "text_delta" THEN "text" ELSE "tool_use"
                fresh == IF type = "text" THEN TextBlock(<<>>) ELSE UseBlock(EmptyCall)
                block == IF frame.index \in DOMAIN x.blocks THEN x.blocks[frame.index] ELSE fresh
                grown == IF block.type # type THEN block
                         ELSE IF type = "text" THEN [block EXCEPT !.text = @ \o frame.text]
                         ELSE [block EXCEPT !.call.args = @ \o frame.text]
            IN [x EXCEPT !.blocks = With(@, frame.index, grown)]

\* ExchangeState::absorb_sse_frame, for a frame that is well formed.
absorb_sse_frame(protocol, x, frame) ==
    IF frame = Done THEN x
    ELSE CASE Format(protocol) = "chat"      -> absorb_chat(x, frame)
           [] Format(protocol) = "responses" -> absorb_responses_event(x, frame)
           [] Format(protocol) = "anthropic" -> absorb_anthropic(x, frame)

\* The answer in the frames, the end of finalize_stream.
ByIndex(blocks) == Each(LAMBDA i : blocks[i], SetToSortSeq(DOMAIN blocks, <))
Streamed(protocol, x) ==
    IF Format(protocol) = "anthropic"
    THEN IF DOMAIN x.blocks = {} THEN Nothing
         ELSE parse_assistant_content(ByIndex(x.blocks), x.model, x.finish)
    ELSE IF x.content = <<>> /\ x.tools = <<>> THEN Nothing
         ELSE AssistantTurn(x.content, x.tools, x.model, x.finish)
=============================================================================
