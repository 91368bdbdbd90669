-------------------------- MODULE AnthropicAdapter --------------------------
(***************************************************************************)
(* The whole-message half of the Anthropic adapter: how /v1/messages turns  *)
(* a request into a chat completion and an answer back.  The event stream   *)
(* is AnthropicStream.                                                      *)
(*                                                                         *)
(* An Anthropic message is [role, shape, blocks]: one text block for a      *)
(* string, the blocks of an array, neither for anything else.  A block is   *)
(* [type, text]; the text of a tool result is its flattened content.        *)
(***************************************************************************)
EXTENDS Routing

ContentBlock ==
    [type : {"text", "tool_use", "tool_result", "other"}, text : TextValue]

AnthropicMessage ==
    {m \in [role : Roles, shape : {"string", "blocks", "other"},
            blocks : Seq(ContentBlock)] :
        /\ m.shape = "string" => Len(m.blocks) = 1 /\ m.blocks[1].type = "text"
        /\ m.shape = "other" => m.blocks = << >>}

StringContent(text) == [shape |-> "string", texts |-> <<text>>]
NoContent == [shape |-> "other", texts |-> << >>]

OfType(blocks, type) ==
    FlattenSeq([i \in DOMAIN blocks |->
        IF blocks[i].type = type THEN <<blocks[i]>> ELSE << >>])
TextsIn(blocks) == [i \in DOMAIN blocks |-> blocks[i].text]

(* flatten_anthropic_text: the texts of the blocks, whatever their type.    *)
FlattenText(blocks) == Joined(TextsIn(blocks))

(* Mutant of TranslateMessage: a tool result speaks as the user.            *)
ToolResultsAsUser(message) ==
    LET texts == TextsIn(OfType(message.blocks, "text"))
        calls == OfType(message.blocks, "tool_use")
        results == OfType(message.blocks, "tool_result")
        own == [role |-> message.role,
                content |-> IF texts = << >> THEN NoContent
                            ELSE StringContent(Joined(texts))]
        speaks == texts # << >> \/ (message.role = "assistant" /\ calls # << >>)
    IN  CASE message.shape = "other" -> << >>
          [] message.shape = "string" ->
                 <<[role |-> message.role,
                    content |-> StringContent(message.blocks[1].text)]>>
          [] OTHER ->
                 [i \in DOMAIN results |->
                     [role |-> "user",
                      content |-> StringContent(results[i].text)]]
                 \o (IF speaks THEN <<own>> ELSE << >>)

(* translate_anthropic_message: tool results become tool messages ahead of  *)
(* the message's own text; an assistant may speak through tool calls alone, *)
(* a user without text says nothing.                                        *)
TranslateMessage(message) ==
    LET texts == TextsIn(OfType(message.blocks, "text"))
        calls == OfType(message.blocks, "tool_use")
        results == OfType(message.blocks, "tool_result")
        own == [role |-> message.role,
                content |-> IF texts = << >> THEN NoContent
                            ELSE StringContent(Joined(texts))]
        speaks == texts # << >> \/ (message.role = "assistant" /\ calls # << >>)
    IN  CASE message.shape = "other" -> << >>
          [] message.shape = "string" ->
                 <<[role |-> message.role,
                    content |-> StringContent(message.blocks[1].text)]>>
          [] OTHER ->
                 [i \in DOMAIN results |->
                     [role |-> "tool",
                      content |-> StringContent(results[i].text)]]
                 \o (IF speaks THEN <<own>> ELSE << >>)

(* anthropic_to_openai_request, as far as routing and the cache read it: a  *)
(* system text comes first, the messages follow in their order.             *)
AnthropicToOpenai(request) ==
    LET system == FlattenText(request.system)
        first == IF system = EmptyText THEN << >>
                 ELSE <<[role |-> "system", content |-> StringContent(system)]>>
        rest == [i \in DOMAIN request.messages |-> TranslateMessage(request.messages[i])]
    IN  [request EXCEPT !.messages = first \o FlattenSeq(rest)]

-----------------------------------------------------------------------------
(* Answers.                                                                 *)

(* anthropic_error_type.                                                    *)
ErrorType(status) ==
    CASE status \in {400, 402, 422} -> "invalid_request_error"
      [] status = 401 -> "authentication_error"
      [] status = 403 -> "permission_error"
      [] status = 404 -> "not_found_error"
      [] status = 413 -> "request_too_large"
      [] status = 429 -> "rate_limit_error"
      [] status = 503 -> "overloaded_error"
      [] OTHER -> "api_error"

(* anthropic_stop_reason.                                                   *)
StopReason(finish) ==
    CASE finish = "length" -> "max_tokens"
      [] finish \in {"tool_calls", "function_call"} -> "tool_use"
      [] OTHER -> "end_turn"

(* openai_to_anthropic_response: the text if there is any, every tool call, *)
(* and an empty text when there is neither.                                 *)
ContentOf(completion) ==
    LET text == IF completion.text THEN <<"text">> ELSE << >>
        tools == [i \in 1..completion.tools |-> "tool_use"]
    IN  IF text \o tools = << >> THEN <<"text">> ELSE text \o tools

(* anthropic_from_chat_response: what an Anthropic client is sent for what  *)
(* the chat handler answered.  A body without choices passes as it is.      *)
FromChat(answer) ==
    CASE answer.status # 200 ->
             [status |-> answer.status, kind |-> ErrorType(answer.status)]
      [] answer.status = 200 /\ answer.kind = "stream" ->
             [status |-> 200, kind |-> "events"]
      [] answer.status = 200 /\ answer.kind = "garbage" ->
             [status |-> 502, kind |-> ErrorType(502)]
      [] answer.status = 200 /\ answer.kind = "completion" ->
             [status |-> 200, kind |-> "message",
              content |-> ContentOf(answer.completion),
              stop_reason |-> StopReason(answer.completion.finish)]
      [] OTHER -> answer
=============================================================================
