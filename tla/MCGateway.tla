----------------------------- MODULE MCGateway -----------------------------
(* Two requests of small conversations, four gateways: one with a ladder    *)
(* of two tiers and virtual keys, an offline one whose top tier has no      *)
(* endpoint, one without endpoints, and a dry run.                          *)
EXTENDS Gateway

Text(n, end) == <<[Blank EXCEPT !.word = n, !.question = end]>>
Light == Text(1, 0)
Heavy == Text(400, 0)
Rules == Text(200, 0)

User(text) == [role |-> "user", content |-> StringContent(text)]
System(text) == [role |-> "system", content |-> StringContent(text)]

Chat == [client |-> "chat", messages |-> <<User(Light)>>, system |-> << >>,
         field |-> "auto", threshold |-> NoHeader, scope |-> "none",
         sticky |-> FALSE, offline |-> FALSE, secret |-> "s",
         stream |-> FALSE, sampling |-> "deterministic", debug |-> FALSE]

Block(type, text) == [type |-> type, text |-> text]
Turn(role, blocks) == [role |-> role, shape |-> "blocks", blocks |-> blocks]

(* A light question answered through a tool whose result is long.           *)
ToolTalk ==
    <<Turn("user", <<Block("text", Light)>>),
      Turn("assistant", <<Block("tool_use", EmptyText)>>),
      Turn("user", <<Block("tool_result", Heavy)>>)>>

Sticky(turns) ==
    [Chat EXCEPT !.sticky = TRUE, !.sampling = "free", !.messages = turns]

MCAsks ==
    <<Chat,
      [Chat EXCEPT !.threshold = 101, !.secret = "wrong"],
      [Chat EXCEPT !.stream = TRUE, !.threshold = 0],
      Sticky(<<User(Heavy)>>),
      [Chat EXCEPT !.field = "cloud"],
      [Chat EXCEPT !.client = "anthropic", !.messages = ToolTalk],
      Sticky(<<User(Heavy), User(Light)>>)>>

MCMayAsk == <<{1, 2, 3, 4}, {1, 5, 6, 7}>>

Routing(threshold) ==
    [weights |-> [f \in FeatureNames |-> IF f = "word_count" THEN 1 ELSE 0],
     tiers |-> BinaryTiers(threshold), classifier |-> << >>]

Live == [routing |-> Routing(90),
         upstream |-> [local |-> "small", cloud |-> "large"],
         keys |-> <<[id |-> "k", secret |-> "s"]>>,
         quota |-> 2, dry |-> FALSE, cache |-> TRUE, offline |-> FALSE]

MCSetups ==
    <<Live,
     [Live EXCEPT !.offline = TRUE, !.keys = << >>,
                  !.upstream = [m \in {"local"} |-> "small"]],
     [Live EXCEPT !.keys = << >>, !.upstream = << >>],
     [Live EXCEPT !.dry = TRUE, !.quota = 1]>>

MCCompletions ==
    {[text |-> TRUE, tools |-> 0, finish |-> "stop"],
     [text |-> FALSE, tools |-> 1, finish |-> "tool_calls"]}
=============================================================================
