------------------------------ MODULE Routing ------------------------------
(***************************************************************************)
(* The routing decision of the gateway for one request: the prompt that is  *)
(* scored, a pin in the model field, the threshold header, the sticky latch *)
(* and the model delivery starts from.                                      *)
(*                                                                         *)
(* A message is a record with its role and its content.  The content is     *)
(* [shape, texts]: one text for a string, the text parts for an array, and  *)
(* neither for anything else.  An optional value is a sequence of at most   *)
(* one element.                                                             *)
(***************************************************************************)
EXTENDS Complexity, SequencesExt

Some(x) == <<x>>
None == << >>

(* The empty line; the empty text is one of them.                           *)
Blank == [kind |-> "plain", depth |-> 0, link |-> 0, word |-> 0,
          reasoning |-> 0, math |-> 0, constraint |-> 0, question |-> 0]

EmptyText == <<Blank>>

TextValue == Seq(Line)

Content == {c \in [shape : {"string", "parts", "other"}, texts : Seq(TextValue)] :
              /\ c.shape = "string" => Len(c.texts) = 1
              /\ c.shape = "other" => c.texts = << >>}

(* The roles the gateway tells apart; "other" is any other, or none.        *)
Roles == {"system", "user", "assistant", "tool", "other"}

Message == [role : Roles, content : Content]

Tier == [min_score : Int, model : STRING]

(* join("\n").                                                              *)
Joined(texts) == IF texts = << >> THEN EmptyText ELSE FlattenSeq(texts)

(* message_text: a string is a text even when empty, parts that join to the *)
(* empty text are not.                                                      *)
MessageText(message) ==
    LET joined == Joined(message.content.texts)
    IN  IF message.content.shape = "other"
           \/ (message.content.shape = "parts" /\ joined = EmptyText)
        THEN None
        ELSE Some(joined)

WithRole(messages, role) ==
    FlattenSeq([i \in DOMAIN messages |->
        IF messages[i].role = role THEN <<messages[i]>> ELSE << >>])

(* filter_map(extract_message_text).                                        *)
TextsOf(messages) ==
    FlattenSeq([i \in DOMAIN messages |-> MessageText(messages[i])])

LastOf(s) == IF s = << >> THEN None ELSE Some(Last(s))

(* extract_prompt: the system messages and the latest user message.  A      *)
(* latest user message without text leaves the system messages alone, and   *)
(* only when there are none of those is the last text of any role used.     *)
ExtractPrompt(messages) ==
    LET asked == WithRole(messages, "user")
        latest == IF asked = << >> THEN None ELSE MessageText(Last(asked))
        selected == TextsOf(WithRole(messages, "system")) \o latest
    IN  Joined(IF selected = << >> THEN LastOf(TextsOf(messages))
                                   ELSE selected)

(* extract_scoped_prompt.                                                   *)
ScopedPrompt(messages, scope) ==
    LET parts ==
          CASE scope = "all" -> TextsOf(messages)
            [] scope = "user" -> TextsOf(WithRole(messages, "user"))
            [] scope = "last_user" ->
                   LastOf(TextsOf(WithRole(messages, "user")))
            [] OTHER -> None
    IN  IF parts = << >> THEN ExtractPrompt(messages) ELSE Joined(parts)

-----------------------------------------------------------------------------
(* The model field.                                                         *)

(* resolve_pin: `auto`, an empty field and a name nobody serves pin         *)
(* nothing; the two directives name the ends of a ladder, and an endpoint   *)
(* of the configuration names itself.                                       *)
ResolvePin(field, routing, endpoints) ==
    LET laddered == ~HasClassifier(routing) /\ routing.tiers # << >>
    IN  CASE field \in {"", "auto"} -> None
          [] field = "prefer-local" /\ laddered ->
                 Some(Head(routing.tiers).model)
          [] field \in {"prefer-hosted", "prefer-cloud"} /\ laddered ->
                 Some(Last(routing.tiers).model)
          [] OTHER -> IF field \in endpoints THEN Some(field) ELSE None

(* parse_threshold_header and threshold_tiers: the header is a number of    *)
(* hundredths, and it splits a binary ladder anew.                          *)
NoHeader == -1

Refused == [mode |-> "refused", chosen |-> "none"]

ThresholdRoute(threshold, score, routing) ==
    IF threshold \notin 0..100 \/ HasClassifier(routing)
       \/ Len(routing.tiers) # 2
    THEN Refused
    ELSE [mode |-> "threshold-override",
          chosen |-> RecommendTier(score,
                        <<[routing.tiers[1] EXCEPT !.min_score = 0],
                          [routing.tiers[2] EXCEPT !.min_score = threshold]>>)]

(* route_decision: a pin hides the threshold header, a bad one included.    *)
RouteDecision(request, decision, routing, endpoints) ==
    LET pin == ResolvePin(request.field, routing, endpoints)
    IN  CASE pin # None -> [mode |-> "pinned", chosen |-> pin[1]]
          [] pin = None /\ request.threshold # NoHeader ->
                 ThresholdRoute(request.threshold, decision.score, routing)
          [] OTHER -> [mode |-> "scored", chosen |-> decision.recommendation]

-----------------------------------------------------------------------------
(* The sticky latch.                                                        *)

(* tier_ladder: the models by rising threshold; the sort is stable.         *)
TierLadder(routing) ==
    LET tiers == routing.tiers
        Before(i, j) == \/ tiers[i].min_score < tiers[j].min_score
                        \/ tiers[i].min_score = tiers[j].min_score /\ i < j
        Place(i) == Cardinality({j \in DOMAIN tiers : Before(j, i)}) + 1
    IN  [n \in DOMAIN tiers |->
            tiers[CHOOSE i \in DOMAIN tiers : Place(i) = n].model]

(* The first place of a model on the ladder, 0 when it is not there.        *)
RungOf(ladder, model) == SelectInSeq(ladder, LAMBDA m : m = model)

(* Mutant of HighWater: only the latest turn counts.                        *)
HighWaterOfLast(messages, routing) ==
    LET texts == LastOf(TextsOf(WithRole(messages, "user")))
        rungs == {RungOf(TierLadder(routing),
                         ScoreComplexity(texts[i], routing).recommendation)
                    : i \in DOMAIN texts}
    IN  Max({0} \cup rungs)

(* The highest rung that one user message alone asks for.                   *)
HighWater(messages, routing) ==
    LET texts == TextsOf(WithRole(messages, "user"))
        rungs == {RungOf(TierLadder(routing),
                         ScoreComplexity(texts[i], routing).recommendation)
                    : i \in DOMAIN texts}
    IN  Max({0} \cup rungs)

(* A model that is not on the ladder counts as its lowest rung.             *)
Latch(decided, ladder, sticky) ==
    IF Len(ladder) > 1 /\ sticky > Max({1, RungOf(ladder, decided.chosen)})
    THEN [mode |-> "sticky", chosen |-> ladder[sticky]]
    ELSE decided

(* apply_sticky_route: never for a pin, and only ever upwards.              *)
ApplyStickyRoute(request, decided, routing) ==
    IF ~request.sticky \/ decided.mode \in {"pinned", "refused"} THEN decided
    ELSE Latch(decided, TierLadder(routing), HighWater(request.messages, routing))

-----------------------------------------------------------------------------
(* The whole decision for what a request asks: scored, routed, latched.     *)
Decide(request, routing, endpoints) ==
    LET decision == ScoreComplexity(ScopedPrompt(request.messages, request.scope),
                                    routing)
    IN  ApplyStickyRoute(request,
            RouteDecision(request, decision, routing, endpoints), routing)

(* Where delivery starts: an offline request at the lowest rung that has an *)
(* endpoint, or at its own choice when none has.                            *)
DeliverFrom(chosen, offline, routing, endpoints) ==
    LET reachable == SelectSeq(TierLadder(routing), LAMBDA m : m \in endpoints)
    IN  IF offline /\ reachable # << >> THEN Head(reachable) ELSE chosen
=============================================================================
