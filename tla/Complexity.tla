----------------------------- MODULE Complexity -----------------------------
(***************************************************************************)
(* The deterministic scorer (complexity.rs): features of a text, their      *)
(* weighted score and the model a tier ladder or a classifier recommends.   *)
(*                                                                         *)
(* A text is a sequence of lines.  A line is what the expressions of the    *)
(* scorer find in it: the alternative of the line patterns it matches, and  *)
(* how many words, terms, symbols, links and question marks it holds.       *)
(* A score is kept in hundredths, as round_to(_, 2) leaves it; tier         *)
(* thresholds, weights and logits are integers on one scale.                *)
(***************************************************************************)
EXTENDS Integers, Sequences, FiniteSetsExt

LineKinds ==
    {"dashes", "dots", "fence", "heading", "list", "table", "plain"}

(* What find_iter counts on a line, wherever the line stands.               *)
Marks == {"word", "reasoning", "math", "constraint", "question"}

Line == [kind : LineKinds, depth : 0..6, link : Nat,
         word : Nat, reasoning : Nat, math : Nat, constraint : Nat,
         question : Nat]

(* FEATURE_ORDER, as a set.                                                 *)
FeatureNames ==
    {"word_count", "heading_count", "max_heading_depth", "list_item_count",
     "link_count", "code_block_count", "table_row_count",
     "reasoning_term_count", "math_symbol_count", "constraint_term_count",
     "question_count"}

(* SATURATION.                                                              *)
Saturation ==
    [word_count |-> 400, heading_count |-> 8, max_heading_depth |-> 4,
     list_item_count |-> 15, link_count |-> 10, code_block_count |-> 4,
     table_row_count |-> 12, reasoning_term_count |-> 2,
     math_symbol_count |-> 6, constraint_term_count |-> 3,
     question_count |-> 3]

(* DEFAULT_WEIGHTS, in halves.                                              *)
DefaultWeights ==
    [word_count |-> 6, heading_count |-> 3, max_heading_depth |-> 2,
     list_item_count |-> 4, link_count |-> 2, code_block_count |-> 3,
     table_row_count |-> 2, reasoning_term_count |-> 0,
     math_symbol_count |-> 0, constraint_term_count |-> 0,
     question_count |-> 0]

-----------------------------------------------------------------------------
(* Features.                                                                *)

(* strip_frontmatter: a text that opens with --- loses everything up to the *)
(* line that closes it; without a closing line it is kept whole.            *)
StripFrontmatter(text) ==
    LET closing == {i \in 2..Len(text) : text[i].kind \in {"dashes", "dots"}}
    IN  IF Len(text) > 0 /\ text[1].kind = "dashes" /\ closing # {}
        THEN SubSeq(text, Min(closing) + 1, Len(text))
        ELSE text

Fences(body) == {i \in DOMAIN body : body[i].kind = "fence"}

(* The lines between an opening fence and its closing one, or the end.      *)
InFence(body, i) ==
    Cardinality({j \in Fences(body) : j < i}) % 2 = 1

Prose(body) == {i \in DOMAIN body \ Fences(body) : ~InFence(body, i)}

OfKind(body, kind) == {i \in Prose(body) : body[i].kind = kind}

SumOver(body, lines, mark) ==
    MapThenSumSet(LAMBDA i : body[i][mark], lines)

(* extract_features_with_lexicon: structure and links are read outside      *)
(* fences only, words, terms, symbols and questions everywhere.             *)
ExtractFeatures(text) ==
    LET body == StripFrontmatter(text)
        Everywhere(mark) == SumOver(body, DOMAIN body, mark)
        headings == OfKind(body, "heading")
    IN  [word_count |-> Everywhere("word"),
         heading_count |-> Cardinality(headings),
         max_heading_depth |-> Max({0} \cup {body[i].depth : i \in headings}),
         list_item_count |-> Cardinality(OfKind(body, "list")),
         link_count |-> SumOver(body, Prose(body), "link"),
         code_block_count |-> (Cardinality(Fences(body)) + 1) \div 2,
         table_row_count |-> Cardinality(OfKind(body, "table")),
         reasoning_term_count |-> Everywhere("reasoning"),
         math_symbol_count |-> Everywhere("math"),
         constraint_term_count |-> Everywhere("constraint"),
         question_count |-> Everywhere("question")]

-----------------------------------------------------------------------------
(* Score.                                                                   *)

(* A multiple of every saturation, so that normalized values are integers.  *)
Unit == 1200

(* normalized_features: a feature counts up to its saturation.              *)
Normalized(features) ==
    [f \in FeatureNames |->
        Min({features[f], Saturation[f]}) * (Unit \div Saturation[f])]

TotalWeight(weights) == MapThenSumSet(LAMBDA f : weights[f], FeatureNames)

Weighted(weights, normalized) ==
    MapThenSumSet(LAMBDA f : weights[f] * normalized[f], FeatureNames)

(* round_to: to the nearest, a tie to the even neighbour.                   *)
RoundHalfEven(a, b) ==
    LET floor == a \div b
        rest == 2 * (a % b)
    IN  IF rest < b \/ (rest = b /\ floor % 2 = 0) THEN floor ELSE floor + 1

(* scalar_score.                                                            *)
ScalarScore(features, weights) ==
    LET total == TotalWeight(weights)
    IN  IF total = 0 THEN 0
        ELSE RoundHalfEven(100 * Weighted(weights, Normalized(features)),
                           Unit * total)

(* explain_score: the share of one feature, to four decimals.               *)
Contribution(features, weights, f) ==
    LET total == TotalWeight(weights)
    IN  IF total = 0 THEN 0
        ELSE RoundHalfEven(10000 * weights[f] * Normalized(features)[f],
                           Unit * total)

-----------------------------------------------------------------------------
(* Recommendation.                                                          *)

(* recommend_tier: climb the tiers in their order until one asks for more.  *)
RecommendTier(score, tiers) ==
    LET Reaches(n) == \A i \in 1..n : tiers[i].min_score <= score
    IN  IF tiers = << >> THEN "local"
        ELSE tiers[Max({1} \cup {n \in DOMAIN tiers : Reaches(n)})].model

(* ClassifierModel::predict: the first of the classes with the best logit.  *)
Predict(classifier, features) ==
    LET normalized == Normalized(features)
        Logit(c) == classifier[c].intercept * Unit
                        + Weighted(classifier[c].weights, normalized)
        best == {c \in DOMAIN classifier :
                    \A d \in DOMAIN classifier : Logit(d) <= Logit(c)}
    IN  classifier[Min(best)].model

(* RoutingConfig: the classifier, when there is one, decides.               *)
HasClassifier(routing) == routing.classifier # << >>

(* score_complexity.                                                        *)
ScoreComplexity(text, routing) ==
    LET features == ExtractFeatures(text)
        score == ScalarScore(features, routing.weights)
    IN  [score |-> score,
         recommendation |-> IF HasClassifier(routing)
                            THEN Predict(routing.classifier, features)
                            ELSE RecommendTier(score, routing.tiers)]

(* binary_tiers.                                                            *)
BinaryTiers(threshold) ==
    <<[min_score |-> 0, model |-> "local"],
      [min_score |-> threshold, model |-> "cloud"]>>
=============================================================================
