---------------------------- MODULE Calibration ----------------------------
(***************************************************************************)
(* Fitting a routing configuration to labelled prompts (calibrate.rs).      *)
(*                                                                         *)
(* A sample is [features, label, score], the score in hundredths under the  *)
(* default weights, and so is a cut until it is written; the weights and    *)
(* costs that are asked for are in grains.  Accuracies and savings are      *)
(* compared as the integers they are multiples of.  A result is the text of *)
(* the new [routing], or None for a refusal.                                *)
(***************************************************************************)
EXTENDS ConfigFile

CONSTANTS
    NameOrder,      \* the labels and model names in string order
    Fit(_, _)       \* fit_classifier: the rows [intercept, weights] that the
                    \* Newton steps of the solver reach, by class, in grains

Sample(features, label, score) ==
    [features |-> features, label |-> label, score |-> score]

(* parse_dataset: a row without a label is refused, and so is an empty log. *)
ParseDataset(rows, FeaturesOf, ScoreOf) ==
    IF rows = << >> \/ \E i \in DOMAIN rows : rows[i].label = ""
    THEN None
    ELSE Some([i \in DOMAIN rows |->
                  Sample(FeaturesOf[rows[i].text], rows[i].label,
                         ScoreOf[rows[i].text])])

(* rescore_samples: under the weights that were asked for.                  *)
Rescored(samples, weights) ==
    IF weights = None THEN samples
    ELSE [i \in DOMAIN samples |->
             [samples[i] EXCEPT
                 !.score = ScalarScore(samples[i].features, weights[1])]]

LabelsPresent(samples) == {samples[i].label : i \in DOMAIN samples}

Before(a, b) ==
    LET Position(name) == CHOOSE i \in DOMAIN NameOrder : NameOrder[i] = name
    IN  Position(a) < Position(b)

SamplesOf(samples, label) == {i \in DOMAIN samples : samples[i].label = label}

TotalOf(samples, label) ==
    MapThenSumSet(LAMBDA i : samples[i].score, SamplesOf(samples, label))

(* A lower mean, compared without the quotients, or one that is equal and   *)
(* the name that sorts first.                                               *)
MeanBefore(samples, a, b) ==
    LET left == TotalOf(samples, a) * Cardinality(SamplesOf(samples, b))
        right == TotalOf(samples, b) * Cardinality(SamplesOf(samples, a))
    IN  left < right \/ (left = right /\ Before(a, b))

(* labels_by_mean_score: upwards.                                           *)
LabelsByMeanScore(samples) ==
    LET present == LabelsPresent(samples)
        Below(label) == {other \in present : MeanBefore(samples, other, label)}
    IN  [k \in 1..Cardinality(present) |->
            CHOOSE label \in present : Cardinality(Below(label)) = k - 1]

-----------------------------------------------------------------------------
(* Cuts.  A prompt goes to the high arm when its score reaches the cut;     *)
(* scored holds [score, high] for each sample.                              *)

ScoredAgainst(samples, high) ==
    [i \in DOMAIN samples |->
        [score |-> samples[i].score, high |-> samples[i].label = high]]

Candidates(scored) == {0} \cup {scored[i].score : i \in DOMAIN scored}

Above(scored, cut) == {i \in DOMAIN scored : scored[i].score >= cut}

(* Mutant: a score at the cut counts for the low arm.                       *)
CorrectBeyond(scored, cut) ==
    Cardinality({i \in DOMAIN scored :
                    (scored[i].score > cut) = scored[i].high})

CorrectAt(scored, cut) ==
    Cardinality({i \in DOMAIN scored :
                    (scored[i].score >= cut) = scored[i].high})

(* savings_at, over the number of samples times cost_high.                  *)
SavingsAt(scored, cut, low, high) ==
    (Len(scored) - Cardinality(Above(scored, cut))) * (high - low)

(* The middle, of two the upper one.                                        *)
UpperMiddle(cuts) ==
    LET Upto(c) == {d \in cuts : d <= c}
    IN  Min({c \in cuts : 2 * Cardinality(Upto(c)) > Cardinality(cuts)})

(* The middle of the cuts that tie for the best.                            *)
MiddleOfBest(worth) ==
    UpperMiddle({c \in DOMAIN worth :
                    \A d \in DOMAIN worth : worth[d] <= worth[c]})

(* sweep_cut.                                                               *)
SweepCut(scored) ==
    MiddleOfBest([c \in Candidates(scored) |-> CorrectAt(scored, c)])

(* sweep_cut_cost_aware: the most accurate of the cuts that save enough,    *)
(* the target in hundredths.                                                *)
SweepCutCostAware(scored, low, high, target) ==
    LET feasible == {c \in Candidates(scored) :
                        100 * SavingsAt(scored, c, low, high)
                            >= target * Len(scored) * high}
    IN  IF feasible = {} THEN None
        ELSE Some(MiddleOfBest([c \in feasible |-> CorrectAt(scored, c)]))

(* sweep_cut_knee: the most of recall times savings.                        *)
SweepCutKnee(scored, low, high) ==
    LET Recalled(cut) ==
            Cardinality({i \in Above(scored, cut) : scored[i].high})
    IN  MiddleOfBest([c \in Candidates(scored) |->
                         Recalled(c) * SavingsAt(scored, c, low, high)])

(* cost_ordered_arms: the costs decide which arm is high, not the scores.   *)
CostOrderedArms(labels, costs) ==
    IF costs = None
    THEN Some([low |-> labels[1], high |-> labels[2],
               cost_low |-> InGrains(20), cost_high |-> InGrains(100)])
    ELSE IF ~(ToSet(labels) \subseteq DOMAIN costs[1]) THEN None
    ELSE LET swapped == costs[1][labels[1]] > costs[1][labels[2]]
             low == IF swapped THEN labels[2] ELSE labels[1]
             high == IF swapped THEN labels[1] ELSE labels[2]
         IN  IF costs[1][high] <= 0 THEN None
             ELSE Some([low |-> low, high |-> high,
                        cost_low |-> costs[1][low],
                        cost_high |-> costs[1][high]])

-----------------------------------------------------------------------------
(* Modes.                                                                   *)

(* CalibrationOptions::default.                                             *)
DefaultOptions ==
    [order |-> None, l2 |-> 1, objective |-> "accuracy", costs |-> None,
     target |-> None, weights |-> None]

Tier(min_score, model, cost) ==
    [min_score |-> min_score, model |-> model, cost |-> cost]

(* weights_block: only the weights that differ from the default.            *)
WeightsBlock(weights) ==
    IF weights = None THEN << >>
    ELSE [f \in {f \in FeatureNames : weights[1][f] # FileWeights[f]} |->
             Emitted(weights[1][f])]

(* tiers_toml: labels between quotes as they are, numbers to six decimals.  *)
TiersText(tiers, options) ==
    IF \E i \in DOMAIN tiers : Raw(tiers[i].model) = None THEN Torn
    ELSE [Empty EXCEPT
            !.weights = WeightsBlock(options.weights),
            !.tiers = Some([i \in DOMAIN tiers |->
                Tier(InGrains(tiers[i].min_score), ReadRaw(tiers[i].model),
                     MapOption(Emitted, tiers[i].cost))])]

(* The cut between two arms that differ in cost.                            *)
CostedCut(scored, arms, options) ==
    CASE options.objective = "knee" ->
            Some(SweepCutKnee(scored, arms.cost_low, arms.cost_high))
      [] options.objective = "cost-quality" /\ options.target # None ->
            SweepCutCostAware(scored, arms.cost_low, arms.cost_high,
                              options.target[1])
      [] OTHER -> None

CostedThreshold(samples, arms, options) ==
    MapOption(LAMBDA cut : <<Tier(0, arms.low, Some(arms.cost_low)),
                             Tier(cut, arms.high, Some(arms.cost_high))>>,
              CostedCut(ScoredAgainst(samples, arms.high), arms, options))

CostedBetween(samples, arms, options) ==
    IF arms = None THEN None ELSE CostedThreshold(samples, arms[1], options)

ThresholdBetween(samples, labels, options) ==
    IF Len(labels) # 2 THEN None
    ELSE IF options.objective = "accuracy"
    THEN Some(<<Tier(0, labels[1], None),
                Tier(SweepCut(ScoredAgainst(samples, labels[2])), labels[2],
                     None)>>)
    ELSE CostedBetween(samples, CostOrderedArms(labels, options.costs), options)

OfRescored(samples, options) ==
    ThresholdBetween(samples, LabelsByMeanScore(samples), options)

(* calibrate_threshold: the ladder it finds.                                *)
CalibrateThreshold(given, options) ==
    OfRescored(Rescored(given, options.weights), options)

(* The order of the models: as asked for, if it names the labels present.   *)
OrderFor(samples, options) ==
    LET order == OrElse(options.order, LabelsByMeanScore(samples))
    IN  IF ToSet(order) = LabelsPresent(samples) /\ Len(order) >= 2
        THEN Some(order) ELSE None

(* A cut for each pair of neighbours, never below the one before it.        *)
TiersInOrder(samples, order) ==
    LET Rank(label) == Max({k \in DOMAIN order : order[k] = label})
        PairCut(k) ==
            LET pair == SelectSeq(samples,
                    LAMBDA each : each.label \in {order[k], order[k + 1]})
            IN  SweepCut([i \in DOMAIN pair |->
                             [score |-> pair[i].score,
                              high |-> Rank(pair[i].label) > k]])
        Cut(k) == Max({0} \cup {PairCut(j) : j \in 1..(k - 1)})
    IN  [k \in DOMAIN order |-> Tier(Cut(k), order[k], None)]

(* calibrate_tiers: the ladder it finds.                                    *)
CalibrateTiers(given, options) ==
    LET samples == Rescored(given, options.weights)
    IN  MapOption(LAMBDA order : TiersInOrder(samples, order),
                  OrderFor(samples, options))

(* classifier_toml.                                                         *)
Classified(order, rows) ==
    IF \E c \in DOMAIN order : Raw(order[c]) = None THEN Torn
    ELSE [Empty EXCEPT !.classifier = Some(
        [models |-> [c \in DOMAIN order |-> ReadRaw(order[c])],
         intercepts |-> [c \in DOMAIN rows |-> Emitted(rows[c].intercept)],
         weights |-> [f \in FeatureNames |->
             [c \in DOMAIN rows |-> Emitted(rows[c].weights[f])]]])]

(* fit_classifier: one row for each class.                                  *)
FitClassifier(samples, options) ==
    IF options.l2 <= 0 THEN None
    ELSE MapOption(LAMBDA order : Classified(order, Fit(samples, order)),
                   OrderFor(samples, options))

(* calibrate.                                                               *)
Calibrate(samples, mode, options) ==
    LET Written(ladder) == TiersText(ladder, options)
    IN  IF options.objective # "accuracy" /\ mode # "threshold" THEN None
        ELSE CASE mode = "threshold" ->
                    MapOption(Written, CalibrateThreshold(samples, options))
               [] mode = "tiers" ->
                    MapOption(Written, CalibrateTiers(samples, options))
               [] mode = "classifier" -> FitClassifier(samples, options)
               [] OTHER -> None
=============================================================================
