------------------------------ MODULE Judging ------------------------------
(***************************************************************************)
(* The sufficiency judge and its trust gates (judge.rs, sufficiency.rs).    *)
(*                                                                         *)
(* An answer is [text, refusal]: its normalized text as a sequence, and     *)
(* whether a refusal marker stands in it.  A verdict is the pair            *)
(* [sufficient, comparator], sufficient being None for an abstention.       *)
(***************************************************************************)
EXTENDS Calibration

CONSTANTS
    MinAnswerChars,     \* DEFAULT_MIN_ANSWER_CHARS
    AutoJunk,           \* the length from which frequent letters are dropped
    KappaFloor,         \* --kappa-floor, in hundredths
    Folds               \* --folds

-----------------------------------------------------------------------------
(* Similarity.                                                              *)

(* b2j: in a long text the letters that fill more than a hundredth of it    *)
(* start no match.                                                          *)
Indexed(b) ==
    LET Uses(j) == Cardinality({k \in DOMAIN b : b[k] = b[j]})
    IN  IF Len(b) < AutoJunk THEN DOMAIN b
        ELSE {j \in DOMAIN b : Uses(j) <= Len(b) \div 100 + 1}

(* find_longest_match in a[alo..ahi) and b[blo..bhi): the longest run that  *)
(* starts the earliest, grown over letters that are not indexed.            *)
FindLongestMatch(a, b, alo, ahi, blo, bhi) ==
    LET Same(i, j, n) == \A k \in 0..(n - 1) : a[i + k] = b[j + k]
        Runs(indexed) ==
            {run \in (alo..(ahi - 1)) \X (blo..(bhi - 1)) \X
                        (1..Min({ahi - alo, bhi - blo})) :
                /\ run[1] + run[3] <= ahi /\ run[2] + run[3] <= bhi
                /\ Same(run[1], run[2], run[3])
                /\ indexed => run[2]..(run[2] + run[3] - 1) \subseteq Indexed(b)}
        Sooner(p, q) == p[1] < q[1] \/ (p[1] = q[1] /\ p[2] <= q[2])
        longest == {p \in Runs(TRUE) : \A q \in Runs(TRUE) : q[3] <= p[3]}
        core == IF longest = {} THEN <<alo, blo, 0>>
                ELSE CHOOSE p \in longest : \A q \in longest : Sooner(p, q)
        Around(p) == /\ p[1] <= core[1] /\ p[1] - core[1] = p[2] - core[2]
                     /\ p[1] + p[3] >= core[1] + core[3]
        grown == {p \in Runs(FALSE) : Around(p)}
    IN  IF grown = {} THEN core
        ELSE CHOOSE p \in grown : \A q \in grown : q[3] <= p[3]

(* matching_blocks: how many letters the blocks to the left of, at and to   *)
(* the right of the longest match cover.                                    *)
MatchesIn(a, b) ==
    LET ends == 1..(Len(a) + 1)
        others == 1..(Len(b) + 1)
        Within[part \in ends \X ends \X others \X others] ==
            LET alo == part[1]  ahi == part[2]
                blo == part[3]  bhi == part[4]
                best == FindLongestMatch(a, b, alo, ahi, blo, bhi)
            IN  IF best[3] = 0 THEN 0
                ELSE best[3] + Within[<<alo, best[1], blo, best[2]>>]
                     + Within[<<best[1] + best[3], ahi, best[2] + best[3], bhi>>]
    IN  Within[<<1, Len(a) + 1, 1, Len(b) + 1>>]

(* ratio() >= DEFAULT_SIMILARITY_SUFFICIENT.                                *)
Similar(a, b) ==
    LET total == Len(a) + Len(b)
        matches == MatchesIn(a, b)
    IN  total = 0 \/ 10 * 2 * matches >= 8 * total

-----------------------------------------------------------------------------
(* Verdict.                                                                 *)

(* is_non_answer.                                                           *)
IsNonAnswer(answer) == answer.text = << >> \/ answer.refusal

Verdict(sufficient, comparator) ==
    [sufficient |-> sufficient, comparator |-> comparator]

(* HeuristicJudge::judge: refusals first, then equality, then similarity of *)
(* answers that are long enough.                                            *)
Judge(cheap, expensive) ==
    LET long == /\ Len(cheap.text) >= MinAnswerChars
                /\ Len(expensive.text) >= MinAnswerChars
    IN  CASE IsNonAnswer(cheap) /\ IsNonAnswer(expensive) ->
                Verdict(None, "refusal")
          [] IsNonAnswer(cheap) /\ ~IsNonAnswer(expensive) ->
                Verdict(Some(FALSE), "refusal")
          [] ~IsNonAnswer(cheap) /\ IsNonAnswer(expensive) ->
                Verdict(Some(TRUE), "refusal")
          [] OTHER ->
                IF cheap.text = expensive.text
                THEN Verdict(Some(TRUE), "agreement")
                ELSE IF long /\ Similar(cheap.text, expensive.text)
                THEN Verdict(Some(TRUE), "similarity")
                ELSE Verdict(None, "divergence")

(* as_onboard_judge: the label a verdict stands for.                        *)
LabelFor(verdict, cheap, expensive) ==
    IF verdict.sufficient = None THEN None
    ELSE Some(IF verdict.sufficient[1] THEN cheap ELSE expensive)

-----------------------------------------------------------------------------
(* Trust gates.  A pair is [judge, gold].                                   *)

(* confusion_matrix.                                                        *)
Confusion(pairs) ==
    LET labels == {pairs[i].judge : i \in DOMAIN pairs}
                    \cup {pairs[i].gold : i \in DOMAIN pairs}
    IN  [row \in labels |-> [col \in labels |->
            Cardinality({i \in DOMAIN pairs :
                pairs[i].judge = row /\ pairs[i].gold = col})]]

(* cohens_kappa against a floor in hundredths; observed and expected are    *)
(* over the square of the number of pairs.  Raters that both use one label  *)
(* have agreed fully, or not at all.                                        *)
KappaReaches(pairs, floor) ==
    LET n == Len(pairs)
        matrix == Confusion(pairs)
        Row(l) == MapThenSumSet(LAMBDA c : matrix[l][c], DOMAIN matrix)
        Col(l) == MapThenSumSet(LAMBDA r : matrix[r][l], DOMAIN matrix)
        observed == n * MapThenSumSet(LAMBDA l : matrix[l][l], DOMAIN matrix)
        expected == MapThenSumSet(LAMBDA l : Row(l) * Col(l), DOMAIN matrix)
    IN  IF n = 0 THEN 0 >= floor
        ELSE IF expected >= n * n
        THEN (IF observed >= n * n THEN 100 ELSE 0) >= floor
        ELSE 100 * (observed - expected) >= floor * (n * n - expected)

(* majority_baseline, over the number of samples.                           *)
Majority(samples) ==
    Max({0} \cup {Cardinality({i \in DOMAIN samples : samples[i].label = l}) :
                    l \in LabelsPresent(samples)})

(* cross_validated_accuracy: fold f holds every k-th sample; a fold whose   *)
(* rest cannot be calibrated is left out.                                   *)
FoldOf(i, k) == (i - 1) % k

Rest(samples, f, k) ==
    LET kept == SelectSeq([i \in DOMAIN samples |-> i],
                          LAMBDA i : FoldOf(i, k) # f)
    IN  [p \in DOMAIN kept |-> samples[kept[p]]]

FoldAccuracy(samples, f, k) ==
    LET test == {i \in DOMAIN samples : FoldOf(i, k) = f}
        Right(ladder) == {i \in test :
            RecommendTier(samples[i].score, ladder) = samples[i].label}
    IN  MapOption(LAMBDA ladder : [correct |-> Cardinality(Right(ladder)),
                                   of |-> Cardinality(test)],
                  CalibrateThreshold(Rest(samples, f, k), DefaultOptions))

(* Whether the mean accuracy of the folds is above majority over n.         *)
MeanAbove(parts, majority, n) ==
    LET Scale == FoldLeft(LAMBDA product, i : product * i, 1,
                          [i \in 1..n |-> i])
    IN  /\ parts # << >>
        /\ n * MapThenSumSet(LAMBDA p : parts[p].correct
                                        * (Scale \div parts[p].of),
                            DOMAIN parts)
               > majority * Scale * Len(parts)

(* Whether the mean over the folds beats the majority: lift > 0.            *)
LiftsAboveMajority(samples) ==
    LET n == Len(samples)
        k == Min({Folds, n})
    IN  /\ n >= 2 /\ k > 0
        /\ MeanAbove(FlattenSeq([f \in 1..k |-> FoldAccuracy(samples, f - 1, k)]),
                     Majority(samples), n)

(* evaluate_with_options: agreement with the gold labels, both arms present *)
(* (majority at most 95 in 100), and lift over the majority.                *)
Degenerate(samples) ==
    \/ Cardinality(LabelsPresent(samples)) < 2
    \/ 100 * Majority(samples) > 95 * Len(samples)

GatesPass(pairs, samples) ==
    /\ pairs # << >> /\ KappaReaches(pairs, KappaFloor)
    /\ ~Degenerate(samples)
    /\ LiftsAboveMajority(samples)
=============================================================================
