-------------------------- MODULE WorkspaceProofs --------------------------
(* Proofs about Workspace, for any number of agents and jobs, any texts,    *)
(* labels and prompts.                                                      *)
EXTENDS Workspace, FiniteSetTheorems, WellFoundedInduction, SequenceTheorems, TLAPS

-----------------------------------------------------------------------------
(***************************************************************************)
(* Numbers and sums.                                                        *)
(***************************************************************************)

(* A set of numbers that has a member has a least one.                      *)
LEMMA LeastExists ==
    ASSUME NEW S \in SUBSET Nat, S # {}
    PROVE  \E i \in S : \A j \in S : i <= j
<1>1. PICK i \in S : \A j \in S : <<j, i>> \notin OpToRel(<, Nat)
  BY NatLessThanWellFounded, WFMin, Zenon
<1>2. \A j \in S : ~(j < i)
  BY <1>1 DEF OpToRel
<1>3. QED
  BY <1>2

(* A set that holds 0 and with every number the next holds them all.        *)
LEMMA NaturalSteps ==
    ASSUME NEW N, 0 \in N, \A n \in Nat : n \in N => n + 1 \in N
    PROVE  Nat \subseteq N
<1> SUFFICES ASSUME Nat \ N # {} PROVE FALSE
  OBVIOUS
<1>1. PICK n \in Nat \ N : \A m \in Nat \ N : n <= m
  BY LeastExists
<1>2. n # 0 /\ n - 1 \in Nat /\ n - 1 \notin Nat \ N
  BY <1>1
<1>3. n - 1 \in N /\ n - 1 \in Nat /\ (n - 1) + 1 = n
  BY <1>2
<1>4. QED
  BY <1>3

(* Of things worth no more than b, some are worth the most.                 *)
LEMMA BestExists ==
    ASSUME NEW S, S # {}, NEW b \in Nat, NEW worth, \A x \in S : worth[x] \in 0..b
    PROVE  \E x \in S : \A y \in S : worth[y] <= worth[x]
<1> DEFINE N == {b - worth[x] : x \in S}
<1>1. N \in SUBSET Nat /\ N # {}
  OBVIOUS
<1>2. PICK n \in N : \A m \in N : n <= m
  <2> HIDE DEF N
  <2>1. QED
    BY <1>1, LeastExists
<1>3. PICK x \in S : n = b - worth[x]
  BY <1>2
<1>4. \A y \in S : b - worth[x] <= b - worth[y]
  BY <1>2, <1>3
<1>5. QED
  BY <1>4

LEMMA MinIs ==
    ASSUME NEW S \in SUBSET Nat, S # {}
    PROVE  Min(S) \in S /\ \A n \in S : Min(S) <= n
BY LeastExists DEF Min

LEMMA GreatestExists ==
    ASSUME NEW S \in SUBSET Nat, S # {}, IsFiniteSet(S)
    PROVE  \E m \in S : \A n \in S : n <= m
<1> DEFINE upto == [m \in S |-> Cardinality({n \in S : n <= m})]
<1>1. \A m \in S : upto[m] \in 0..Cardinality(S)
  BY FS_Subset, FS_CardinalityType
<1>2. Cardinality(S) \in Nat
  BY FS_CardinalityType
<1>3. PICK m \in S : \A n \in S : upto[n] <= upto[m]
  <2> HIDE DEF upto
  <2>1. QED
    BY <1>1, <1>2, BestExists
<1>4. ASSUME NEW n \in S, n > m PROVE FALSE
  <2> DEFINE A == {k \in S : k <= m}
             B == {k \in S : k <= n}
  <2>1. A \in SUBSET (B \ {n}) /\ n \in B
    <3>1. n \in Nat /\ m \in Nat /\ \A k \in S : k \in Nat
      OBVIOUS
    <3>2. \A k \in S : k <= m => k <= n /\ k # n
      BY <1>4, <3>1
    <3>3. \A k \in A : k \in B \ {n}
      BY <3>2
    <3>4. n <= n
      BY <3>1
    <3>5. QED
      BY <3>3, <3>4
  <2>2. IsFiniteSet(B)
    BY FS_Subset
  <2> HIDE DEF A, B
  <2>3. IsFiniteSet(B \ {n}) /\ Cardinality(B \ {n}) = Cardinality(B) - 1
    BY <2>1, <2>2, FS_RemoveElement
  <2>4. Cardinality(A) <= Cardinality(B \ {n})
    BY <2>1, <2>3, FS_Subset
  <2>5. Cardinality(A) = upto[m] /\ Cardinality(B) = upto[n]
    BY DEF A, B
  <2>6. upto[m] \in Nat /\ upto[n] \in Nat
    BY <1>1, <1>2
  <2> HIDE DEF upto
  <2>7. QED
    BY <1>3, <1>4, <2>3, <2>4, <2>5, <2>6
<1>5. QED
  BY <1>4

LEMMA MaxIs ==
    ASSUME NEW S \in SUBSET Nat, S # {}, IsFiniteSet(S)
    PROVE  Max(S) \in S /\ \A n \in S : n <= Max(S)
<1>1. PICK m \in S : \A n \in S : n <= m
  BY GreatestExists
<1>2. \A n \in S : m >= n
  BY <1>1
<1>3. Max(S) \in S /\ \A n \in S : Max(S) >= n
  BY <1>2, Zenon DEF Max
<1>4. QED
  BY <1>3

(* What a finite list holds is finite.                                      *)
LEMMA ImageIsFinite ==
    ASSUME NEW f, IsFiniteSet(DOMAIN f)
    PROVE  LET image == {f[i] : i \in DOMAIN f}
           IN  IsFiniteSet(image) /\ Cardinality(image) <= Cardinality(DOMAIN f)
<1> DEFINE image == {f[i] : i \in DOMAIN f}
           g == [i \in DOMAIN f |-> f[i]]
<1>1. g \in Surjection(DOMAIN f, image)
  BY DEF Surjection
<1>2. QED
  BY <1>1, FS_Surjection

-----------------------------------------------------------------------------
(* What a fold over a finite set sums up is a number.                       *)

Pick(s) == CHOOSE x \in s : TRUE

(* The function that the fold computes on the subsets of S.                 *)
Sums(it, g, S) ==
    it = [s \in SUBSET S |->
            IF s = {} THEN 0 ELSE g[Pick(s)] + it[s \ {Pick(s)}]]

(* It exists, built for one size of subset after the other.                 *)
LEMMA SumsExist ==
    ASSUME NEW g, NEW S, IsFiniteSet(S)
    PROVE  \E it : Sums(it, g, S)
<1> DEFINE Upto(n) == {s \in SUBSET S : Cardinality(s) <= n}
           OK(it, n) == it = [s \in Upto(n) |-> IF s = {} THEN 0
                                ELSE g[Pick(s)] + it[s \ {Pick(s)}]]
           N == {n \in Nat : \E it : OK(it, n)}
<1>1. \A s \in SUBSET S : IsFiniteSet(s) /\ Cardinality(s) \in Nat
  BY FS_Subset, FS_CardinalityType
<1>2. \A s \in SUBSET S : s # {} => /\ Pick(s) \in s /\ s \ {Pick(s)} \in SUBSET S
                                    /\ Cardinality(s \ {Pick(s)}) = Cardinality(s) - 1
  BY <1>1, FS_RemoveElement DEF Pick
<1>3. 0 \in N
  <2> DEFINE it == [s \in Upto(0) |-> 0]
  <2>1. \A s \in Upto(0) : s = {}
    BY <1>1, FS_EmptySet
  <2>2. OK(it, 0)
    BY <2>1
  <2>3. QED
    BY <2>2
<1>4. ASSUME NEW n \in Nat, n \in N PROVE n + 1 \in N
  <2>1. PICK it : OK(it, n)
    BY <1>4
  <2> DEFINE jt == [s \in Upto(n + 1) |-> IF s = {} THEN 0
                      ELSE g[Pick(s)] + it[s \ {Pick(s)}]]
  <2>2. \A s \in Upto(n) : s \in Upto(n + 1) /\ jt[s] = it[s]
    <3>1. \A s \in Upto(n) : s \in Upto(n + 1)
      BY <1>1
    <3>2. \A s \in Upto(n) : it[s] = IF s = {} THEN 0
                                ELSE g[Pick(s)] + it[s \ {Pick(s)}]
      BY <2>1
    <3>3. QED
      BY <3>1, <3>2
  <2>3. \A s \in Upto(n + 1) : s # {} => s \ {Pick(s)} \in Upto(n)
    BY <1>1, <1>2
  <2>4. \A s \in Upto(n + 1) : s # {} => jt[s \ {Pick(s)}] = it[s \ {Pick(s)}]
    BY <2>2, <2>3
  <2>5. jt = [s \in Upto(n + 1) |-> IF s = {} THEN 0
                ELSE g[Pick(s)] + jt[s \ {Pick(s)}]]
    BY <2>4
  <2>6. OK(jt, n + 1)
    BY <2>5
  <2>7. n + 1 \in Nat
    OBVIOUS
  <2> HIDE DEF OK
  <2>8. QED
    BY <2>6, <2>7
<1>5. PICK it : OK(it, Cardinality(S))
  <2>1. Nat \subseteq N
    <3> HIDE DEF N
    <3>1. QED
      BY <1>3, <1>4, NaturalSteps
  <2>2. QED
    BY <2>1, FS_CardinalityType
<1>6. Upto(Cardinality(S)) = SUBSET S
  BY FS_Subset
<1>7. QED
  BY <1>5, <1>6 DEF Sums

LEMMA SumIsNat ==
    ASSUME NEW S, IsFiniteSet(S), NEW g, \A x \in S : g[x] \in Nat,
           NEW it, Sums(it, g, S)
    PROVE  it[S] \in Nat
<1> DEFINE N == {n \in Nat : \A s \in SUBSET S : Cardinality(s) = n => it[s] \in Nat}
<1>1. \A s \in SUBSET S : IsFiniteSet(s) /\ Cardinality(s) \in Nat
  BY FS_Subset, FS_CardinalityType
<1>2. \A s \in SUBSET S :
         it[s] = IF s = {} THEN 0 ELSE g[Pick(s)] + it[s \ {Pick(s)}]
  BY DEF Sums
<1>3. 0 \in N
  BY <1>1, <1>2, FS_EmptySet
<1>4. ASSUME NEW n \in Nat, n \in N PROVE n + 1 \in N
  <2>1. ASSUME NEW s \in SUBSET S, Cardinality(s) = n + 1 PROVE it[s] \in Nat
    <3>1. s # {}
      BY <2>1, FS_EmptySet
    <3>2. Pick(s) \in s
      BY <3>1 DEF Pick
    <3>3. Cardinality(s \ {Pick(s)}) = n
      <4>1. Cardinality(s \ {Pick(s)}) = Cardinality(s) - 1
        BY <1>1, <3>2, FS_RemoveElement
      <4>2. QED
        BY <2>1, <4>1
    <3>4. it[s \ {Pick(s)}] \in Nat
      BY <1>4, <3>3
    <3>5. it[s] = g[Pick(s)] + it[s \ {Pick(s)}]
      BY <1>2, <3>1
    <3>6. g[Pick(s)] \in Nat
      BY <2>1, <3>2
    <3>7. QED
      BY <3>4, <3>5, <3>6
  <2>2. QED
    BY <2>1
<1>5. Nat \subseteq N
  <2> HIDE DEF N
  <2>1. QED
    BY <1>3, <1>4, NaturalSteps
<1>6. QED
  BY <1>5, FS_CardinalityType

-----------------------------------------------------------------------------
(***************************************************************************)
(* The scorer returns a number, for any features.                           *)
(***************************************************************************)

LEMMA FeaturesAreFinite == IsFiniteSet(FeatureNames)
<1> DEFINE f == <<"word_count", "heading_count", "max_heading_depth",
                  "list_item_count", "link_count", "code_block_count",
                  "table_row_count", "reasoning_term_count",
                  "math_symbol_count", "constraint_term_count",
                  "question_count">>
           n == 11
<1>1. n \in Nat /\ DOMAIN f = 1..n /\ FeatureNames = {f[i] : i \in DOMAIN f}
  BY DEF FeatureNames
<1> HIDE DEF f, n
<1>2. IsFiniteSet(1..n)
  BY <1>1, FS_Interval
<1>3. QED
  BY <1>1, <1>2, ImageIsFinite

LEMMA DefaultsAreNumbers ==
    /\ DOMAIN DefaultWeights = FeatureNames
    /\ \A f \in FeatureNames : DefaultWeights[f] \in Nat
    /\ \A f \in FeatureNames : Saturation[f] \in Nat \ {0}
BY DEF DefaultWeights, FeatureNames, Saturation

LEMMA NormalizedIsNat ==
    ASSUME NEW features \in [FeatureNames -> Nat]
    PROVE  Normalized(features) \in [FeatureNames -> Nat]
<1>1. SUFFICES ASSUME NEW f \in FeatureNames
               PROVE  Min({features[f], Saturation[f]}) * (Unit \div Saturation[f]) \in Nat
  BY DEF Normalized
<1>2. features[f] \in Nat /\ Saturation[f] \in Nat
  BY DefaultsAreNumbers
<1>3. {features[f], Saturation[f]} \in SUBSET Nat
  BY <1>2
<1>4. Min({features[f], Saturation[f]}) \in {features[f], Saturation[f]}
  BY <1>3, MinIs
<1>5. Unit \div Saturation[f] \in Nat
  BY DEF Unit, FeatureNames, Saturation
<1>6. \A m, n \in Nat : m * n \in Nat
  OBVIOUS
<1>7. QED
  BY <1>2, <1>4, <1>5, <1>6

LEMMA TotalWeightIsNat ==
    ASSUME NEW weights, \A f \in FeatureNames : weights[f] \in Nat
    PROVE  TotalWeight(weights) \in Nat
<1>1. TotalWeight(weights) = (CHOOSE it : Sums(it, weights, FeatureNames))[FeatureNames]
  BY DEF TotalWeight, MapThenSumSet, MapThenFoldSet, Sums, Pick
<1>2. PICK jt : Sums(jt, weights, FeatureNames)
  BY FeaturesAreFinite, SumsExist
<1> DEFINE it == CHOOSE f : Sums(f, weights, FeatureNames)
<1>3. Sums(it, weights, FeatureNames)
  BY <1>2
<1> HIDE DEF it
<1>4. it[FeatureNames] \in Nat
  BY <1>3, FeaturesAreFinite, SumIsNat
<1>5. QED
  BY <1>1, <1>4 DEF it

LEMMA WeightedIsNat ==
    ASSUME NEW weights, \A f \in FeatureNames : weights[f] \in Nat,
           NEW normalized \in [FeatureNames -> Nat]
    PROVE  Weighted(weights, normalized) \in Nat
<1> DEFINE g == [f \in FeatureNames |-> weights[f] * normalized[f]]
           Fold(it) ==
               it = [s \in SUBSET FeatureNames |->
                       IF s = {} THEN 0
                       ELSE weights[Pick(s)] * normalized[Pick(s)]
                              + it[s \ {Pick(s)}]]
           it == CHOOSE f : Fold(f)
<1>1. Weighted(weights, normalized) = it[FeatureNames]
  BY DEF Weighted, MapThenSumSet, MapThenFoldSet, Pick
<1>2. ASSUME NEW f PROVE Fold(f) <=> Sums(f, g, FeatureNames)
  <2>1. \A s \in SUBSET FeatureNames :
           s # {} => g[Pick(s)] = weights[Pick(s)] * normalized[Pick(s)]
    BY DEF Pick
  <2> HIDE DEF g
  <2>2. QED
    BY <2>1 DEF Sums
<1>3. \A f \in FeatureNames : g[f] \in Nat
  <2>1. \A m, n \in Nat : m * n \in Nat
    OBVIOUS
  <2>2. QED
    BY <2>1
<1> HIDE DEF g, Fold
<1>4. \E f : Fold(f)
  BY <1>2, FeaturesAreFinite, SumsExist
<1>5. Fold(it)
  BY <1>4
<1> HIDE DEF it
<1>6. it[FeatureNames] \in Nat
  BY <1>2, <1>3, <1>5, FeaturesAreFinite, SumIsNat
<1>7. QED
  BY <1>1, <1>6

LEMMA ScoreIsNat ==
    ASSUME NEW features \in [FeatureNames -> Nat]
    PROVE  ScalarScore(features, DefaultWeights) \in Nat
<1> DEFINE total == TotalWeight(DefaultWeights)
           sum == Weighted(DefaultWeights, Normalized(features))
<1>1. total \in Nat /\ sum \in Nat
  BY DefaultsAreNumbers, NormalizedIsNat, TotalWeightIsNat, WeightedIsNat
<1>2. ScalarScore(features, DefaultWeights) =
         IF total = 0 THEN 0 ELSE RoundHalfEven(100 * sum, Unit * total)
  BY DEF ScalarScore
<1> HIDE DEF total, sum
<1>3. 100 * sum \in Nat
  BY <1>1
<1>4. total # 0 => Unit * total \in Nat \ {0}
  BY <1>1 DEF Unit
<1>5. ASSUME NEW a \in Nat, NEW b \in Nat \ {0} PROVE RoundHalfEven(a, b) \in Nat
  <2>1. a \div b \in Nat
    OBVIOUS
  <2>2. QED
    BY <2>1 DEF RoundHalfEven
<1>6. QED
  BY <1>2, <1>3, <1>4, <1>5

LEMMA TotalIsNat ==
    ASSUME NEW samples, IsFiniteSet(DOMAIN samples),
           \A i \in DOMAIN samples : samples[i].score \in Nat, NEW label
    PROVE  TotalOf(samples, label) \in Nat
<1> DEFINE S == SamplesOf(samples, label)
           g == [i \in S |-> samples[i].score]
           Fold(it) ==
               it = [s \in SUBSET S |->
                       IF s = {} THEN 0
                       ELSE samples[Pick(s)].score + it[s \ {Pick(s)}]]
           it == CHOOSE f : Fold(f)
<1>1. TotalOf(samples, label) = it[S]
  BY DEF TotalOf, MapThenSumSet, MapThenFoldSet, Pick
<1>2. IsFiniteSet(S) /\ S \subseteq DOMAIN samples
  BY FS_Subset DEF SamplesOf
<1>3. ASSUME NEW f PROVE Fold(f) <=> Sums(f, g, S)
  <2>1. \A s \in SUBSET S : s # {} => g[Pick(s)] = samples[Pick(s)].score
    BY DEF Pick
  <2> HIDE DEF g, S
  <2>2. QED
    BY <2>1 DEF Sums
<1>4. \A i \in S : g[i] \in Nat
  BY <1>2
<1> HIDE DEF S, g, Fold
<1>5. \E f : Fold(f)
  BY <1>2, <1>3, SumsExist
<1>6. Fold(it)
  BY <1>5
<1> HIDE DEF it
<1>7. it[S] \in Nat
  BY <1>2, <1>3, <1>4, <1>6, SumIsNat
<1>8. QED
  BY <1>1, <1>7

-----------------------------------------------------------------------------
(***************************************************************************)
(* The log holds labelled prompts, whoever writes to it.                    *)
(***************************************************************************)

Asking(a) == agent[a].at \in {"ask", "newline"}

LogInv ==
    /\ journal \in [lines : Seq(Seq(LabelRow)), open : BOOLEAN]
    /\ DOMAIN agent = Agents
    /\ \A a \in Agents :
          /\ "at" \in DOMAIN agent[a]
          /\ Asking(a) =>
                /\ agent[a].job \in Jobs
                /\ agent[a].job.kind \in {"feedback", "onboard", "judge"}
                /\ agent[a].left \in Seq(Prompts)
                /\ {"job", "left"} \subseteq DOMAIN agent[a]

LEMMA LabelsAreKnown ==
    ASSUME NEW job \in Jobs, job.kind \in {"feedback", "onboard", "judge"},
           NEW prompt, NEW label \in LabelsOf(job, prompt)
    PROVE  label \in Labels
<1>1. CASE job.kind = "feedback"
  BY <1>1, LogAssumption DEF LabelsOf
<1>2. CASE job.kind = "onboard"
  BY <1>2, LogAssumption DEF LabelsOf
<1>3. CASE job.kind = "judge"
  <2>1. label \in ToSet(JudgedLabel(job, prompt))
    BY <1>3 DEF LabelsOf
  <2>2. label \in {job.cheap, job.expensive}
    BY <2>1 DEF JudgedLabel, LabelFor, ToSet, None, Some
  <2>3. QED
    BY <1>3, <2>2, LogAssumption
<1>4. QED
  BY <1>1, <1>2, <1>3

(* A step of one agent that leaves the log alone.                           *)
LEMMA AgentKeepsLog ==
    ASSUME LogInv, NEW a \in Agents, NEW doing, "at" \in DOMAIN doing,
           agent' = [agent EXCEPT ![a] = doing], UNCHANGED journal,
           doing.at \in {"ask", "newline"} =>
                /\ doing.job \in Jobs
                /\ doing.job.kind \in {"feedback", "onboard", "judge"}
                /\ doing.left \in Seq(Prompts)
                /\ {"job", "left"} \subseteq DOMAIN doing
    PROVE  LogInv'
BY DEF LogInv, Asking

LEMMA StartsKeepLog ==
    ASSUME LogInv, NEW a \in Agents, Take(a)
    PROVE  LogInv'
<1>1. ASSUME NEW job, NEW text, Write(a, job, text), UNCHANGED journal
      PROVE  LogInv'
  <2> DEFINE doing == [at |-> "write", job |-> job, text |-> text]
  <2>1. "at" \in DOMAIN doing /\ doing.at = "write" /\ agent' = [agent EXCEPT ![a] = doing]
    BY <1>1 DEF Write, Begin
  <2> HIDE DEF doing
  <2>2. QED
    BY <1>1, <2>1, AgentKeepsLog
<1>2. ASSUME NEW job, NEW at, at \notin {"ask", "newline"},
             Begin(a, [at |-> at, job |-> job]), UNCHANGED journal
      PROVE  LogInv'
  <2> DEFINE doing == [at |-> at, job |-> job]
  <2>1. "at" \in DOMAIN doing /\ doing.at = at /\ agent' = [agent EXCEPT ![a] = doing]
    BY <1>2 DEF Begin
  <2> HIDE DEF doing
  <2>2. QED
    BY <1>2, <2>1, AgentKeepsLog
<1>3. ASSUME NEW job \in Jobs, job.kind \in {"feedback", "onboard", "judge"},
             Begin(a, [at |-> "ask", job |-> job, left |-> job.prompts]),
             UNCHANGED journal
      PROVE  LogInv'
  <2> DEFINE doing == [at |-> "ask", job |-> job, left |-> job.prompts]
  <2>1. /\ {"at", "job", "left"} \subseteq DOMAIN doing
        /\ doing.job = job /\ doing.left = job.prompts
        /\ agent' = [agent EXCEPT ![a] = doing]
    BY <1>3 DEF Begin
  <2>2. job.prompts \in Seq(Prompts)
    BY <1>3, LogAssumption
  <2> HIDE DEF doing
  <2>3. QED
    BY <1>3, <2>1, <2>2, AgentKeepsLog
<1>4. ASSUME NEW job \in Jobs, Edit(a, job) PROVE LogInv'
  BY <1>1, <1>4 DEF Edit
<1>5. ASSUME NEW job \in Jobs, Scaffold(a, job) PROVE LogInv'
  BY <1>1, <1>5 DEF Scaffold
<1>6. ASSUME NEW job \in Jobs, Save(a, job) PROVE LogInv'
  BY <1>1, <1>6 DEF Save
<1>7. ASSUME NEW job \in Jobs, CalibrateInto(a, job) PROVE LogInv'
  BY <1>1, <1>7 DEF CalibrateInto
<1>8. ASSUME NEW job \in Jobs, CountLabels(a, job) PROVE LogInv'
  BY <1>2, <1>8 DEF CountLabels
<1>9. ASSUME NEW job \in Jobs, job.kind = "feedback", BeginFeedback(a, job)
      PROVE  LogInv'
  BY <1>3, <1>9 DEF BeginFeedback
<1>10. ASSUME NEW job \in Jobs, job.kind \in {"onboard", "judge"}, BeginLabelling(a, job)
       PROVE  LogInv'
  BY <1>3, <1>10 DEF BeginLabelling
<1>11. ASSUME NEW job \in Jobs, Install(a, job) PROVE LogInv'
  BY <1>2, <1>11 DEF Install
<1>12. ASSUME NEW job \in Jobs, Uninstall(a, job) PROVE LogInv'
  BY <1>2, <1>12 DEF Uninstall
<1>13. QED
  BY <1>4, <1>5, <1>6, <1>7, <1>8, <1>9, <1>10, <1>11, <1>12 DEF Take, JobsOf

LEMMA WriteRowKeepsLog ==
    ASSUME LogInv, NEW a \in Agents, WriteRow(a)
    PROVE  LogInv'
<1>1. /\ agent[a].at = "ask" /\ agent[a].left # << >>
      /\ agent[a].job \in Jobs /\ agent[a].left \in Seq(Prompts)
      /\ agent[a].job.kind \in {"feedback", "onboard", "judge"}
      /\ {"at", "job", "left"} \subseteq DOMAIN agent[a]
  BY DEF WriteRow, LogInv, Asking
<1>2. PICK label \in LabelsOf(agent[a].job, Head(agent[a].left)) :
         LET row == [text |-> Head(agent[a].left), label |-> label]
             n == Len(journal.lines)
         IN  journal' = [lines |-> IF journal.open
                                   THEN [journal.lines EXCEPT ![n] = Append(@, row)]
                                   ELSE Append(journal.lines, <<row>>),
                         open |-> TRUE]
  BY DEF WriteRow
<1> DEFINE row == [text |-> Head(agent[a].left), label |-> label]
<1>3. row \in LabelRow
  <2>1. label \in Labels
    BY <1>1, <1>2, LabelsAreKnown
  <2>2. Head(agent[a].left) \in Prompts
    BY <1>1
  <2>3. QED
    BY <2>1, <2>2 DEF LabelRow
<1>4. journal' \in [lines : Seq(Seq(LabelRow)), open : BOOLEAN]
  <2> DEFINE lines == journal.lines
  <2>1. lines \in Seq(Seq(LabelRow))
    BY DEF LogInv
  <2>2. journal' = [lines |-> IF journal.open
                              THEN [lines EXCEPT ![Len(lines)] = Append(@, row)]
                              ELSE Append(lines, <<row>>),
                    open |-> TRUE]
    BY <1>2
  <2> HIDE DEF row, lines
  <2>3. Append(lines, <<row>>) \in Seq(Seq(LabelRow))
    BY <1>3, <2>1
  <2>4. [lines EXCEPT ![Len(lines)] = Append(@, row)] \in Seq(Seq(LabelRow))
    <3>1. \A i \in DOMAIN lines : Append(lines[i], row) \in Seq(LabelRow)
      BY <1>3, <2>1
    <3>2. \A i \in DOMAIN lines : lines[i] \in Seq(LabelRow)
      BY <2>1
    <3>3. DOMAIN lines = 1..Len(lines) /\ Len(lines) \in Nat
      BY <2>1
    <3> DEFINE new == [lines EXCEPT ![Len(lines)] = Append(@, row)]
    <3>4. DOMAIN new = 1..Len(lines) /\ \A i \in DOMAIN new : new[i] \in Seq(LabelRow)
      BY <3>1, <3>2, <3>3
    <3>5. new = [i \in 1..Len(lines) |-> new[i]]
      BY <3>3
    <3> HIDE DEF new
    <3>6. new \in Seq(Seq(LabelRow))
      BY <3>3, <3>4, <3>5
    <3>7. QED
      BY <3>6 DEF new
  <2>5. QED
    BY <2>2, <2>3, <2>4
<1>5. agent' = [agent EXCEPT ![a] =
                   [agent[a] EXCEPT !.at = "newline", !.left = Tail(@)]]
  BY DEF WriteRow, LogInv
<1>6. Tail(agent[a].left) \in Seq(Prompts)
  BY <1>1
<1>7. QED
  BY <1>1, <1>4, <1>5, <1>6 DEF LogInv, Asking

LEMMA EndLineKeepsLog ==
    ASSUME LogInv, NEW a \in Agents, EndLine(a)
    PROVE  LogInv'
<1>1. journal' \in [lines : Seq(Seq(LabelRow)), open : BOOLEAN]
  BY DEF EndLine, LogInv
<1>2. agent[a].at = "newline" /\ agent' = [agent EXCEPT ![a] =
                                             [agent[a] EXCEPT !.at = "ask"]]
  BY DEF EndLine, LogInv
<1>3. QED
  BY <1>1, <1>2 DEF LogInv, Asking

LEMMA AbstainKeepsLog ==
    ASSUME LogInv, NEW a \in Agents, Abstain(a)
    PROVE  LogInv'
<1>1. /\ agent[a].left \in Seq(Prompts) /\ agent[a].left # << >>
      /\ UNCHANGED journal
      /\ agent' = [agent EXCEPT ![a] = [agent[a] EXCEPT !.left = Tail(@)]]
  BY DEF Abstain, LogInv, Asking
<1>2. Tail(agent[a].left) \in Seq(Prompts)
  BY <1>1
<1>3. QED
  BY <1>1, <1>2 DEF LogInv, Asking

LEMMA OthersKeepLog ==
    ASSUME LogInv, NEW a \in Agents,
           Refit(a) \/ Truncate(a) \/ Fill(a) \/ EndLabelling(a)
             \/ Enable(a) \/ RemoveUnit(a) \/ Kill(a)
    PROVE  LogInv'
<1>1. ASSUME NEW doing, "at" \in DOMAIN doing, doing.at \in {"idle", "write", "fill"},
             agent' = [agent EXCEPT ![a] = doing], UNCHANGED journal
      PROVE  LogInv'
  BY <1>1, AgentKeepsLog
<1>2. "at" \in DOMAIN Idle /\ Idle.at = "idle"
  BY DEF Idle
<1>3. CASE agent' = [agent EXCEPT ![a] = Idle] /\ UNCHANGED journal
  BY <1>1, <1>2, <1>3
<1>4. CASE Refit(a)
  <2>1. ASSUME NEW fit,
               agent' = [agent EXCEPT ![a] =
                           [at |-> "write", job |-> fit.job, samples |-> fit.samples,
                            text |-> WithGatewayBlock(fit.text)]],
               UNCHANGED journal
        PROVE  LogInv'
    <3> DEFINE doing == [at |-> "write", job |-> fit.job, samples |-> fit.samples,
                         text |-> WithGatewayBlock(fit.text)]
    <3>1. "at" \in DOMAIN doing /\ doing.at = "write" /\ agent' = [agent EXCEPT ![a] = doing]
      BY <2>1
    <3> HIDE DEF doing
    <3>2. QED
      BY <1>1, <2>1, <3>1
  <2>2. QED
    BY <1>3, <1>4, <2>1 DEF Refit
<1>5. CASE Truncate(a)
  <2> DEFINE doing == [agent[a] EXCEPT !.at = "fill"]
  <2>1. /\ "at" \in DOMAIN doing /\ doing.at = "fill" /\ UNCHANGED journal
        /\ agent' = [agent EXCEPT ![a] = doing]
    BY <1>5 DEF Truncate, LogInv
  <2> HIDE DEF doing
  <2>2. QED
    BY <1>1, <2>1
<1>6. QED
  BY <1>3, <1>4, <1>5 DEF Fill, EndLabelling, Enable, RemoveUnit, Kill

LEMMA LogInvariant == Spec => []LogInv
<1>1. Init => LogInv
  <2> SUFFICES ASSUME Init PROVE LogInv
    OBVIOUS
  <2>1. PICK rows \in FirstLogs : journal = Lines(rows)
    BY DEF Init
  <2>2. rows \in Seq(LabelRow)
    BY LogAssumption
  <2>3. journal \in [lines : Seq(Seq(LabelRow)), open : BOOLEAN]
    <3>1. [i \in DOMAIN rows |-> <<rows[i]>>] \in Seq(Seq(LabelRow))
      <4>1. \A i \in DOMAIN rows : <<rows[i]>> \in Seq(LabelRow)
        BY <2>2
      <4>2. DOMAIN rows = 1..Len(rows) /\ Len(rows) \in Nat
        BY <2>2
      <4>3. QED
        BY <4>1, <4>2
    <3>2. QED
      BY <2>1, <3>1 DEF Lines
  <2>4. QED
    BY <2>3 DEF Init, LogInv, Asking, Idle
<1>2. LogInv /\ [Next]_vars => LogInv'
  <2> SUFFICES ASSUME LogInv, [Next]_vars PROVE LogInv'
    OBVIOUS
  <2>1. ASSUME NEW a \in Agents, Take(a) \/ Continue(a) \/ Kill(a)
        PROVE  LogInv'
    BY <2>1, StartsKeepLog, WriteRowKeepsLog, EndLineKeepsLog, AbstainKeepsLog,
       OthersKeepLog DEF Continue
  <2>2. CASE Serve \/ Crash \/ Restart \/ UNCHANGED vars
    <3>1. UNCHANGED <<agent, journal>>
      BY <2>2 DEF Serve, Crash, Restart, vars
    <3>2. QED
      BY <3>1 DEF LogInv, Asking
  <2>3. QED
    BY <2>1, <2>2 DEF Next
<1>3. QED
  BY <1>1, <1>2, PTL DEF Spec

(* The samples that calibration fits to.                                    *)
Samples == Seq([features : [FeatureNames -> Nat], label : Labels, score : Nat])

LEMMA DatasetIsSamples ==
    ASSUME LogInv, NEW samples \in ToSet(Dataset)
    PROVE  /\ samples \in Samples /\ samples # << >>
           /\ \A i \in DOMAIN samples : samples[i].label # ""
<1> USE DEF ToSet, None, Some
<1>1. Readable /\ samples \in ToSet(ParseDataset(Rows, Features, Scores))
  BY DEF Dataset
<1>2. Rows \in Seq(LabelRow)
  <2>1. /\ journal.lines \in Seq(Seq(LabelRow))
        /\ \A i \in DOMAIN journal.lines : Len(journal.lines[i]) = 1
    BY <1>1 DEF LogInv, Readable
  <2>2. \A i \in DOMAIN journal.lines : journal.lines[i][1] \in LabelRow
    BY <2>1
  <2>3. DOMAIN journal.lines = 1..Len(journal.lines) /\ Len(journal.lines) \in Nat
    BY <2>1
  <2>4. QED
    BY <2>2, <2>3 DEF Rows
<1> DEFINE named == \A i \in DOMAIN Rows : Rows[i].label # ""
           parsed == [i \in DOMAIN Rows |->
                        Sample(Features[Rows[i].text], Rows[i].label, Scores[Rows[i].text])]
<1>3. Rows # << >> /\ named /\ samples = parsed
  <2>1. \/ ParseDataset(Rows, Features, Scores) = << >>
        \/ Rows # << >> /\ named /\ ParseDataset(Rows, Features, Scores) = <<parsed>>
    BY DEF ParseDataset
  <2> HIDE DEF parsed, named
  <2>2. QED
    BY <1>1, <2>1
<1> HIDE DEF named
<1>4. \A i \in DOMAIN Rows : Rows[i].text \in Prompts /\ Rows[i].label \in Labels
  <2>1. \A i \in DOMAIN Rows : Rows[i] \in LabelRow
    BY <1>2
  <2>2. \A row \in LabelRow : row.text \in Prompts /\ row.label \in Labels
    BY DEF LabelRow
  <2>3. QED
    BY <2>1, <2>2
<1>5. \A prompt \in Prompts :
         Features[prompt] \in [FeatureNames -> Nat] /\ Scores[prompt] \in Nat
  BY LogAssumption, ScoreIsNat DEF Scores, Prompts
<1>6. \A i \in DOMAIN Rows :
         samples[i] \in [features : [FeatureNames -> Nat], label : Labels, score : Nat]
  BY <1>3, <1>4, <1>5 DEF Sample
<1>7. DOMAIN Rows = 1..Len(Rows) /\ Len(Rows) \in Nat /\ Len(Rows) # 0
  BY <1>2, <1>3
<1>8. DOMAIN samples = 1..Len(Rows) /\ samples = [i \in 1..Len(Rows) |-> samples[i]]
  BY <1>3, <1>7
<1>9. \A i \in DOMAIN samples : samples[i].label # ""
  BY <1>3 DEF Sample, named
<1> HIDE DEF parsed
<1> DEFINE S == [features : [FeatureNames -> Nat], label : Labels, score : Nat]
<1> HIDE DEF S
<1>10. samples \in Seq(S)
  BY <1>6, <1>7, <1>8 DEF S
<1>11. samples # << >>
  <2>1. 1 \in DOMAIN samples
    BY <1>7, <1>8
  <2>2. QED
    BY <2>1
<1>12. QED
  BY <1>9, <1>10, <1>11 DEF Samples, S

-----------------------------------------------------------------------------
(***************************************************************************)
(* The two arms, and the cut between them.                                  *)
(***************************************************************************)

LEMMA SamplesAre ==
    ASSUME NEW samples \in Samples
    PROVE  /\ DOMAIN samples = 1..Len(samples) /\ Len(samples) \in Nat
           /\ IsFiniteSet(DOMAIN samples)
           /\ \A i \in DOMAIN samples :
                 samples[i].score \in Nat /\ samples[i].label \in Labels
<1>1. DOMAIN samples = 1..Len(samples) /\ Len(samples) \in Nat
  BY DEF Samples
<1>2. \A i \in DOMAIN samples :
         samples[i] \in [features : [FeatureNames -> Nat], label : Labels, score : Nat]
  BY <1>1, ElementOfSeq DEF Samples
<1>3. IsFiniteSet(1..Len(samples))
  BY <1>1, FS_Interval
<1>4. QED
  BY <1>1, <1>2, <1>3

LEMMA PresentIsFinite ==
    ASSUME NEW samples \in Samples
    PROVE  IsFiniteSet(LabelsPresent(samples))
<1> DEFINE f == [i \in DOMAIN samples |-> samples[i].label]
<1>1. IsFiniteSet(DOMAIN f) /\ LabelsPresent(samples) = {f[i] : i \in DOMAIN f}
  BY SamplesAre DEF LabelsPresent
<1> HIDE DEF f
<1>2. QED
  BY <1>1, ImageIsFinite

LEMMA MeansAreLabels ==
    ASSUME NEW samples \in Samples
    PROVE  IsList(LabelsByMeanScore(samples))
<1> DEFINE order == LabelsByMeanScore(samples)
           n == Cardinality(LabelsPresent(samples))
<1>1. n \in Nat
  BY PresentIsFinite, FS_CardinalityType
<1>2. DOMAIN order = 1..n /\ order = [k \in 1..n |-> order[k]]
  <2> DEFINE present == LabelsPresent(samples)
             Below(x) == {other \in present : MeanBefore(samples, other, x)}
             Nth(k) == CHOOSE x \in present : Cardinality(Below(x)) = k - 1
  <2>1. order = [k \in 1..n |-> Nth(k)]
    BY DEF LabelsByMeanScore
  <2> HIDE DEF Nth, order, n
  <2>2. QED
    BY <2>1
<1> HIDE DEF order, n
<1>3. \A k \in 1..n : order[k] \in ToSet(order)
  BY <1>2 DEF ToSet
<1>4. QED
  BY <1>1, <1>2, <1>3 DEF IsList, order

(* Of two labels with a place in the order of names, one has the lower mean *)
(* or the earlier name.                                                     *)
LEMMA OneComesFirst ==
    ASSUME NEW samples \in Samples, NEW a \in LabelsPresent(samples),
           NEW b \in LabelsPresent(samples), a \in ToSet(NameOrder),
           b \in ToSet(NameOrder)
    PROVE  /\ a # b => (MeanBefore(samples, a, b) <=> ~MeanBefore(samples, b, a))
           /\ ~MeanBefore(samples, a, a)
<1> DEFINE Position(name) == CHOOSE i \in DOMAIN NameOrder : NameOrder[i] = name
           L == TotalOf(samples, a) * Cardinality(SamplesOf(samples, b))
           R == TotalOf(samples, b) * Cardinality(SamplesOf(samples, a))
           own == TotalOf(samples, a) * Cardinality(SamplesOf(samples, a))
<1>1. DOMAIN NameOrder \subseteq Int
  <2>1. NameOrder \in Seq(ToSet(NameOrder))
    BY LogAssumption, Zenon DEF IsList
  <2>2. DOMAIN NameOrder = 1..Len(NameOrder)
    BY ONLY <2>1
  <2>3. QED
    BY ONLY <2>2
<1>2. \A c \in {a, b} : Position(c) \in DOMAIN NameOrder /\ NameOrder[Position(c)] = c
  BY DEF ToSet
<1>3. /\ Position(a) \in Int /\ Position(b) \in Int
      /\ a # b => Position(a) # Position(b)
  BY <1>1, <1>2
<1>4. \A m, n \in Nat : m * n \in Nat
  OBVIOUS
<1>5. \A c \in {a, b} : /\ TotalOf(samples, c) \in Nat
                        /\ Cardinality(SamplesOf(samples, c)) \in Nat
  <2>1. \A c \in {a, b} : TotalOf(samples, c) \in Nat
    BY SamplesAre, TotalIsNat
  <2>2. \A c \in {a, b} : SamplesOf(samples, c) \in SUBSET DOMAIN samples
    BY DEF SamplesOf
  <2>3. \A c \in {a, b} : Cardinality(SamplesOf(samples, c)) \in Nat
    BY <2>2, SamplesAre, FS_Subset, FS_CardinalityType
  <2>4. QED
    BY <2>1, <2>3
<1>6. L \in Nat /\ R \in Nat /\ own \in Nat
  BY <1>4, <1>5
<1>7. /\ MeanBefore(samples, a, b) <=>
            L < R \/ (L = R /\ Position(a) < Position(b))
      /\ MeanBefore(samples, b, a) <=>
            R < L \/ (R = L /\ Position(b) < Position(a))
      /\ MeanBefore(samples, a, a) <=>
            own < own \/ (own = own /\ Position(a) < Position(a))
  BY DEF MeanBefore, Before
<1> HIDE DEF Position, L, R, own
<1>8. QED
  BY <1>3, <1>6, <1>7

(* When there are two labels, they are the two arms.                        *)
LEMMA TwoArms ==
    ASSUME NEW samples \in Samples, LabelsPresent(samples) \subseteq ToSet(NameOrder),
           Len(LabelsByMeanScore(samples)) = 2
    PROVE  LET labels == LabelsByMeanScore(samples)
           IN  labels[1] # labels[2] /\ LabelsPresent(samples) = {labels[1], labels[2]}
<1> DEFINE present == LabelsPresent(samples)
           labels == LabelsByMeanScore(samples)
           Below(x) == {other \in present : MeanBefore(samples, other, x)}
           Nth(k) == CHOOSE x \in present : Cardinality(Below(x)) = k - 1
<1>1. IsFiniteSet(present) /\ Cardinality(present) \in Nat
  BY PresentIsFinite, FS_CardinalityType
<1>2. labels = [k \in 1..Cardinality(present) |-> Nth(k)]
  BY DEF LabelsByMeanScore
<1>3. Cardinality(present) = 2
  <2>1. Len(labels) = 2
    OBVIOUS
  <2> HIDE DEF present, labels, Nth
  <2>2. QED
    BY <1>1, <1>2, <2>1
<1> HIDE DEF present, labels, Nth
<1>4. labels[1] = Nth(1) /\ labels[2] = Nth(2)
  BY <1>2, <1>3
<1>5. PICK a, b : a # b /\ present = {a, b}
  <2>1. present # {}
    BY <1>1, <1>3, FS_EmptySet
  <2>2. PICK a : a \in present
    BY <2>1
  <2>3. IsFiniteSet(present \ {a}) /\ Cardinality(present \ {a}) = 1
    BY <1>1, <1>3, <2>2, FS_RemoveElement
  <2>4. PICK b : present \ {a} = {b}
    BY <2>3, FS_Singleton
  <2>5. QED
    BY <2>2, <2>4
<1>6. /\ MeanBefore(samples, a, b) <=> ~MeanBefore(samples, b, a)
      /\ ~MeanBefore(samples, a, a) /\ ~MeanBefore(samples, b, b)
  BY <1>5, OneComesFirst DEF present
<1>7. PICK low \in present, high \in present :
         /\ present = {low, high} /\ low # high
         /\ Below(low) = {} /\ Below(high) = {low}
  <2>1. CASE MeanBefore(samples, a, b)
    <3>1. Below(a) = {} /\ Below(b) = {a}
      BY <1>5, <1>6, <2>1
    <3>2. QED
      BY <1>5, <3>1
  <2>2. CASE MeanBefore(samples, b, a)
    <3>1. Below(b) = {} /\ Below(a) = {b}
      BY <1>5, <1>6, <2>2
    <3>2. QED
      BY <1>5, <3>1
  <2>3. QED
    BY <1>6, <2>1, <2>2
<1>8. Cardinality(Below(low)) = 0 /\ Cardinality(Below(high)) = 1
  BY <1>7, FS_EmptySet, FS_Singleton
<1> HIDE DEF Below
<1>9. labels[1] = low
  <2>1. \E x \in present : Cardinality(Below(x)) = 1 - 1
    BY <1>7, <1>8
  <2>2. Nth(1) \in present /\ Cardinality(Below(Nth(1))) = 1 - 1
    BY <2>1, Zenon DEF Nth
  <2>3. QED
    BY <1>4, <1>7, <1>8, <2>2
<1>10. labels[2] = high
  <2>1. \E x \in present : Cardinality(Below(x)) = 2 - 1
    BY <1>7, <1>8
  <2>2. Nth(2) \in present /\ Cardinality(Below(Nth(2))) = 2 - 1
    BY <2>1, Zenon DEF Nth
  <2>3. QED
    BY <1>4, <1>7, <1>8, <2>2
<1>11. QED
  BY <1>7, <1>9, <1>10 DEF present, labels

-----------------------------------------------------------------------------
LEMMA MiddleIsOne ==
    ASSUME NEW cuts \in SUBSET Nat, cuts # {}, IsFiniteSet(cuts)
    PROVE  UpperMiddle(cuts) \in cuts
<1> DEFINE Upto(c) == {d \in cuts : d <= c}
           S == {c \in cuts : 2 * Cardinality(Upto(c)) > Cardinality(cuts)}
<1>1. PICK m \in cuts : \A d \in cuts : d <= m
  BY GreatestExists
<1>2. Upto(m) = cuts
  BY <1>1
<1>3. Cardinality(cuts) \in Nat /\ Cardinality(cuts) # 0
  BY FS_CardinalityType, FS_EmptySet
<1>4. m \in S
  BY <1>2, <1>3
<1>5. S \in SUBSET Nat /\ S # {}
  BY <1>4
<1>6. UpperMiddle(cuts) = Min(S)
  BY DEF UpperMiddle
<1>7. S \subseteq cuts
  OBVIOUS
<1> HIDE DEF S
<1>8. QED
  BY <1>5, <1>6, <1>7, MinIs

(* Scored prompts, and the cut that is right the most often.                *)
Scored == Seq([score : Nat, high : BOOLEAN])

LEMMA SweepFindsBest ==
    ASSUME NEW scored \in Scored
    PROVE  /\ SweepCut(scored) \in Nat
           /\ \A c \in Candidates(scored) :
                 CorrectAt(scored, c) <= CorrectAt(scored, SweepCut(scored))
<1> DEFINE C == Candidates(scored)
           worth == [c \in C |-> CorrectAt(scored, c)]
           best == {c \in DOMAIN worth : \A d \in DOMAIN worth : worth[d] <= worth[c]}
<1>1. /\ DOMAIN scored = 1..Len(scored) /\ Len(scored) \in Nat
      /\ \A i \in DOMAIN scored : scored[i].score \in Nat
  <2>1. DOMAIN scored = 1..Len(scored) /\ Len(scored) \in Nat
    BY DEF Scored
  <2>2. \A i \in DOMAIN scored : scored[i] \in [score : Nat, high : BOOLEAN]
    BY <2>1, ElementOfSeq DEF Scored
  <2>3. QED
    BY <2>1, <2>2
<1>2. IsFiniteSet(DOMAIN scored)
  <2>1. IsFiniteSet(1..Len(scored))
    BY <1>1, FS_Interval
  <2>2. QED
    BY <1>1, <2>1
<1>3. C \in SUBSET Nat /\ C # {} /\ IsFiniteSet(C)
  <2> DEFINE f == [i \in DOMAIN scored |-> scored[i].score]
             image == {f[i] : i \in DOMAIN f}
  <2>1. C = image \cup {0}
    BY DEF Candidates
  <2>2. IsFiniteSet(image)
    <3> HIDE DEF f
    <3>1. IsFiniteSet(DOMAIN f)
      BY <1>2 DEF f
    <3>2. QED
      BY <3>1, ImageIsFinite
  <2>3. image \in SUBSET Nat
    BY <1>1
  <2> HIDE DEF image, C
  <2>4. QED
    BY <2>1, <2>2, <2>3, FS_AddElement
<1>4. \A c \in C : worth[c] \in 0..Cardinality(DOMAIN scored)
  <2>1. ASSUME NEW c \in C PROVE CorrectAt(scored, c) \in 0..Cardinality(DOMAIN scored)
    <3> DEFINE right == {i \in DOMAIN scored : (scored[i].score >= c) = scored[i].high}
    <3>1. right \in SUBSET DOMAIN scored
      OBVIOUS
    <3> HIDE DEF right
    <3>2. Cardinality(right) \in Nat /\ Cardinality(right) <= Cardinality(DOMAIN scored)
      BY <1>2, <3>1, FS_Subset, FS_CardinalityType
    <3>3. Cardinality(DOMAIN scored) \in Nat
      BY <1>2, FS_CardinalityType
    <3>4. QED
      BY <3>2, <3>3 DEF CorrectAt, right
  <2> HIDE DEF C
  <2>2. QED
    BY <2>1
<1>5. DOMAIN worth = C /\ SweepCut(scored) = UpperMiddle(best)
  BY DEF SweepCut, MiddleOfBest
<1> HIDE DEF C, worth
<1>6. Cardinality(DOMAIN scored) \in Nat
  BY <1>2, FS_CardinalityType
<1>7. \E c \in C : \A d \in C : worth[d] <= worth[c]
  BY <1>3, <1>4, <1>6, BestExists
<1>8. best \in SUBSET C /\ best # {}
  BY <1>5, <1>7
<1>9. UpperMiddle(best) \in best
  <2> HIDE DEF best
  <2>1. best \in SUBSET Nat /\ IsFiniteSet(best)
    BY <1>3, <1>8, FS_Subset
  <2>2. QED
    BY <1>8, <2>1, MiddleIsOne
<1>10. SweepCut(scored) \in C /\ \A d \in C : worth[d] <= worth[SweepCut(scored)]
  BY <1>5, <1>9
<1>11. QED
  BY <1>3, <1>10 DEF worth, C

-----------------------------------------------------------------------------
(* A ladder of two tiers sends a prompt to the upper one when its score     *)
(* reaches the cut.                                                         *)
LEMMA TwoTiers ==
    ASSUME NEW ladder, DOMAIN ladder = {1, 2}, ladder # << >>,
           ladder[1].min_score = 0, ladder[2].min_score \in Nat, NEW score \in Nat
    PROVE  RecommendTier(score, ladder) =
              IF score >= ladder[2].min_score THEN ladder[2].model ELSE ladder[1].model
<1> DEFINE Reaches(n) == \A i \in 1..n : ladder[i].min_score <= score
           reached == {1} \cup {n \in DOMAIN ladder : Reaches(n)}
<1>1. Reaches(1)
  BY DEF Reaches
<1>2. Reaches(2) <=> score >= ladder[2].min_score
  BY DEF Reaches
<1> HIDE DEF Reaches
<1>3. reached = IF score >= ladder[2].min_score THEN {1, 2} ELSE {1}
  BY <1>1, <1>2
<1>4. Max({1}) = 1 /\ Max({1, 2}) = 2
  <2>1. \A S : S \in SUBSET Nat /\ S # {} /\ IsFiniteSet(S)
                  => Max(S) \in S /\ \A n \in S : n <= Max(S)
    BY MaxIs
  <2>2. IsFiniteSet({1}) /\ IsFiniteSet({1, 2})
    <3>1. IsFiniteSet({1})
      BY FS_Singleton
    <3>2. IsFiniteSet({1} \cup {2})
      BY <3>1, FS_AddElement
    <3>3. {1, 2} = {1} \cup {2}
      OBVIOUS
    <3>4. QED
      BY <3>1, <3>2, <3>3, Zenon
  <2>3. Max({1}) \in {1}
    BY <2>1, <2>2
  <2>4. Max({1, 2}) \in {1, 2} /\ 2 <= Max({1, 2})
    BY <2>1, <2>2
  <2>5. QED
    BY <2>3, <2>4
<1>5. RecommendTier(score, ladder) = ladder[Max(reached)].model
  BY DEF RecommendTier, Reaches
<1>6. QED
  BY <1>3, <1>4, <1>5

Cuts(low, n, upper) == <<Tier(0, low, None), Tier(n, upper, None)>>

LEMMA ThresholdText ==
    ASSUME NEW samples, NEW text \in ToSet(Calibrate(samples, "threshold", DefaultOptions))
    PROVE  LET labels == LabelsByMeanScore(samples)
           IN  /\ Len(labels) = 2
               /\ text = TiersText(Cuts(labels[1],
                                        SweepCut(ScoredAgainst(samples, labels[2])),
                                        labels[2]),
                                   DefaultOptions)
<1> DEFINE labels == LabelsByMeanScore(samples)
           tiers == <<Tier(0, labels[1], None),
                      Tier(SweepCut(ScoredAgainst(samples, labels[2])), labels[2], None)>>
           found == CalibrateThreshold(samples, DefaultOptions)
<1>1. found = IF Len(labels) # 2 THEN None ELSE Some(tiers)
  <2>1. DefaultOptions.objective = "accuracy" /\ DefaultOptions.weights = None
    BY DEF DefaultOptions
  <2>2. found = ThresholdBetween(samples, labels, DefaultOptions)
    BY <2>1 DEF CalibrateThreshold, OfRescored, Rescored
  <2>3. QED
    BY <2>1, <2>2 DEF ThresholdBetween
<1>2. Calibrate(samples, "threshold", DefaultOptions) =
         [i \in DOMAIN found |-> TiersText(found[i], DefaultOptions)]
  <2>1. DefaultOptions.objective = "accuracy"
    BY DEF DefaultOptions
  <2> HIDE DEF found
  <2>2. QED
    BY <2>1 DEF Calibrate, MapOption, found
<1> HIDE DEF labels, tiers, found
<1>3. Len(labels) = 2 /\ text = TiersText(tiers, DefaultOptions)
  BY <1>1, <1>2 DEF ToSet, None, Some
<1>4. QED
  BY <1>3 DEF labels, tiers, Cuts

(* The ladder that is written, in grains.                                   *)
Arms(low, n, upper) == <<Tier(0, low, None), Tier(InGrains(n), upper, None)>>

LEMMA CutsAreWritten ==
    ASSUME NEW low, NEW upper, Plain(low), Plain(upper), NEW n \in Nat, NEW options
    PROVE  TiersText(Cuts(low, n, upper), options).tiers = Some(Arms(low, n, upper))
<1> DEFINE tiers == Cuts(low, n, upper)
           written == [i \in DOMAIN tiers |->
                          Tier(InGrains(tiers[i].min_score), ReadRaw(tiers[i].model),
                               MapOption(Emitted, tiers[i].cost))]
<1>1. /\ DOMAIN tiers = {1, 2} /\ tiers \in Seq({tiers[1], tiers[2]}) /\ Len(tiers) = 2
      /\ tiers[1].min_score = 0 /\ tiers[1].model = low /\ tiers[1].cost = None
      /\ tiers[2].min_score = n /\ tiers[2].model = upper /\ tiers[2].cost = None
  BY DEF Cuts, Tier
<1>2. \A i \in DOMAIN tiers : Raw(tiers[i].model) # None
  <2>1. Raw(low) # None /\ Raw(upper) # None
    BY DEF Plain, Some, None
  <2> HIDE DEF tiers
  <2>2. QED
    BY <1>1, <2>1
<1>3. ReadRaw(low) = low /\ ReadRaw(upper) = upper
  BY DEF Plain, ReadRaw, Some
<1>4. MapOption(Emitted, None) = None
  BY DEF MapOption, None
<1>5. InGrains(0) = 0
  BY SMT DEF InGrains, Hundredth
<1> HIDE DEF tiers
<1>6. TiersText(tiers, options).tiers = Some(written)
  BY <1>2 DEF TiersText, Empty
<1>7. written = Arms(low, n, upper)
  <2>1. DOMAIN written = {1, 2} /\ Len(tiers) = 2 /\ DOMAIN tiers = 1..2
    BY <1>1
  <2>2. written[1] = Tier(0, low, None) /\ written[2] = Tier(InGrains(n), upper, None)
    BY <1>1, <1>3, <1>4, <1>5
  <2>3. written = <<written[1], written[2]>>
    BY <2>1
  <2>4. QED
    BY <2>2, <2>3 DEF Arms
<1>8. QED
  BY <1>6, <1>7 DEF tiers

RightUnder(samples, tiers) ==
    {i \in DOMAIN samples :
        RecommendTier(InGrains(samples[i].score), tiers) = samples[i].label}

Agreeing(samples, upper, n) ==
    {i \in DOMAIN samples : samples[i].score >= n <=> samples[i].label = upper}

ScoresOf(samples) == {samples[i].score : i \in DOMAIN samples}

LEMMA ArmsAre ==
    ASSUME NEW low, NEW n, NEW upper
    PROVE  /\ DOMAIN Arms(low, n, upper) = {1, 2} /\ Arms(low, n, upper) # << >>
           /\ Arms(low, n, upper)[1].min_score = 0
           /\ Arms(low, n, upper)[2].min_score = InGrains(n)
           /\ Arms(low, n, upper)[1].model = low
           /\ Arms(low, n, upper)[2].model = upper
BY DEF Arms, Tier

LEMMA ArmsAreCut ==
    ASSUME NEW low, NEW n, NEW m, NEW upper
    PROVE  Cut(Arms(low, n, upper), m) = Arms(low, m, upper)
BY DEF Arms, Tier, Cut

LEMMA ArmsAgree ==
    ASSUME NEW samples \in Samples, NEW low, NEW upper, low # upper,
           \A i \in DOMAIN samples : samples[i].label \in {low, upper},
           NEW n \in Nat
    PROVE  RightUnder(samples, Arms(low, n, upper)) = Agreeing(samples, upper, n)
<1> DEFINE tiers == Arms(low, n, upper)
<1>1. /\ DOMAIN tiers = {1, 2} /\ tiers # << >>
      /\ tiers[1].min_score = 0 /\ tiers[2].min_score = InGrains(n)
      /\ tiers[1].model = low /\ tiers[2].model = upper
  BY ArmsAre
<1> HIDE DEF tiers
<1>2. \A i \in DOMAIN samples : samples[i].score \in Nat
  BY SamplesAre
<1>3. \A s \in Nat : /\ InGrains(s) \in Nat
                     /\ InGrains(s) >= InGrains(n) <=> s >= n
  BY SMT DEF InGrains, Hundredth
<1>4. \A s \in Nat : RecommendTier(s, tiers) =
                        IF s >= tiers[2].min_score THEN tiers[2].model ELSE tiers[1].model
  <2>1. tiers[2].min_score \in Nat
    BY <1>1, <1>3
  <2>2. QED
    BY <1>1, <2>1, TwoTiers
<1>5. \A i \in DOMAIN samples :
         RecommendTier(InGrains(samples[i].score), tiers) = samples[i].label
            <=> (samples[i].score >= n <=> samples[i].label = upper)
  <2>1. ASSUME NEW i \in DOMAIN samples
        PROVE  RecommendTier(InGrains(samples[i].score), tiers) =
                  IF samples[i].score >= n THEN upper ELSE low
    <3>1. samples[i].score \in Nat
      BY <1>2, <2>1
    <3>2. /\ InGrains(samples[i].score) \in Nat
          /\ InGrains(samples[i].score) >= InGrains(n) <=> samples[i].score >= n
      BY <1>3, <3>1
    <3>3. RecommendTier(InGrains(samples[i].score), tiers) =
             IF InGrains(samples[i].score) >= tiers[2].min_score
             THEN tiers[2].model ELSE tiers[1].model
      BY <1>4, <3>2
    <3>4. QED
      BY <1>1, <3>2, <3>3
  <2>2. QED
    BY <2>1
<1>6. RightUnder(samples, tiers) = Agreeing(samples, upper, n)
  BY <1>5 DEF RightUnder, Agreeing
<1>7. QED
  BY <1>6 DEF tiers

LEMMA ScoredIs ==
    ASSUME NEW samples \in Samples, NEW upper
    PROVE  LET scored == ScoredAgainst(samples, upper)
           IN  /\ scored \in Scored
               /\ DOMAIN scored = DOMAIN samples
               /\ \A i \in DOMAIN samples :
                     /\ scored[i].score = samples[i].score
                     /\ scored[i].high = (samples[i].label = upper)
<1> DEFINE scored == ScoredAgainst(samples, upper)
           Is(i) == samples[i].label = upper
<1>1. scored = [i \in DOMAIN samples |-> [score |-> samples[i].score, high |-> Is(i)]]
  BY DEF ScoredAgainst
<1>2. \A i \in DOMAIN samples : Is(i) \in BOOLEAN
  OBVIOUS
<1>3. /\ DOMAIN samples = 1..Len(samples) /\ Len(samples) \in Nat
      /\ \A i \in DOMAIN samples : samples[i].score \in Nat
  BY SamplesAre
<1> HIDE DEF scored, Is
<1>4. /\ DOMAIN scored = DOMAIN samples
      /\ \A i \in DOMAIN samples :
            scored[i] = [score |-> samples[i].score, high |-> Is(i)]
  BY <1>1
<1>5. scored \in Scored
  <2>1. \A i \in DOMAIN samples : scored[i] \in [score : Nat, high : BOOLEAN]
    BY <1>2, <1>3, <1>4
  <2> DEFINE S == [score : Nat, high : BOOLEAN]
  <2>2. scored \in [1..Len(samples) -> S]
    <3> HIDE DEF S
    <3>1. \A i \in DOMAIN samples : scored[i] \in S
      BY <2>1 DEF S
    <3>2. scored = [i \in DOMAIN samples |-> scored[i]]
      BY <1>1, <1>4
    <3>3. QED
      BY <1>3, <3>1, <3>2
  <2> HIDE DEF S
  <2>3. scored \in Seq(S)
    BY <1>3, <2>2
  <2>4. QED
    BY <2>3 DEF Scored, S
<1>6. \A i \in DOMAIN samples : scored[i].score = samples[i].score /\ scored[i].high = Is(i)
  BY <1>4
<1>7. QED
  BY <1>4, <1>5, <1>6 DEF scored, Is

LEMMA CorrectIs ==
    ASSUME NEW samples \in Samples, NEW upper, NEW n
    PROVE  CorrectAt(ScoredAgainst(samples, upper), n) =
              Cardinality(Agreeing(samples, upper, n))
<1> DEFINE scored == ScoredAgainst(samples, upper)
           right == {i \in DOMAIN scored : (scored[i].score >= n) = scored[i].high}
<1>1. /\ DOMAIN scored = DOMAIN samples
      /\ \A i \in DOMAIN samples :
            /\ scored[i].score = samples[i].score
            /\ scored[i].high = (samples[i].label = upper)
  BY ScoredIs
<1> HIDE DEF scored
<1>2. \A i \in DOMAIN samples :
         (scored[i].score >= n) = scored[i].high
            <=> (samples[i].score >= n <=> samples[i].label = upper)
  <2>1. ASSUME NEW i \in DOMAIN samples
        PROVE  (scored[i].score >= n) = scored[i].high
                  <=> (samples[i].score >= n <=> samples[i].label = upper)
    <3>1. /\ scored[i].score = samples[i].score
          /\ scored[i].high = (samples[i].label = upper)
      BY <1>1
    <3>2. (scored[i].score >= n) = scored[i].high
            <=> (samples[i].score >= n) = (samples[i].label = upper)
      BY <3>1, Zenon
    <3>3. QED
      BY <3>2
  <2>2. QED
    BY <2>1
<1>3. right = Agreeing(samples, upper, n)
  BY <1>1, <1>2 DEF Agreeing
<1>4. QED
  BY <1>3 DEF CorrectAt, scored

LEMMA HighestIsScored ==
    ASSUME NEW samples \in Samples, samples # << >>
    PROVE  /\ ScoresOf(samples) \in SUBSET Nat
           /\ Max(ScoresOf(samples)) \in ScoresOf(samples)
<1> DEFINE f == [i \in DOMAIN samples |-> samples[i].score]
<1>1. ScoresOf(samples) = {f[i] : i \in DOMAIN f} /\ DOMAIN f = DOMAIN samples
  BY DEF ScoresOf
<1>2. /\ DOMAIN samples = 1..Len(samples) /\ IsFiniteSet(DOMAIN samples)
      /\ Len(samples) \in Nat
      /\ \A i \in DOMAIN samples : samples[i].score \in Nat
  BY SamplesAre
<1>3. Len(samples) # 0
  <2> DEFINE S == [features : [FeatureNames -> Nat], label : Labels, score : Nat]
  <2>1. samples \in Seq(S)
    BY DEF Samples
  <2> HIDE DEF S
  <2>2. QED
    BY <2>1, EmptySeq
<1> HIDE DEF f
<1>4. IsFiniteSet(ScoresOf(samples))
  BY <1>1, <1>2, ImageIsFinite
<1>5. ScoresOf(samples) \in SUBSET Nat
  BY <1>2 DEF ScoresOf
<1>6. ScoresOf(samples) # {}
  <2>1. 1 \in DOMAIN samples
    BY <1>2, <1>3
  <2>2. QED
    BY <2>1 DEF ScoresOf
<1>7. QED
  BY <1>4, <1>5, <1>6, MaxIs

(* Past the highest score there is no prompt, and a cut between two scores  *)
(* does what the upper one of them does.                                    *)
LEMMA CutsAreScores ==
    ASSUME NEW samples \in Samples, samples # << >>, NEW upper,
           NEW n \in 0..Max(ScoresOf(samples))
    PROVE  \E c \in ScoresOf(samples) :
              Agreeing(samples, upper, n) = Agreeing(samples, upper, c)
<1> DEFINE scores == ScoresOf(samples)
           above == {c \in scores : c >= n}
<1>1. scores \in SUBSET Nat /\ Max(scores) \in scores
  BY HighestIsScored
<1>2. \A i \in DOMAIN samples : samples[i].score \in scores
  BY DEF ScoresOf
<1> HIDE DEF scores
<1>3. n \in Nat /\ Max(scores) >= n
  BY <1>1 DEF scores
<1>4. above \in SUBSET Nat /\ above # {}
  BY <1>1, <1>3
<1>5. PICK c \in above : \A d \in above : c <= d
  <2> HIDE DEF above
  <2>1. QED
    BY <1>4, LeastExists
<1>6. c \in scores /\ c \in Nat /\ c >= n
  BY <1>1, <1>5
<1>7. \A s \in scores : s >= n <=> s >= c
  <2>1. \A s \in scores : s >= n => c <= s
    BY <1>5
  <2>2. \A s \in Nat : s >= c => s >= n
    BY <1>3, <1>6
  <2>3. \A s \in Nat : c <= s => s >= c
    BY <1>6
  <2>4. QED
    BY <1>1, <2>1, <2>2, <2>3
<1>8. \A i \in DOMAIN samples : (samples[i].score >= n <=> samples[i].label = upper)
                                <=> (samples[i].score >= c <=> samples[i].label = upper)
  BY <1>2, <1>7
<1>9. Agreeing(samples, upper, n) = Agreeing(samples, upper, c)
  BY <1>8 DEF Agreeing
<1>10. QED
  BY <1>6, <1>9 DEF scores

(* No other cut that a prompt reaches is right more often.                  *)
LEMMA SweepIsBest ==
    ASSUME NEW samples \in Samples, samples # << >>, NEW upper
    PROVE  LET cut == SweepCut(ScoredAgainst(samples, upper))
           IN  /\ cut \in Nat
               /\ \A n \in 0..Max(ScoresOf(samples)) :
                     Cardinality(Agreeing(samples, upper, n))
                        <= Cardinality(Agreeing(samples, upper, cut))
<1> DEFINE scored == ScoredAgainst(samples, upper)
           cut == SweepCut(scored)
<1>1. scored \in Scored
  BY ScoredIs
<1>2. cut \in Nat /\ \A c \in Candidates(scored) :
                        CorrectAt(scored, c) <= CorrectAt(scored, cut)
  BY <1>1, SweepFindsBest
<1>3. ScoresOf(samples) \subseteq Candidates(scored)
  <2>1. /\ DOMAIN scored = DOMAIN samples
        /\ \A i \in DOMAIN samples : scored[i].score = samples[i].score
    BY ScoredIs
  <2> HIDE DEF scored
  <2>2. QED
    BY <2>1 DEF ScoresOf, Candidates
<1>4. \A n : CorrectAt(scored, n) = Cardinality(Agreeing(samples, upper, n))
  BY CorrectIs
<1> HIDE DEF scored, cut
<1>5. ASSUME NEW n \in 0..Max(ScoresOf(samples))
      PROVE  Cardinality(Agreeing(samples, upper, n))
                <= Cardinality(Agreeing(samples, upper, cut))
  <2>1. PICK c \in ScoresOf(samples) :
           Agreeing(samples, upper, n) = Agreeing(samples, upper, c)
    BY CutsAreScores
  <2>2. CorrectAt(scored, c) <= CorrectAt(scored, cut)
    BY <1>2, <1>3
  <2>3. QED
    BY <1>4, <2>1, <2>2
<1>6. QED
  BY <1>2, <1>5 DEF cut, scored

LEMMA ArmsFit ==
    ASSUME NEW samples \in Samples, samples # << >>, NEW low, NEW upper, low # upper,
           LabelsPresent(samples) = {low, upper}, NEW cut \in Nat,
           \A n \in 0..Max(ScoresOf(samples)) :
              Cardinality(Agreeing(samples, upper, n))
                 <= Cardinality(Agreeing(samples, upper, cut)),
           NEW n \in 0..Max(ScoresOf(samples))
    PROVE  Cardinality(RightUnder(samples, Cut(Arms(low, cut, upper), n)))
              <= Cardinality(RightUnder(samples, Arms(low, cut, upper)))
<1>1. \A i \in DOMAIN samples : samples[i].label \in {low, upper}
  BY DEF LabelsPresent
<1>2. \A m \in Nat : RightUnder(samples, Arms(low, m, upper)) = Agreeing(samples, upper, m)
  <2>1. ASSUME NEW m \in Nat
        PROVE  RightUnder(samples, Arms(low, m, upper)) = Agreeing(samples, upper, m)
    BY <1>1, ArmsAgree
  <2>2. QED
    BY <2>1
<1>3. n \in Nat
  <2>1. Max(ScoresOf(samples)) \in Nat
    BY HighestIsScored
  <2>2. QED
    BY <2>1
<1>4. Cut(Arms(low, cut, upper), n) = Arms(low, n, upper)
  BY ONLY ArmsAreCut
<1>5. QED
  BY <1>2, <1>3, <1>4

LEMMA ThresholdFits ==
    ASSUME NEW samples \in Samples, samples # << >>, PlainLabels(samples),
           \A i \in DOMAIN samples : samples[i].label # "",
           NEW text \in ToSet(Calibrate(samples, "threshold", DefaultOptions))
    PROVE  FitsBest(samples, text.tiers[1])
<1>1. PICK low, upper :
         /\ low # upper
         /\ LabelsPresent(samples) = {low, upper}
         /\ text = TiersText(Cuts(low, SweepCut(ScoredAgainst(samples, upper)), upper),
                             DefaultOptions)
  <2> DEFINE labels == LabelsByMeanScore(samples)
  <2>1. LabelsPresent(samples) \subseteq ToSet(NameOrder)
    BY SamplesAre DEF LabelsPresent, Labels
  <2>2. /\ Len(labels) = 2
        /\ text = TiersText(Cuts(labels[1], SweepCut(ScoredAgainst(samples, labels[2])),
                                 labels[2]),
                            DefaultOptions)
    BY ThresholdText
  <2>3. labels[1] # labels[2] /\ LabelsPresent(samples) = {labels[1], labels[2]}
    BY <2>1, <2>2, TwoArms
  <2> HIDE DEF labels
  <2>4. QED
    BY <2>2, <2>3
<1> DEFINE cut == SweepCut(ScoredAgainst(samples, upper))
           tiers == Arms(low, cut, upper)
<1>2. /\ cut \in Nat
      /\ \A n \in 0..Max(ScoresOf(samples)) :
            Cardinality(Agreeing(samples, upper, n))
               <= Cardinality(Agreeing(samples, upper, cut))
  BY SweepIsBest
<1>3. text.tiers = Some(tiers)
  <2> HIDE DEF cut
  <2>1. Plain(low) /\ Plain(upper)
    BY <1>1 DEF PlainLabels
  <2>2. QED
    BY <1>1, <1>2, <2>1, CutsAreWritten DEF cut
<1>4. ASSUME NEW n \in 0..Max(ScoresOf(samples))
      PROVE  Cardinality(RightUnder(samples, Cut(tiers, n)))
                <= Cardinality(RightUnder(samples, tiers))
  <2> HIDE DEF cut
  <2>1. low # upper /\ LabelsPresent(samples) = {low, upper}
    BY <1>1
  <2>2. QED
    BY <1>2, <1>4, <2>1, ArmsFit
<1>5. text.tiers[1] = tiers
  BY ONLY <1>3 DEF Some
<1> HIDE DEF tiers
<1>6. FitsBest(samples, tiers) <=>
         \A n \in 0..Max(ScoresOf(samples)) :
            Cardinality(RightUnder(samples, Cut(tiers, n)))
               <= Cardinality(RightUnder(samples, tiers))
  BY ONLY Zenon DEF FitsBest, RightUnder, ScoresOf
<1>7. QED
  BY ONLY <1>4, <1>5, <1>6

-----------------------------------------------------------------------------
Fine(fit) ==
    fit.job.mode = "threshold" /\ PlainLabels(fit.samples)
        => FitsBest(fit.samples, fit.text.tiers[1])

LEMMA FitsAreFine ==
    ASSUME LogInv, NEW job, NEW fit \in Fits(job), NEW doing,
           doing.job = fit.job, doing.samples = fit.samples,
           doing.text.tiers = fit.text.tiers
    PROVE  Fine(doing)
<1>1. PICK samples \in ToSet(Dataset) :
         \E text \in ToSet(Calibrate(samples, job.mode, DefaultOptions)) :
            fit = [samples |-> samples, text |-> text, job |-> job]
  BY DEF Fits
<1>2. PICK text \in ToSet(Calibrate(samples, job.mode, DefaultOptions)) :
         fit = [samples |-> samples, text |-> text, job |-> job]
  BY <1>1
<1>3. doing.job = job /\ doing.samples = samples /\ doing.text.tiers = text.tiers
  BY <1>2
<1>4. /\ samples \in Samples /\ samples # << >>
      /\ \A i \in DOMAIN samples : samples[i].label # ""
  BY <1>1, DatasetIsSamples
<1>5. CASE job.mode = "threshold" /\ PlainLabels(samples)
  <2>1. FitsBest(samples, text.tiers[1])
    BY <1>2, <1>4, <1>5, ThresholdFits
  <2>2. QED
    BY <1>3, <2>1 DEF Fine
<1>6. CASE ~(job.mode = "threshold" /\ PlainLabels(samples))
  BY <1>3, <1>6 DEF Fine
<1>7. QED
  BY <1>5, <1>6

(* A step of one agent that prints nothing.                                 *)
LEMMA AgentKeepsFits ==
    ASSUME FitsTheLabels, DOMAIN agent = Agents, UNCHANGED printed,
           NEW a \in Agents, NEW doing, agent' = [agent EXCEPT ![a] = doing],
           doing.at = "write" /\ doing.job.kind = "recalibrate" => Fine(doing)
    PROVE  FitsTheLabels'
<1>1. Fitted' \subseteq Fitted \cup
         (IF doing.at = "write" /\ doing.job.kind = "recalibrate" THEN {doing} ELSE {})
  BY DEF Fitted
<1>2. \A fit \in Fitted' : Fine(fit)
  BY <1>1 DEF FitsTheLabels, Fine
<1>3. QED
  BY <1>2 DEF FitsTheLabels, Fine

LEMMA StartsKeepFits ==
    ASSUME LogInv, FitsTheLabels, NEW a \in Agents, Take(a)
    PROVE  FitsTheLabels'
<1> USE DEF JobsOf
<1>1. DOMAIN agent = Agents
  BY DEF LogInv
<1>2. ASSUME NEW job, job.kind # "recalibrate", NEW text, Write(a, job, text),
             UNCHANGED printed
      PROVE  FitsTheLabels'
  <2> DEFINE doing == [at |-> "write", job |-> job, text |-> text]
  <2>1. doing.job = job /\ agent' = [agent EXCEPT ![a] = doing]
    BY <1>2 DEF Write, Begin
  <2> HIDE DEF doing
  <2>2. QED
    BY <1>1, <1>2, <2>1, AgentKeepsFits
<1>3. ASSUME NEW doing, doing.at # "write", Begin(a, doing), UNCHANGED printed
      PROVE  FitsTheLabels'
  BY <1>1, <1>3, AgentKeepsFits DEF Begin
<1>4. CASE \E job \in JobsOf({"set", "add-model", "set-model", "set-threshold"}) :
              Edit(a, job)
  BY <1>2, <1>4 DEF Edit
<1>5. CASE \E job \in JobsOf({"init"}) : Scaffold(a, job)
  BY <1>2, <1>5 DEF Scaffold
<1>6. CASE \E job \in JobsOf({"save"}) : Save(a, job)
  BY <1>2, <1>6 DEF Save
<1>7. CASE \E job \in JobsOf({"calibrate"}) : CalibrateInto(a, job)
  BY <1>2, <1>7 DEF CalibrateInto
<1>8. CASE \E job \in JobsOf({"recalibrate"}) : CountLabels(a, job)
  BY <1>3, <1>8 DEF CountLabels
<1>9. CASE \E job \in JobsOf({"feedback"}) : BeginFeedback(a, job)
  BY <1>3, <1>9 DEF BeginFeedback
<1>10. CASE \E job \in JobsOf({"onboard", "judge"}) : BeginLabelling(a, job)
  BY <1>3, <1>10 DEF BeginLabelling
<1>11. CASE \E job \in JobsOf({"install"}) : Install(a, job)
  BY <1>3, <1>11 DEF Install
<1>12. CASE \E job \in JobsOf({"uninstall"}) : Uninstall(a, job)
  BY <1>3, <1>12 DEF Uninstall
<1>13. QED
  BY <1>4, <1>5, <1>6, <1>7, <1>8, <1>9, <1>10, <1>11, <1>12 DEF Take

LEMMA RefitKeepsFits ==
    ASSUME LogInv, FitsTheLabels, NEW a \in Agents, Refit(a)
    PROVE  FitsTheLabels'
<1>1. DOMAIN agent = Agents /\ UNCHANGED printed
  BY DEF LogInv, Refit
<1>2. CASE agent' = [agent EXCEPT ![a] = Idle]
  BY <1>1, <1>2, AgentKeepsFits DEF Idle
<1>3. ASSUME NEW fit \in Fits(agent[a].job),
             agent' = [agent EXCEPT ![a] =
                         [at |-> "write", job |-> fit.job, samples |-> fit.samples,
                          text |-> WithGatewayBlock(fit.text)]]
      PROVE  FitsTheLabels'
  <2> DEFINE doing == [at |-> "write", job |-> fit.job, samples |-> fit.samples,
                       text |-> WithGatewayBlock(fit.text)]
  <2>1. /\ doing.job = fit.job /\ doing.samples = fit.samples
        /\ doing.text = WithGatewayBlock(fit.text)
        /\ agent' = [agent EXCEPT ![a] = doing]
    BY <1>3
  <2>2. WithGatewayBlock(fit.text).tiers = fit.text.tiers
    BY DEF WithGatewayBlock
  <2> HIDE DEF doing
  <2>3. Fine(doing)
    BY <1>3, <2>1, <2>2, FitsAreFine
  <2>4. QED
    BY <1>1, <2>1, <2>3, AgentKeepsFits
<1>4. QED
  BY <1>2, <1>3 DEF Refit

LEMMA OthersKeepFits ==
    ASSUME LogInv, FitsTheLabels, NEW a \in Agents,
           Truncate(a) \/ Fill(a) \/ WriteRow(a) \/ EndLine(a) \/ Abstain(a)
             \/ EndLabelling(a) \/ Enable(a) \/ RemoveUnit(a) \/ Kill(a)
    PROVE  FitsTheLabels'
<1>1. DOMAIN agent = Agents /\ "at" \in DOMAIN agent[a]
  BY DEF LogInv
<1>2. ASSUME NEW doing, doing.at # "write", UNCHANGED printed,
             agent' = [agent EXCEPT ![a] = doing]
      PROVE  FitsTheLabels'
  BY <1>1, <1>2, AgentKeepsFits
<1>3. ASSUME agent' = [agent EXCEPT ![a] = Idle], UNCHANGED printed PROVE FitsTheLabels'
  BY <1>2, <1>3 DEF Idle
<1>4. CASE Truncate(a)
  <2> DEFINE doing == [agent[a] EXCEPT !.at = "fill"]
  <2>1. doing.at # "write" /\ agent' = [agent EXCEPT ![a] = doing] /\ UNCHANGED printed
    BY <1>1, <1>4 DEF Truncate
  <2> HIDE DEF doing
  <2>2. QED
    BY <1>2, <2>1
<1>5. CASE WriteRow(a)
  <2> DEFINE doing == [agent[a] EXCEPT !.at = "newline", !.left = Tail(@)]
  <2>1. doing.at # "write" /\ agent' = [agent EXCEPT ![a] = doing] /\ UNCHANGED printed
    BY <1>1, <1>5 DEF WriteRow
  <2> HIDE DEF doing
  <2>2. QED
    BY <1>2, <2>1
<1>6. CASE EndLine(a)
  <2> DEFINE doing == [agent[a] EXCEPT !.at = "ask"]
  <2>1. doing.at # "write" /\ agent' = [agent EXCEPT ![a] = doing] /\ UNCHANGED printed
    BY <1>1, <1>6 DEF EndLine
  <2> HIDE DEF doing
  <2>2. QED
    BY <1>2, <2>1
<1>7. CASE Abstain(a)
  <2> DEFINE doing == [agent[a] EXCEPT !.left = Tail(@)]
  <2>1. doing.at # "write" /\ agent' = [agent EXCEPT ![a] = doing] /\ UNCHANGED printed
    BY <1>1, <1>7 DEF Abstain
  <2> HIDE DEF doing
  <2>2. QED
    BY <1>2, <2>1
<1>8. CASE EndLabelling(a)
  <2>1. /\ agent' = [agent EXCEPT ![a] = Idle]
        /\ printed' \in IF Passing(agent[a].job) = {} THEN {printed}
                        ELSE {Some(fit) : fit \in Passing(agent[a].job)}
    BY <1>8 DEF EndLabelling
  <2>2. CASE UNCHANGED printed
    BY <1>3, <2>1, <2>2
  <2>3. CASE \E fit \in Passing(agent[a].job) : printed' = Some(fit)
    <3>1. PICK fit \in Passing(agent[a].job) : printed' = Some(fit)
      BY <2>3
    <3>2. fit \in Fits(agent[a].job)
      BY DEF Passing
    <3>3. Fine(fit)
      BY <3>2, FitsAreFine
    <3>4. Fitted' \subseteq Fitted \cup {fit}
      <4>1. \A b \in Agents : agent'[b].at = "write" => agent'[b] = agent[b]
        BY <1>1, <2>1 DEF Idle
      <4>2. ToSet(printed') = {fit}
        BY <3>1 DEF Some, ToSet
      <4>3. QED
        BY <4>1, <4>2 DEF Fitted
    <3>5. QED
      BY <3>3, <3>4 DEF FitsTheLabels, Fine
  <2>4. QED
    BY <2>1, <2>2, <2>3
<1>9. CASE Fill(a) \/ Enable(a) \/ RemoveUnit(a) \/ Kill(a)
  BY <1>3, <1>9 DEF Fill, Enable, RemoveUnit, Kill
<1>10. QED
  BY <1>4, <1>5, <1>6, <1>7, <1>8, <1>9

(* What recalibrate writes and what a judge prints routes the labels it was *)
(* fitted to as well as any other cut between its two arms (FitsTheLabels). *)
THEOREM FitsAreBest == Spec => []FitsTheLabels
<1>1. Init => FitsTheLabels
  <2> SUFFICES ASSUME Init PROVE FitsTheLabels
    OBVIOUS
  <2>1. \A a \in Agents : agent[a].at # "write"
    BY DEF Init, Idle
  <2>2. ToSet(printed) = {}
    BY DEF Init, None, ToSet
  <2>3. QED
    BY <2>1, <2>2 DEF FitsTheLabels, Fitted
<1>2. LogInv /\ FitsTheLabels /\ [Next]_vars => FitsTheLabels'
  <2> SUFFICES ASSUME LogInv, FitsTheLabels, [Next]_vars PROVE FitsTheLabels'
    OBVIOUS
  <2>1. ASSUME NEW a \in Agents, Take(a) \/ Continue(a) \/ Kill(a)
        PROVE  FitsTheLabels'
    BY <2>1, StartsKeepFits, RefitKeepsFits, OthersKeepFits DEF Continue
  <2>2. CASE Serve \/ Crash \/ Restart \/ UNCHANGED vars
    <3>1. UNCHANGED <<agent, printed>>
      BY <2>2 DEF Serve, Crash, Restart, vars
    <3>2. QED
      BY <3>1 DEF FitsTheLabels, Fitted
  <2>3. QED
    BY <2>1, <2>2 DEF Next
<1>3. QED
  BY <1>1, <1>2, LogInvariant, PTL DEF Spec

-----------------------------------------------------------------------------
(***************************************************************************)
(* Dumping and parsing.                                                     *)
(***************************************************************************)

(* A list is a function on the numbers up to its length.                    *)
LEMMA ListIs ==
    ASSUME NEW s
    PROVE  /\ IsList(s) => DOMAIN s = 1..Len(s) /\ Len(s) \in Nat
                           /\ s = [i \in 1..Len(s) |-> s[i]]
           /\ \A n \in Nat : s = [i \in 1..n |-> s[i]] => IsList(s) /\ Len(s) = n
<1>1. IsList(s) => DOMAIN s = 1..Len(s) /\ Len(s) \in Nat /\ s = [i \in 1..Len(s) |-> s[i]]
  BY DEF IsList
<1>2. ASSUME NEW n \in Nat, s = [i \in 1..n |-> s[i]] PROVE IsList(s) /\ Len(s) = n
  <2>1. \A i \in 1..n : s[i] \in ToSet(s)
    BY <1>2 DEF ToSet
  <2>2. s \in [1..n -> ToSet(s)]
    BY <1>2, <2>1
  <2>3. s \in Seq(ToSet(s))
    BY <2>2
  <2>4. QED
    BY <1>2, <2>3 DEF IsList
<1>3. QED
  BY <1>1, <1>2

LEMMA SetIsListed ==
    ASSUME NEW S, IsFiniteSet(S)
    PROVE  /\ IsList(SetToSeq(S)) /\ ToSet(SetToSeq(S)) = S
           /\ Len(SetToSeq(S)) = Cardinality(S)
<1> DEFINE n == Cardinality(S)
           s == CHOOSE f \in [1..n -> S] : IsInjective(f)
<1>1. n \in Nat /\ ExistsBijection(1..n, S)
  BY FS_CardinalityType
<1>2. PICK g : g \in Bijection(1..n, S)
  BY <1>1 DEF ExistsBijection
<1>3. g \in [1..n -> S] /\ IsInjective(g)
  BY <1>2 DEF Bijection, Injection, IsInjective
<1> HIDE DEF n
<1>4. s \in [1..n -> S] /\ IsInjective(s)
  BY <1>3, Zenon
<1>5. SetToSeq(S) = s
  BY DEF SetToSeq, n
<1> HIDE DEF s
<1>6. DOMAIN s = 1..n /\ s = [i \in 1..n |-> s[i]] /\ \A i \in 1..n : s[i] \in S
  BY <1>4
<1>7. IsList(s) /\ Len(s) = n
  BY <1>1, <1>6, ListIs
<1>8. s \in Injection(1..n, S)
  BY <1>4, <1>6 DEF Injection, IsInjective
<1>9. ToSet(s) = S
  <2> DEFINE T == {s[i] : i \in 1..n}
  <2>1. T \subseteq S
    BY <1>6
  <2>2. s \in Surjection(1..n, T) /\ s \in Injection(1..n, T)
    BY <1>6, <1>8 DEF Surjection, Injection
  <2>3. IsFiniteSet(1..n) /\ Cardinality(1..n) = n
    <3>1. IsFiniteSet(1..n) /\ Cardinality(1..n) = IF 1 > n THEN 0 ELSE n - 1 + 1
      BY <1>1, FS_Interval
    <3>2. QED
      BY <1>1, <3>1
  <2>4. Cardinality(T) = n
    <3> HIDE DEF T
    <3>1. QED
      BY <2>2, <2>3, FS_Surjection
  <2>5. T = S
    <3> HIDE DEF T
    <3>1. QED
      BY <2>1, <2>4, FS_Subset DEF n
  <2>6. ToSet(s) = T
    BY <1>6 DEF ToSet
  <2>7. QED
    BY <2>5, <2>6
<1>10. QED
  BY <1>5, <1>7, <1>9 DEF n

(* What a list holds, listed again, is no longer.                           *)
LEMMA ListedAgain ==
    ASSUME NEW s, IsList(s)
    PROVE  /\ IsList(SetToSeq(ToSet(s))) /\ ToSet(SetToSeq(ToSet(s))) = ToSet(s)
           /\ Len(SetToSeq(ToSet(s))) <= Len(s)
           /\ Len(SetToSeq(ToSet(s))) \in Nat /\ Len(s) \in Nat
<1>1. /\ DOMAIN s = 1..Len(s) /\ Len(s) \in Nat
  BY ListIs
<1>2. IsFiniteSet(DOMAIN s) /\ Cardinality(DOMAIN s) = Len(s)
  <2>1. IsFiniteSet(1..Len(s)) /\ Cardinality(1..Len(s)) = IF 1 > Len(s) THEN 0 ELSE Len(s) - 1 + 1
    BY <1>1, FS_Interval
  <2>2. QED
    BY <1>1, <2>1
<1>3. IsFiniteSet(ToSet(s)) /\ Cardinality(ToSet(s)) <= Len(s)
  BY <1>2, ImageIsFinite DEF ToSet
<1>4. Cardinality(ToSet(s)) \in Nat
  BY <1>3, FS_CardinalityType
<1>5. QED
  BY <1>1, <1>3, <1>4, SetIsListed

-----------------------------------------------------------------------------
(* Numbers at six decimals: the defaults have no more.                      *)
LEMMA PrintedIs ==
    /\ One \in Nat
    /\ \A n \in Nat : Printed(n) \in Nat
    /\ \A n \in 0..One : Printed(n) \in 0..One
    /\ Printed(0) = 0
    /\ Printed(30 * One) = 30 * One /\ Printed(60 * One) = 60 * One
    /\ Printed(300 * One) = 300 * One
    /\ \A n \in Nat : InGrains(50 * n) \in Nat /\ Printed(InGrains(50 * n)) = InGrains(50 * n)
<1>1. One \in Nat
  BY SMT DEF One, Hundredth
<1>2. \A n \in Nat : Printed(n) = 4 * ((n + 2) \div 4)
  BY DEF Printed
<1>3. \A n \in Nat : 4 * ((n + 2) \div 4) \in Nat
  OBVIOUS
<1>4. \A n \in Nat : Printed(4 * n) = 4 * n
  <2>1. \A n \in Nat : (4 * n + 2) \div 4 = n
    OBVIOUS
  <2>2. QED
    BY <1>2, <2>1
<1>5. \A n \in 0..One : 4 * ((n + 2) \div 4) \in 0..One
  <2>1. \E m \in Nat : One = 4 * m
    <3>1. One = 4 * (One \div 4) /\ One \div 4 \in Nat
      BY SMT DEF One, Hundredth
    <3>2. QED
      BY <3>1
  <2>2. PICK m \in Nat : One = 4 * m
    BY <2>1
  <2>3. \A n \in 0..(4 * m) : (n + 2) \div 4 <= m /\ (n + 2) \div 4 \in Nat
    OBVIOUS
  <2>4. \A q \in Nat : q <= m => 4 * q \in 0..(4 * m)
    OBVIOUS
  <2>5. \A n \in 0..One : 4 * ((n + 2) \div 4) \in 0..(4 * m)
    BY <2>2, <2>3, <2>4
  <2>6. QED
    BY <2>2, <2>5
<1>6. Printed(0) = 0
  BY <1>2
<1>7. ASSUME NEW k \in {30, 60, 300} PROVE Printed(k * One) = k * One
  <2>1. \E m \in Nat : k * One = 4 * m
    <3>1. k * One = 4 * (k * (One \div 4)) /\ k * (One \div 4) \in Nat
      BY SMT DEF One, Hundredth
    <3>2. QED
      BY <3>1
  <2>2. QED
    BY <1>4, <2>1
<1>8. ASSUME NEW n \in Nat
      PROVE  InGrains(50 * n) \in Nat /\ Printed(InGrains(50 * n)) = InGrains(50 * n)
  <2>1. \E m \in Nat : InGrains(50 * n) = 4 * m
    <3>1. InGrains(50 * n) = 4 * (50 * (Hundredth \div 4) * n)
          /\ 50 * (Hundredth \div 4) * n \in Nat
      BY SMT DEF InGrains, Hundredth
    <3>2. QED
      BY <3>1
  <2>2. QED
    BY <1>4, <2>1
<1>9. QED
  BY <1>1, <1>2, <1>3, <1>5, <1>6, <1>7, <1>8

(* A table without what is at its default, at six decimals, over the        *)
(* defaults is the table at six decimals.                                   *)
LEMMA WrittenTable ==
    ASSUME NEW filled, NEW defaults, DOMAIN defaults \subseteq DOMAIN filled,
           \A k \in DOMAIN defaults \cap FloatKeys : Printed(defaults[k]) = defaults[k]
    PROVE  LET written == PrintedIn(WithoutDefaults(filled, defaults))
               rounded == PrintedIn(filled)
           IN  /\ Over(written, defaults) = rounded
               /\ DOMAIN rounded = DOMAIN filled
               /\ \A k : k \in DOMAIN written <=>
                     k \in DOMAIN filled /\ (k \in DOMAIN defaults => filled[k] # defaults[k])
               /\ \A k \in DOMAIN written : written[k] = rounded[k]
               /\ \A k \in DOMAIN filled :
                     rounded[k] = IF k \in FloatKeys THEN Printed(filled[k]) ELSE filled[k]
               /\ \A k \in DOMAIN filled \ DOMAIN written : rounded[k] = defaults[k]
               /\ IsTable(written)
<1> DEFINE kept == {k \in DOMAIN filled : k \in DOMAIN defaults => filled[k] # defaults[k]}
           Of(k) == IF k \in FloatKeys THEN Printed(filled[k]) ELSE filled[k]
           written == PrintedIn(WithoutDefaults(filled, defaults))
           rounded == PrintedIn(filled)
           again == Over(written, defaults)
<1>1. rounded = [k \in DOMAIN filled |-> Of(k)]
  BY DEF PrintedIn
<1>2. written = [k \in kept |-> Of(k)]
  <2> DEFINE part == [k \in kept |-> filled[k]]
  <2>1. WithoutDefaults(filled, defaults) = part
    BY DEF WithoutDefaults, Restrict
  <2>2. DOMAIN part = kept /\ \A k \in kept : part[k] = filled[k]
    OBVIOUS
  <2> HIDE DEF part, kept
  <2>3. written = [k \in kept |-> IF k \in FloatKeys THEN Printed(part[k]) ELSE part[k]]
    BY <2>1, <2>2 DEF PrintedIn
  <2>4. QED
    BY <2>2, <2>3
<1>3. again = [k \in DOMAIN written \cup DOMAIN defaults |->
                 IF k \in DOMAIN written THEN written[k] ELSE defaults[k]]
  BY DEF Over
<1>4. kept \cup DOMAIN defaults = DOMAIN filled
  OBVIOUS
<1>5. \A k \in DOMAIN filled \ kept : Of(k) = defaults[k]
  OBVIOUS
<1> HIDE DEF Of, written, rounded, again, kept
<1>6. DOMAIN written = kept /\ \A k \in kept : written[k] = Of(k)
  BY <1>2
<1>7. DOMAIN rounded = DOMAIN filled /\ \A k \in DOMAIN filled : rounded[k] = Of(k)
  BY <1>1
<1>8. again = rounded
  <2>1. again = [k \in DOMAIN filled |-> IF k \in kept THEN written[k] ELSE defaults[k]]
    BY <1>3, <1>4, <1>6
  <2>2. QED
    BY <1>1, <1>5, <1>6, <2>1
<1>9. IsTable(written)
  BY <1>2 DEF IsTable
<1>10. kept \subseteq DOMAIN filled
  BY DEF kept
<1>11. QED
  BY <1>5, <1>6, <1>7, <1>8, <1>9, <1>10 DEF Of, kept, written, rounded, again

-----------------------------------------------------------------------------
(* The gateway half.                                                        *)

(* Names that a header takes as they are name one table each.               *)
LEMMA HeadersBare ==
    ASSUME NEW tables, \A n \in DOMAIN tables : Bare(n)
    PROVE  HeadersParse(tables) /\ (IsTable(tables) => Headed(tables) = tables)
<1>1. \A n \in DOMAIN tables : KeyPath(n) = <<n>>
  BY DEF Bare
<1>2. ASSUME NEW m \in DOMAIN tables, NEW n \in DOMAIN tables \ {m}
      PROVE  ~IsPrefix(KeyPath(m), KeyPath(n))
  <2>1. \A x : SubSeq(<<x>>, 1, 1)[1] = x
    <3>1. ASSUME NEW x PROVE SubSeq(<<x>>, 1, 1)[1] = x
      <4> DEFINE s == <<x>>
      <4>1. \A i \in 1..1 : s[i] \in {x}
        OBVIOUS
      <4>2. s[1 + 1 - 1] = x
        OBVIOUS
      <4> HIDE DEF s
      <4>3. \A i \in 1..(1 - 1 + 1) : SubSeq(s, 1, 1)[i] = s[1 + i - 1]
        BY <4>1, SubSeqProperties
      <4>4. QED
        BY <4>2, <4>3 DEF s
    <3>2. QED
      BY <3>1
  <2>2. Len(<<m>>) = 1
    OBVIOUS
  <2>3. QED
    BY <1>1, <1>2, <2>1, <2>2 DEF IsPrefix
<1>3. HeadersParse(tables)
  <2>1. \A m \in DOMAIN tables : KeyPath(m) # << >>
    BY <1>1
  <2>2. QED
    BY <1>2, <2>1 DEF HeadersParse
<1>4. {KeyPath(n)[1] : n \in DOMAIN tables} = DOMAIN tables
  <2>1. \A n \in DOMAIN tables : KeyPath(n)[1] = n
    BY <1>1
  <2>2. QED
    BY <2>1
<1>5. ASSUME NEW key \in DOMAIN tables
      PROVE  {n \in DOMAIN tables : KeyPath(n) = <<key>>} = {key}
  BY <1>1
<1> DEFINE Named(key) == {n \in DOMAIN tables : KeyPath(n) = <<key>>}
           Of(key) == IF Named(key) = {} THEN << >> ELSE tables[CHOOSE n \in Named(key) : TRUE]
<1>6. \A key \in DOMAIN tables : Of(key) = tables[key]
  <2>1. ASSUME NEW key \in DOMAIN tables PROVE Of(key) = tables[key]
    <3>1. Named(key) = {key}
      BY <1>5
    <3> HIDE DEF Named
    <3>2. (CHOOSE n \in Named(key) : TRUE) = key
      BY <3>1
    <3>3. QED
      BY <3>1, <3>2
  <2>2. QED
    BY <2>1
<1>7. Headed(tables) = [key \in {KeyPath(n)[1] : n \in DOMAIN tables} |-> Of(key)]
  BY DEF Headed
<1> HIDE DEF Of
<1>8. Headed(tables) = [n \in DOMAIN tables |-> tables[n]]
  BY <1>4, <1>6, <1>7
<1>9. QED
  BY <1>3, <1>8 DEF IsTable

(* The keys as they are read back.                                          *)
KeysRead(keys) ==
    LET read == Headed(WrittenKeys(keys))
    IN  [id \in DOMAIN read |-> At(read[id], "hash", "")]

LEMMA KeysShown ==
    ASSUME NEW keys, IsTable(keys), \A id \in DOMAIN keys : Bare(id)
    PROVE  HeadersParse(WrittenKeys(keys)) /\ KeysRead(keys) = keys
<1> DEFINE tables == WrittenKeys(keys)
           read == Headed(tables)
<1>1. tables = [id \in DOMAIN keys |-> [hash |-> keys[id]]]
  BY DEF WrittenKeys
<1> HIDE DEF tables
<1>2. DOMAIN tables = DOMAIN keys
  BY <1>1
<1>3. HeadersParse(tables) /\ read = tables
  BY <1>1, <1>2, HeadersBare DEF IsTable
<1> HIDE DEF read
<1>4. DOMAIN read = DOMAIN keys /\ \A id \in DOMAIN keys : read[id] = [hash |-> keys[id]]
  BY <1>1, <1>2, <1>3
<1>5. ASSUME NEW id \in DOMAIN keys PROVE At(read[id], "hash", "") = keys[id]
  <2> DEFINE row == read[id]
  <2>1. row = [hash |-> keys[id]]
    BY <1>4
  <2> HIDE DEF row
  <2>2. "hash" \in DOMAIN row /\ row["hash"] = keys[id]
    BY <2>1
  <2>3. At(row, "hash", "") = keys[id]
    BY <2>2 DEF At
  <2>4. QED
    BY <2>3 DEF row
<1>6. [id \in DOMAIN read |-> At(read[id], "hash", "")] = [id \in DOMAIN keys |-> keys[id]]
  BY <1>4, <1>5
<1>7. QED
  BY <1>3, <1>6 DEF IsTable, KeysRead, tables, read

LEMMA CacheShown ==
    ASSUME NEW cache, CacheParses(cache), NEW filled,
           filled = Over(Over(cache, [enabled |-> FALSE]), CacheDefaults),
           NEW written, written = PrintedIn(WithoutDefaults(filled, CacheDefaults))
    PROVE  /\ CacheParses(written)
           /\ Over(Over(written, [enabled |-> FALSE]), CacheDefaults) = PrintedIn(filled)
<1> DEFINE keys == {"ttl", "max_entries", "max_bytes"}
           Value(k) == IF k \in DOMAIN cache THEN cache[k] ELSE CacheDefaults[k]
<1>1. DOMAIN CacheDefaults = keys /\ CacheDefaults.ttl = 300 * One
      /\ CacheDefaults.max_entries > 0 /\ CacheDefaults.max_bytes > 0
  BY SMT DEF CacheDefaults
<1>2. DOMAIN filled = DOMAIN cache \cup {"enabled"} \cup keys
      /\ \A k \in keys : filled[k] = Value(k)
  BY <1>1 DEF Over
<1>3. \A k \in DOMAIN CacheDefaults \cap FloatKeys : Printed(CacheDefaults[k]) = CacheDefaults[k]
  BY <1>1, PrintedIs DEF FloatKeys
<1> DEFINE rounded == PrintedIn(filled)
<1>4. /\ Over(written, CacheDefaults) = rounded
      /\ \A k : k \in DOMAIN written <=>
            k \in DOMAIN filled /\ (k \in DOMAIN CacheDefaults => filled[k] # CacheDefaults[k])
      /\ \A k \in DOMAIN written : written[k] = rounded[k]
      /\ \A k \in DOMAIN filled :
            rounded[k] = IF k \in FloatKeys THEN Printed(filled[k]) ELSE filled[k]
      /\ IsTable(written)
  <2>1. DOMAIN CacheDefaults \subseteq DOMAIN filled
    BY <1>1, <1>2
  <2>2. QED
    BY <1>3, <2>1, WrittenTable
<1> HIDE DEF rounded
<1>5. "enabled" \in DOMAIN written
  BY <1>1, <1>2, <1>4
<1>6. Over(written, [enabled |-> FALSE]) = written
  <2>1. DOMAIN [enabled |-> FALSE] = {"enabled"}
    OBVIOUS
  <2>2. DOMAIN written \cup {"enabled"} = DOMAIN written
    BY <1>5
  <2>3. Over(written, [enabled |-> FALSE]) = [k \in DOMAIN written |-> written[k]]
    BY <2>1, <2>2 DEF Over
  <2>4. QED
    BY <1>4, <2>3 DEF IsTable
<1>7. Value("ttl") \in Nat /\ Value("max_entries") > 0 /\ Value("max_bytes") > 0
  <2>1. 300 * One \in Nat
    BY SMT DEF One, Hundredth
  <2>2. QED
    BY <1>1, <2>1 DEF CacheParses, At
<1>8. rounded.ttl = Printed(Value("ttl")) /\ rounded.max_entries = Value("max_entries")
      /\ rounded.max_bytes = Value("max_bytes")
  BY <1>2, <1>4 DEF FloatKeys
<1> HIDE DEF Value
<1>9. CacheParses(written)
  <2>1. At(written, "ttl", 0) \in Nat
    BY <1>4, <1>7, <1>8, PrintedIs DEF At
  <2>2. At(written, "max_entries", 1) > 0 /\ At(written, "max_bytes", 1) > 0
    BY <1>4, <1>7, <1>8 DEF At
  <2>3. QED
    BY <2>1, <2>2 DEF CacheParses
<1>10. QED
  BY <1>4, <1>6, <1>9 DEF rounded

LEMMA LimitShown ==
    ASSUME NEW limit, RateLimitParses(limit), DOMAIN limit \subseteq {"rpm", "tpm", "window"},
           NEW filled, filled = Over(limit, LimitDefaults), Printed(filled.window) > 0,
           NEW written, written = PrintedIn(WithoutDefaults(filled, LimitDefaults))
    PROVE  RateLimitParses(written) /\ Over(written, LimitDefaults) = PrintedIn(filled)
<1>1. DOMAIN LimitDefaults = {"window"} /\ LimitDefaults.window = 60 * One
  BY DEF LimitDefaults
<1>2. /\ DOMAIN filled = DOMAIN limit \cup {"window"}
      /\ \A k \in {"rpm", "tpm"} \cap DOMAIN limit : filled[k] = limit[k]
      /\ filled.window \in Nat
  <2>1. 60 * One \in Nat
    BY SMT DEF One, Hundredth
  <2>2. "window" \in DOMAIN limit => limit.window \in Nat
    BY DEF RateLimitParses
  <2>3. QED
    BY <1>1, <2>1, <2>2 DEF Over
<1>3. \A k \in DOMAIN LimitDefaults \cap FloatKeys : Printed(LimitDefaults[k]) = LimitDefaults[k]
  BY <1>1, PrintedIs DEF FloatKeys
<1> DEFINE rounded == PrintedIn(filled)
<1>4. /\ Over(written, LimitDefaults) = rounded
      /\ \A k : k \in DOMAIN written <=>
            k \in DOMAIN filled /\ (k \in DOMAIN LimitDefaults => filled[k] # LimitDefaults[k])
      /\ \A k \in DOMAIN written : written[k] = rounded[k]
      /\ \A k \in DOMAIN filled :
            rounded[k] = IF k \in FloatKeys THEN Printed(filled[k]) ELSE filled[k]
  BY <1>1, <1>2, <1>3, WrittenTable
<1> HIDE DEF rounded
<1>5. {"rpm", "tpm"} \cap DOMAIN written # {}
  BY <1>1, <1>2, <1>4 DEF RateLimitParses
<1>6. ASSUME NEW k \in DOMAIN written PROVE written[k] \in Nat \ {0}
  <2>1. CASE k = "window"
    <3>1. written[k] = Printed(filled.window)
      BY <1>2, <1>4, <1>6, <2>1 DEF FloatKeys
    <3>2. Printed(filled.window) \in Nat
      BY <1>2, PrintedIs
    <3>3. QED
      BY <3>1, <3>2
  <2>2. CASE k \in {"rpm", "tpm"} \cap DOMAIN limit
    <3>1. written[k] = limit[k]
      BY <1>2, <1>4, <1>6, <2>2 DEF FloatKeys
    <3>2. QED
      BY <2>2, <3>1 DEF RateLimitParses
  <2>3. QED
    BY <1>2, <1>4, <2>1, <2>2
<1>7. QED
  BY <1>4, <1>5, <1>6 DEF RateLimitParses, rounded

(* The settings as loaded.                                                  *)
LEMMA SettingsAre ==
    ASSUME NEW table, SettingsParse(table)
    PROVE  LET settings == SettingsFrom(table)
           IN  /\ DOMAIN settings = DOMAIN table \cup DOMAIN DefaultGateway
               /\ IsTable(settings)
               /\ \A k \in DOMAIN DefaultGateway :
                     settings[k] = IF k \in DOMAIN table THEN table[k] ELSE DefaultGateway[k]
               /\ settings.retries >= 0 /\ settings.breaker_threshold > 0
               /\ settings.breaker_cooldown \in Nat
               /\ settings.failover \in FailoverPolicies
               /\ KeysParse(settings.keys)
               /\ "cache" \in DOMAIN settings =>
                     /\ CacheParses(table.cache)
                     /\ settings.cache =
                           Over(Over(table.cache, [enabled |-> FALSE]), CacheDefaults)
               /\ "rate_limit" \in DOMAIN settings =>
                     /\ RateLimitParses(table.rate_limit)
                     /\ settings.rate_limit = Over(table.rate_limit, LimitDefaults)
               /\ {"cache", "rate_limit"} \cap DOMAIN settings \subseteq DOMAIN table
<1> DEFINE names == {"retries", "offline", "breaker_threshold", "breaker_cooldown",
                     "failover", "keys"}
           filled == Over(table, DefaultGateway)
           settings == SettingsFrom(table)
<1>1. /\ DOMAIN DefaultGateway = names
      /\ DefaultGateway.retries = 2 /\ DefaultGateway.breaker_threshold = 5
      /\ DefaultGateway.breaker_cooldown = 30 * One /\ DefaultGateway.failover = "same-tier"
      /\ DefaultGateway.keys = << >>
  BY DEF DefaultGateway
<1>2. filled = [k \in DOMAIN table \cup names |->
                  IF k \in DOMAIN table THEN table[k] ELSE DefaultGateway[k]]
  BY <1>1 DEF Over
<1> HIDE DEF filled
<1>3. /\ DOMAIN filled = DOMAIN table \cup names
      /\ \A k \in DOMAIN filled :
            filled[k] = IF k \in DOMAIN table THEN table[k] ELSE DefaultGateway[k]
  BY <1>2
<1>4. settings = [k \in DOMAIN filled |->
            CASE k = "cache" -> Over(Over(filled[k], [enabled |-> FALSE]), CacheDefaults)
              [] k = "rate_limit" -> Over(filled[k], LimitDefaults)
              [] OTHER -> filled[k]]
  BY DEF SettingsFrom, filled
<1> HIDE DEF settings
<1>5. DOMAIN settings = DOMAIN table \cup names /\ IsTable(settings)
  BY <1>3, <1>4 DEF IsTable
<1>6. \A k \in names : settings[k] = IF k \in DOMAIN table THEN table[k] ELSE DefaultGateway[k]
  <2>1. \A k \in names : k # "cache" /\ k # "rate_limit" /\ k \in DOMAIN filled
    BY <1>3
  <2>2. \A k \in names : settings[k] = filled[k]
    BY <1>4, <2>1
  <2>3. QED
    BY <1>3, <2>1, <2>2
<1>7. settings.retries >= 0 /\ settings.breaker_threshold > 0
  BY <1>1, <1>6 DEF SettingsParse, At
<1>8. settings.breaker_cooldown \in Nat
  <2>1. 30 * One \in Nat
    BY SMT DEF One, Hundredth
  <2>2. QED
    BY <1>1, <1>6, <2>1 DEF SettingsParse, At
<1>9. settings.failover \in FailoverPolicies
  BY <1>1, <1>6 DEF SettingsParse, At, FailoverPolicies
<1>10. KeysParse(settings.keys)
  <2>1. settings.keys = IF "keys" \in DOMAIN table THEN table.keys ELSE << >>
    BY <1>1, <1>6
  <2>2. KeysParse(<< >>)
    <3>1. \A id \in DOMAIN << >> : FALSE
      OBVIOUS
    <3>2. QED
      BY <3>1 DEF KeysParse
  <2>3. "keys" \in DOMAIN table => KeysParse(table.keys)
    BY DEF SettingsParse
  <2>4. QED
    BY <2>1, <2>2, <2>3
<1>11. {"cache", "rate_limit"} \cap DOMAIN settings \subseteq DOMAIN table
  BY <1>5
<1>12. ASSUME "cache" \in DOMAIN settings
       PROVE  /\ CacheParses(table.cache)
              /\ settings.cache = Over(Over(table.cache, [enabled |-> FALSE]), CacheDefaults)
  <2>1. "cache" \in DOMAIN table
    BY <1>11, <1>12
  <2>2. "cache" \in DOMAIN filled /\ filled["cache"] = table.cache
    BY <1>3, <2>1
  <2>3. settings["cache"] = Over(Over(filled["cache"], [enabled |-> FALSE]), CacheDefaults)
    BY <1>4, <2>2
  <2>4. QED
    BY <2>1, <2>2, <2>3 DEF SettingsParse
<1>13. ASSUME "rate_limit" \in DOMAIN settings
       PROVE  /\ RateLimitParses(table.rate_limit)
              /\ settings.rate_limit = Over(table.rate_limit, LimitDefaults)
  <2>1. "rate_limit" \in DOMAIN table
    BY <1>11, <1>13
  <2>2. "rate_limit" \in DOMAIN filled /\ filled["rate_limit"] = table.rate_limit
    BY <1>3, <2>1
  <2>3. settings["rate_limit"] = Over(filled["rate_limit"], LimitDefaults)
    BY <1>4, <2>2
  <2>4. QED
    BY <2>1, <2>2, <2>3 DEF SettingsParse
<1>14. QED
  BY <1>1, <1>5, <1>6, <1>7, <1>8, <1>9, <1>10, <1>11, <1>12, <1>13 DEF settings


(* What is written of the settings.                                         *)
LEMMA SettingsDumped ==
    ASSUME NEW settings, DOMAIN DefaultGateway \subseteq DOMAIN settings
    PROVE  LET written == DumpSettings(settings)
           IN  /\ \A k : k \in DOMAIN written <=>
                     /\ k \in DOMAIN settings
                     /\ k \in DOMAIN DefaultGateway => settings[k] # DefaultGateway[k]
               /\ IsTable(written)
               /\ "cache" \in DOMAIN written => written.cache =
                     PrintedIn(WithoutDefaults(settings.cache, CacheDefaults))
               /\ "rate_limit" \in DOMAIN written => written.rate_limit =
                     PrintedIn(WithoutDefaults(settings.rate_limit, LimitDefaults))
               /\ "keys" \in DOMAIN written => written.keys = KeysRead(settings.keys)
               /\ \A k \in DOMAIN written \ {"cache", "rate_limit", "keys"} :
                     written[k] = PrintedIn(settings)[k]
               /\ \A k \in DOMAIN DefaultGateway \ DOMAIN written :
                     PrintedIn(settings)[k] = DefaultGateway[k]
<1> DEFINE first == PrintedIn(WithoutDefaults(settings, DefaultGateway))
           written == DumpSettings(settings)
           kept == {k \in DOMAIN settings :
                       k \in DOMAIN DefaultGateway => settings[k] # DefaultGateway[k]}
<1>1. \A k \in DOMAIN DefaultGateway \cap FloatKeys : Printed(DefaultGateway[k]) = DefaultGateway[k]
  <2>1. DefaultGateway.breaker_cooldown = 30 * One
        /\ DOMAIN DefaultGateway \cap FloatKeys = {"breaker_cooldown"}
    BY DEF DefaultGateway, FloatKeys
  <2>2. QED
    BY <2>1, PrintedIs
<1>2. /\ DOMAIN first = kept
      /\ \A k \in kept : first[k] = PrintedIn(settings)[k]
      /\ \A k \in DOMAIN settings :
            PrintedIn(settings)[k] = IF k \in FloatKeys THEN Printed(settings[k]) ELSE settings[k]
      /\ \A k \in DOMAIN settings \ kept : PrintedIn(settings)[k] = DefaultGateway[k]
  BY <1>1, WrittenTable
<1> HIDE DEF first
<1>3. \A k \in kept \ FloatKeys : first[k] = settings[k]
  BY <1>2
<1>4. written = [k \in kept |->
            CASE k = "cache" -> PrintedIn(WithoutDefaults(first[k], CacheDefaults))
              [] k = "rate_limit" -> PrintedIn(WithoutDefaults(first[k], LimitDefaults))
              [] k = "keys" -> KeysRead(first[k])
              [] OTHER -> first[k]]
  BY <1>2 DEF DumpSettings, KeysRead, first
<1> HIDE DEF written, kept
<1>5. DOMAIN written = kept /\ IsTable(written)
  BY <1>4 DEF IsTable
<1>6. "cache" \in kept => written["cache"] = PrintedIn(WithoutDefaults(settings["cache"], CacheDefaults))
  <2>1. "cache" \notin FloatKeys
    BY DEF FloatKeys
  <2>2. QED
    BY <1>3, <1>4, <2>1
<1>7. "rate_limit" \in kept =>
         written["rate_limit"] = PrintedIn(WithoutDefaults(settings["rate_limit"], LimitDefaults))
  <2>1. "rate_limit" \notin FloatKeys
    BY DEF FloatKeys
  <2>2. QED
    BY <1>3, <1>4, <2>1
<1>8. "keys" \in kept => written["keys"] = KeysRead(settings["keys"])
  <2>1. "keys" \notin FloatKeys
    BY DEF FloatKeys
  <2>2. QED
    BY <1>3, <1>4, <2>1
<1>9. \A k \in kept \ {"cache", "rate_limit", "keys"} : written[k] = PrintedIn(settings)[k]
  BY <1>2, <1>4
<1>10. \A k \in DOMAIN DefaultGateway \ kept : PrintedIn(settings)[k] = DefaultGateway[k]
  BY <1>2
<1>11. QED
  BY <1>5, <1>6, <1>7, <1>8, <1>9, <1>10 DEF kept, written

(* The settings that a text is loaded to are written as settings that load  *)
(* to the same, at six decimals.                                            *)
LEMMA SettingsLoadBack ==
    ASSUME NEW table, SettingsParse(table), AreSettings(table), NEW settings,
           settings = SettingsFrom(table), \A id \in DOMAIN settings.keys : Bare(id),
           "rate_limit" \in DOMAIN settings => Printed(settings.rate_limit.window) > 0
    PROVE  /\ SettingsParse(DumpSettings(settings))
           /\ SettingsFrom(DumpSettings(settings)) = RoundedSettings(settings)
<1> DEFINE written == DumpSettings(settings)
           rounded == RoundedSettings(settings)
           plain == PrintedIn(settings)
           names == {"retries", "offline", "breaker_threshold", "breaker_cooldown",
                     "failover", "keys"}
<1>1. /\ DOMAIN DefaultGateway = names /\ DefaultGateway.keys = << >>
  BY DEF DefaultGateway
<1>2. /\ DOMAIN settings = DOMAIN table \cup names
      /\ settings.keys = IF "keys" \in DOMAIN table THEN table.keys ELSE << >>
      /\ settings.retries >= 0 /\ settings.breaker_threshold > 0
      /\ settings.breaker_cooldown \in Nat
      /\ settings.failover \in FailoverPolicies
      /\ KeysParse(settings.keys)
      /\ "cache" \in DOMAIN settings =>
            /\ CacheParses(table.cache)
            /\ settings.cache = Over(Over(table.cache, [enabled |-> FALSE]), CacheDefaults)
      /\ "rate_limit" \in DOMAIN settings =>
            /\ RateLimitParses(table.rate_limit)
            /\ settings.rate_limit = Over(table.rate_limit, LimitDefaults)
      /\ {"cache", "rate_limit"} \cap DOMAIN settings \subseteq DOMAIN table
  BY <1>1, SettingsAre
<1>3. IsTable(settings.keys)
  <2>1. IsTable(<< >>)
    BY DEF IsTable
  <2>2. "keys" \in DOMAIN table => IsTable(table.keys)
    BY DEF AreSettings
  <2>3. QED
    BY <1>2, <2>1, <2>2
<1>4. /\ \A k : k \in DOMAIN written <=>
            /\ k \in DOMAIN settings
            /\ k \in DOMAIN DefaultGateway => settings[k] # DefaultGateway[k]
      /\ "cache" \in DOMAIN written => written.cache =
            PrintedIn(WithoutDefaults(settings.cache, CacheDefaults))
      /\ "rate_limit" \in DOMAIN written => written.rate_limit =
            PrintedIn(WithoutDefaults(settings.rate_limit, LimitDefaults))
      /\ "keys" \in DOMAIN written => written.keys = settings.keys
      /\ \A k \in DOMAIN written \ {"cache", "rate_limit", "keys"} : written[k] = plain[k]
      /\ \A k \in names \ DOMAIN written : plain[k] = DefaultGateway[k]
  <2>1. KeysRead(settings.keys) = settings.keys
    BY <1>3, KeysShown
  <2>2. DOMAIN DefaultGateway \subseteq DOMAIN settings
    BY <1>1, <1>2
  <2>3. QED
    BY <1>1, <2>1, <2>2, SettingsDumped
<1>5. \A k \in DOMAIN settings :
         plain[k] = IF k \in FloatKeys THEN Printed(settings[k]) ELSE settings[k]
  BY DEF PrintedIn
<1> HIDE DEF written, plain
<1>6. /\ plain.retries = settings.retries
      /\ plain.breaker_threshold = settings.breaker_threshold
      /\ plain.breaker_cooldown = Printed(settings.breaker_cooldown)
      /\ plain.failover = settings.failover /\ plain.keys = settings.keys
  <2>1. names \subseteq DOMAIN settings
    BY <1>2
  <2>2. QED
    BY <1>5, <2>1 DEF FloatKeys
<1>7. ASSUME "cache" \in DOMAIN written
      PROVE  /\ CacheParses(written.cache)
             /\ Over(Over(written.cache, [enabled |-> FALSE]), CacheDefaults)
                   = PrintedIn(settings.cache)
  BY <1>2, <1>4, <1>7, CacheShown
<1>8. ASSUME "rate_limit" \in DOMAIN written
      PROVE  /\ RateLimitParses(written.rate_limit)
             /\ Over(written.rate_limit, LimitDefaults) = PrintedIn(settings.rate_limit)
  <2>1. "rate_limit" \in DOMAIN settings /\ "rate_limit" \in DOMAIN table
    BY <1>2, <1>4, <1>8
  <2>2. DOMAIN table.rate_limit \subseteq {"rpm", "tpm", "window"}
    BY <2>1 DEF AreSettings
  <2>3. QED
    BY <1>2, <1>4, <1>8, <2>1, <2>2, LimitShown
<1>9. SettingsParse(written)
  <2>1. \A k \in {"retries", "breaker_threshold", "breaker_cooldown", "failover"} :
           \A d : At(written, k, d) = d \/ At(written, k, d) = plain[k]
    BY <1>4 DEF At
  <2>2. At(written, "retries", 0) >= 0 /\ At(written, "breaker_threshold", 1) > 0
    BY <1>2, <1>6, <2>1
  <2>3. At(written, "breaker_cooldown", 0) \in Nat
    <3>1. Printed(settings.breaker_cooldown) \in Nat
      BY <1>2, PrintedIs
    <3>2. QED
      BY <1>6, <2>1, <3>1
  <2>4. At(written, "failover", "same-tier") \in FailoverPolicies
    BY <1>2, <1>6, <2>1 DEF FailoverPolicies
  <2>5. "keys" \in DOMAIN written => KeysParse(written.keys)
    BY <1>2, <1>4
  <2>6. QED
    BY <1>7, <1>8, <2>2, <2>3, <2>4, <2>5 DEF SettingsParse
<1>10. DOMAIN written \cup names = DOMAIN settings
  BY <1>1, <1>2, <1>4
<1>11. {"cache", "rate_limit"} \cap DOMAIN settings \subseteq DOMAIN written
  BY <1>1, <1>4
<1> DEFINE filled == Over(written, DefaultGateway)
           again == SettingsFrom(written)
<1>12. /\ DOMAIN filled = DOMAIN settings
       /\ \A k \in DOMAIN settings :
             filled[k] = IF k \in DOMAIN written THEN written[k] ELSE DefaultGateway[k]
  BY <1>1, <1>10 DEF Over
<1> HIDE DEF filled
<1>13. again = [k \in DOMAIN settings |->
            CASE k = "cache" -> Over(Over(filled[k], [enabled |-> FALSE]), CacheDefaults)
              [] k = "rate_limit" -> Over(filled[k], LimitDefaults)
              [] OTHER -> filled[k]]
  BY <1>12 DEF SettingsFrom, filled
<1>14. rounded = [k \in DOMAIN settings |->
            IF k \in {"cache", "rate_limit"} THEN PrintedIn(settings[k]) ELSE plain[k]]
  BY DEF RoundedSettings, plain
<1> HIDE DEF again, rounded
<1>15. ASSUME NEW k \in DOMAIN settings PROVE again[k] = rounded[k]
  <2>1. CASE k = "cache"
    <3>1. filled[k] = written.cache
      BY <1>11, <1>12, <1>15, <2>1
    <3>2. again[k] = Over(Over(filled[k], [enabled |-> FALSE]), CacheDefaults)
      BY <1>13, <1>15, <2>1
    <3>3. rounded[k] = PrintedIn(settings.cache)
      BY <1>14, <1>15, <2>1
    <3>4. QED
      BY <1>7, <1>11, <1>15, <2>1, <3>1, <3>2, <3>3
  <2>2. CASE k = "rate_limit"
    <3>1. filled[k] = written.rate_limit
      BY <1>11, <1>12, <1>15, <2>2
    <3>2. again[k] = Over(filled[k], LimitDefaults)
      BY <1>13, <1>15, <2>2
    <3>3. rounded[k] = PrintedIn(settings.rate_limit)
      BY <1>14, <1>15, <2>2
    <3>4. QED
      BY <1>8, <1>11, <1>15, <2>2, <3>1, <3>2, <3>3
  <2>3. CASE k \notin {"cache", "rate_limit"}
    <3>1. again[k] = filled[k] /\ rounded[k] = plain[k]
      BY <1>13, <1>14, <1>15, <2>3
    <3>2. CASE k \in DOMAIN written
      <4>1. written[k] = plain[k]
        BY <1>4, <1>6, <2>3, <3>2
      <4>2. QED
        BY <1>12, <1>15, <3>1, <3>2, <4>1
    <3>3. CASE k \notin DOMAIN written
      <4>1. k \in names
        BY <1>10, <1>15, <3>3
      <4>2. QED
        BY <1>4, <1>12, <1>15, <3>1, <3>3, <4>1
    <3>4. QED
      BY <3>2, <3>3
  <2>4. QED
    BY <2>1, <2>2, <2>3
<1>16. again = rounded
  BY <1>13, <1>14, <1>15
<1>17. QED
  BY <1>9, <1>16 DEF again, rounded, written

(* A model whose strings TOML reads back is written without its defaults.   *)
LEMMA ModelShown ==
    ASSUME NEW table, IsModel(table), NEW full, full = Over(table, ModelDefaults),
           \A string \in ModelStrings(full) : Plain(string)
    PROVE  /\ DumpModel(full) = PrintedIn(WithoutDefaults(full, ModelDefaults))
           /\ Over(DumpModel(full), ModelDefaults) = PrintedIn(full)
<1> DEFINE written == PrintedIn(WithoutDefaults(full, ModelDefaults))
           rounded == PrintedIn(full)
<1>1. DOMAIN ModelDefaults = {"fallbacks", "enabled"} /\ ModelDefaults.fallbacks = << >>
  BY DEF ModelDefaults
<1>2. /\ DOMAIN full = DOMAIN table \cup {"fallbacks", "enabled"}
      /\ full.fallbacks = IF "fallbacks" \in DOMAIN table THEN table.fallbacks ELSE << >>
  BY <1>1 DEF Over
<1>3. /\ Over(written, ModelDefaults) = rounded
      /\ DOMAIN written \subseteq DOMAIN full
      /\ \A k \in DOMAIN written : written[k] = rounded[k]
      /\ \A k \in DOMAIN full :
            rounded[k] = IF k \in FloatKeys THEN Printed(full[k]) ELSE full[k]
      /\ IsTable(written)
  <2>1. DOMAIN ModelDefaults \subseteq DOMAIN full
    BY <1>1, <1>2
  <2>2. \A k \in DOMAIN ModelDefaults \cap FloatKeys : Printed(ModelDefaults[k]) = ModelDefaults[k]
    BY <1>1 DEF FloatKeys
  <2>3. QED
    BY <2>1, <2>2, WrittenTable
<1> HIDE DEF rounded
<1>4. \A string \in ModelStrings(full) : ReadRaw(string) = string
  BY DEF ReadRaw, Plain, Some
<1>5. \A k \in DOMAIN written \cap StringKeys : ReadRaw(written[k]) = written[k]
  <2>1. ASSUME NEW k \in DOMAIN written \cap StringKeys PROVE ReadRaw(written[k]) = written[k]
    <3>1. written[k] = full[k] /\ k \in DOMAIN full \cap StringKeys
      BY <1>3, <2>1 DEF StringKeys, FloatKeys
    <3>2. full[k] \in ModelStrings(full)
      BY <3>1 DEF ModelStrings
    <3>3. QED
      BY <1>4, <3>1, <3>2
  <2>2. QED
    BY <2>1
<1>6. ASSUME "fallbacks" \in DOMAIN written
      PROVE  [i \in DOMAIN written.fallbacks |-> ReadRaw(written.fallbacks[i])]
                = written.fallbacks
  <2> DEFINE list == full.fallbacks
  <2>1. written.fallbacks = list
    BY <1>2, <1>3, <1>6 DEF FloatKeys
  <2>2. IsTable(list)
    <3>1. IsTable(<< >>)
      BY DEF IsTable
    <3>2. "fallbacks" \in DOMAIN table => IsTable(table.fallbacks)
      BY ListIs DEF IsModel, IsTable
    <3>3. QED
      BY <1>2, <3>1, <3>2
  <2>3. \A i \in DOMAIN list : list[i] \in ModelStrings(full)
    <3>1. Fallbacks(full) = list
      BY <1>2 DEF Fallbacks, At
    <3> HIDE DEF list
    <3>2. QED
      BY <3>1 DEF ModelStrings, ToSet
  <2> HIDE DEF list
  <2>4. \A i \in DOMAIN list : ReadRaw(list[i]) = list[i]
    BY <1>4, <2>3
  <2>5. [i \in DOMAIN list |-> ReadRaw(list[i])] = [i \in DOMAIN list |-> list[i]]
    BY <2>4
  <2>6. QED
    BY <2>1, <2>2, <2>5 DEF IsTable
<1> DEFINE List == [i \in DOMAIN written.fallbacks |-> ReadRaw(written.fallbacks[i])]
           Of(k) == CASE k \in StringKeys -> ReadRaw(written[k])
                      [] k = "fallbacks" -> [i \in DOMAIN written[k] |-> ReadRaw(written[k][i])]
                      [] OTHER -> written[k]
<1>7. DumpModel(full) = [k \in DOMAIN written |-> Of(k)]
  BY DEF DumpModel
<1>8. \A k \in DOMAIN written : Of(k) = written[k]
  <2>1. ASSUME NEW k \in DOMAIN written PROVE Of(k) = written[k]
    <3> HIDE DEF written
    <3>1. CASE k \in StringKeys
      <4>1. k # "fallbacks"
        BY <3>1 DEF StringKeys
      <4>2. QED
        BY <1>5, <2>1, <3>1, <4>1
    <3>2. CASE k = "fallbacks"
      <4>1. k \notin StringKeys
        BY <3>2 DEF StringKeys
      <4>2. QED
        BY <1>6, <2>1, <3>2, <4>1
    <3>3. CASE k \notin StringKeys /\ k # "fallbacks"
      BY <3>3
    <3>4. QED
      BY <3>1, <3>2, <3>3
  <2>2. QED
    BY <2>1
<1> HIDE DEF Of, written
<1>9. DumpModel(full) = [k \in DOMAIN written |-> written[k]]
  BY <1>7, <1>8
<1>10. DumpModel(full) = written
  BY <1>3, <1>9 DEF IsTable
<1>11. QED
  BY <1>3, <1>10 DEF written, rounded

LEMMA ModelWritten ==
    ASSUME NEW models, NEW name, ModelParses(models, name), NEW full,
           full = Over(models[name], ModelDefaults), NEW written,
           DOMAIN written = DOMAIN models,
           written[name] = PrintedIn(WithoutDefaults(full, ModelDefaults))
    PROVE  ModelParses(written, name)
<1> DEFINE model == models[name]
           new == written[name]
<1>1. /\ {"base_url", "model"} \subseteq DOMAIN model
      /\ \A k \in DOMAIN model \cap StringKeys : model[k] # ""
      /\ "api_key_cmd" \in DOMAIN model => "api_key_env" \in DOMAIN model
      /\ At(model, "cost_per_1k", 0) \in Nat
      /\ At(model, "context_window", 1) > 0
      /\ \A i \in DOMAIN Fallbacks(model) :
            Fallbacks(model)[i] \in DOMAIN models \ {name}
  BY DEF ModelParses
<1>2. DOMAIN ModelDefaults = {"fallbacks", "enabled"} /\ ModelDefaults["fallbacks"] = << >>
  BY DEF ModelDefaults
<1> HIDE DEF model
<1>3. /\ DOMAIN full = DOMAIN model \cup {"fallbacks", "enabled"}
      /\ \A k \in DOMAIN full :
            full[k] = IF k \in DOMAIN model THEN model[k] ELSE ModelDefaults[k]
  BY <1>2 DEF Over, model
<1>4. /\ \A k : k \in DOMAIN new <=>
            k \in DOMAIN full /\ (k \in DOMAIN ModelDefaults => full[k] # ModelDefaults[k])
      /\ \A k \in DOMAIN new :
            new[k] = IF k \in FloatKeys THEN Printed(full[k]) ELSE full[k]
  <2>1. DOMAIN ModelDefaults \subseteq DOMAIN full
    BY <1>2, <1>3
  <2>2. \A k \in DOMAIN ModelDefaults \cap FloatKeys : Printed(ModelDefaults[k]) = ModelDefaults[k]
    BY <1>2 DEF FloatKeys
  <2> DEFINE made == PrintedIn(WithoutDefaults(full, ModelDefaults))
             rounded == PrintedIn(full)
  <2>3. /\ \A k : k \in DOMAIN made <=>
              k \in DOMAIN full /\ (k \in DOMAIN ModelDefaults => full[k] # ModelDefaults[k])
        /\ \A k \in DOMAIN made : made[k] = rounded[k]
        /\ \A k \in DOMAIN full :
              rounded[k] = IF k \in FloatKeys THEN Printed(full[k]) ELSE full[k]
    BY <2>1, <2>2, WrittenTable
  <2>4. new = made
    OBVIOUS
  <2> HIDE DEF made, rounded, new
  <2>5. QED
    BY <2>3, <2>4
<1> HIDE DEF new
<1> DEFINE plain == {"base_url", "model", "api_key_env", "api_key_cmd", "context_window"}
<1>5. \A k \in plain \cup {"cost_per_1k"} : k \in DOMAIN new <=> k \in DOMAIN model
  BY <1>2, <1>3, <1>4
<1>6. \A k \in DOMAIN new \cap plain : k \in DOMAIN model /\ new[k] = model[k]
  BY <1>3, <1>4, <1>5 DEF FloatKeys
<1>7. At(new, "context_window", 1) = At(model, "context_window", 1)
  BY <1>5, <1>6 DEF At
<1>8. At(new, "cost_per_1k", 0) \in Nat
  <2>1. CASE "cost_per_1k" \in DOMAIN new
    <3>1. new["cost_per_1k"] = Printed(model["cost_per_1k"])
      BY <1>3, <1>4, <1>5, <2>1 DEF FloatKeys
    <3>2. model["cost_per_1k"] \in Nat
      BY <1>1, <1>5, <2>1 DEF At
    <3>3. QED
      BY <2>1, <3>1, <3>2, PrintedIs DEF At
  <2>2. CASE "cost_per_1k" \notin DOMAIN new
    BY <2>2 DEF At
  <2>3. QED
    BY <2>1, <2>2
<1>9. Fallbacks(new) = Fallbacks(model)
  <2>1. Fallbacks(model) = full["fallbacks"]
    BY <1>2, <1>3 DEF At, Fallbacks
  <2>2. "fallbacks" \in DOMAIN new => new["fallbacks"] = full["fallbacks"]
    BY <1>4 DEF FloatKeys
  <2>3. "fallbacks" \notin DOMAIN new => full["fallbacks"] = << >>
    BY <1>2, <1>3, <1>4
  <2>4. QED
    BY <2>1, <2>2, <2>3 DEF At, Fallbacks
<1>10. \A k \in DOMAIN new \cap StringKeys : new[k] # ""
  BY <1>1, <1>6 DEF StringKeys
<1>11. {"base_url", "model"} \subseteq DOMAIN new
  BY <1>1, <1>5
<1>12. "api_key_cmd" \in DOMAIN new => "api_key_env" \in DOMAIN new
  BY <1>1, <1>5
<1>13. QED
  BY <1>1, <1>7, <1>8, <1>9, <1>10, <1>11, <1>12 DEF ModelParses, new

(* What the gateway half of a text loads to, if its names and strings print *)
(* and its window does not vanish, is written as a text that loads to the   *)
(* same, at six decimals.                                                   *)
LEMMA GatewayLoadsBack ==
    ASSUME NEW text, IsText(text), GatewayParses(text), NEW gateway,
           gateway = GatewayFrom(text), NamesPrint(gateway),
           "rate_limit" \in DOMAIN gateway.settings =>
              Printed(gateway.settings.rate_limit.window) > 0,
           NEW shown, shown.toml = TRUE, shown.gateway = DumpGateway(gateway).gateway,
           shown.models = DumpGateway(gateway).models
    PROVE  /\ DumpGateway(gateway).toml = TRUE
           /\ GatewayParses(shown) /\ GatewayFrom(shown) = RoundedGateway(gateway)
<1> DEFINE names == DOMAIN text.models
           Full(name) == Over(text.models[name], ModelDefaults)
           made == [name \in DOMAIN gateway.models |-> DumpModel(gateway.models[name])]
           settings == gateway.settings
<1>1. settings = SettingsFrom(text.gateway)
      /\ gateway.models = [name \in names |-> Full(name)]
  BY DEF GatewayFrom
<1> HIDE DEF Full, names
<1>2. DOMAIN gateway.models = names /\ \A name \in names : gateway.models[name] = Full(name)
  BY <1>1
<1>3. /\ \A id \in DOMAIN settings.keys : Bare(id)
      /\ \A name \in names :
            /\ Bare(name)
            /\ \A string \in ModelStrings(Full(name)) : Plain(string)
  BY <1>2 DEF NamesPrint
<1>4. SettingsParse(text.gateway) /\ AreSettings(text.gateway)
      /\ \A name \in names : ModelParses(text.models, name) /\ IsModel(text.models[name])
  BY DEF GatewayParses, IsText, names
<1>5. HeadersParse(WrittenKeys(settings.keys))
  <2>1. IsTable(settings.keys)
    <3>1. settings.keys = IF "keys" \in DOMAIN text.gateway THEN text.gateway.keys ELSE << >>
      <4>1. "keys" \in DOMAIN DefaultGateway /\ DefaultGateway.keys = << >>
        BY DEF DefaultGateway
      <4>2. QED
        BY <1>1, <1>4, <4>1, SettingsAre
    <3>2. IsTable(<< >>)
      BY DEF IsTable
    <3>3. QED
      BY <1>4, <3>1, <3>2 DEF AreSettings
  <2>2. QED
    BY <1>3, <2>1, KeysShown
<1>6. /\ DOMAIN made = names
      /\ made = [name \in names |-> DumpModel(Full(name))]
      /\ IsTable(made)
  BY <1>2 DEF IsTable
<1> HIDE DEF made
<1>7. HeadersParse(made) /\ Headed(made) = made
  <2>1. \A name \in DOMAIN made : Bare(name)
    BY <1>3, <1>6
  <2>2. QED
    BY <1>6, <2>1, HeadersBare
<1>8. \A name \in DOMAIN gateway.models :
         \A string \in ModelStrings(gateway.models[name]) : Raw(string) # None
  <2>1. \A string : Plain(string) => Raw(string) # None
    BY DEF Plain, Some, None
  <2>2. QED
    BY <1>2, <1>3, <2>1
<1>9. DumpGateway(gateway) = [Empty EXCEPT !.gateway = DumpSettings(settings),
                                           !.models = Headed(made)]
  BY <1>5, <1>7, <1>8 DEF DumpGateway, made
<1>10. /\ DumpGateway(gateway).toml = TRUE
       /\ shown.gateway = DumpSettings(settings)
       /\ shown.models = [name \in names |-> DumpModel(Full(name))]
  <2>1. DumpGateway(gateway).models = made
    BY <1>7, <1>9 DEF Empty
  <2>2. DumpGateway(gateway).toml = TRUE /\ DumpGateway(gateway).gateway = DumpSettings(settings)
    BY <1>9 DEF Empty
  <2>3. QED
    BY <1>6, <2>1, <2>2
<1> HIDE DEF settings
<1>11. /\ SettingsParse(shown.gateway)
       /\ SettingsFrom(shown.gateway) = RoundedSettings(settings)
  <2>1. "rate_limit" \in DOMAIN settings => Printed(settings.rate_limit.window) > 0
    BY DEF settings
  <2>2. QED
    BY <1>1, <1>3, <1>4, <1>10, <2>1, SettingsLoadBack
<1>12. ASSUME NEW name \in names
       PROVE  /\ shown.models[name] = PrintedIn(WithoutDefaults(Full(name), ModelDefaults))
              /\ Over(shown.models[name], ModelDefaults) = PrintedIn(Full(name))
  <2>1. shown.models[name] = DumpModel(Full(name))
    BY <1>10, <1>12
  <2>2. IsModel(text.models[name]) /\ \A string \in ModelStrings(Full(name)) : Plain(string)
    BY <1>3, <1>4, <1>12
  <2>3. QED
    BY <2>1, <2>2, ModelShown DEF Full
<1>13. DOMAIN shown.models = names
  BY <1>10
<1>14. ASSUME NEW name \in DOMAIN shown.models PROVE ModelParses(shown.models, name)
  <2>1. ModelParses(text.models, name) /\ DOMAIN shown.models = DOMAIN text.models
    BY <1>4, <1>13, <1>14 DEF names
  <2>2. shown.models[name] = PrintedIn(WithoutDefaults(Full(name), ModelDefaults))
    BY <1>12, <1>13, <1>14
  <2>3. QED
    BY <2>1, <2>2, ModelWritten DEF Full
<1>15. GatewayParses(shown)
  BY <1>11, <1>14 DEF GatewayParses
<1>16. GatewayFrom(shown) = RoundedGateway(gateway)
  <2>1. [name \in DOMAIN shown.models |-> Over(shown.models[name], ModelDefaults)] =
        [name \in DOMAIN gateway.models |-> PrintedIn(gateway.models[name])]
    BY <1>2, <1>12, <1>13
  <2>2. QED
    BY <1>11, <2>1 DEF GatewayFrom, RoundedGateway, settings
<1>17. QED
  BY <1>10, <1>15, <1>16

-----------------------------------------------------------------------------
(* The routing half.                                                        *)

(* The default weights print as they are.                                   *)
LEMMA DefaultsPrint ==
    /\ DOMAIN FileWeights = FeatureNames
    /\ \A f \in FeatureNames : FileWeights[f] \in Nat /\ Printed(FileWeights[f]) = FileWeights[f]
    /\ FileWeights = [f \in FeatureNames |-> FileWeights[f]]
<1>1. FileWeights = [f \in FeatureNames |-> InGrains(50 * DefaultWeights[f])]
  BY DEF FileWeights
<1> HIDE DEF FileWeights
<1>2. \A f \in FeatureNames : FileWeights[f] = InGrains(50 * DefaultWeights[f])
  BY <1>1
<1>3. QED
  BY <1>1, <1>2, DefaultsAreNumbers, PrintedIs

LEMMA WeightsLoadBack ==
    ASSUME NEW table, WeightsParse(table), NEW weights, weights = WeightsOf(table), NEW shown,
           shown = IF weights = FileWeights THEN << >> ELSE PrintedWeights(weights)
    PROVE  WeightsParse(shown) /\ WeightsOf(shown) = PrintedWeights(weights)
<1>1. DOMAIN table \subseteq FeatureNames /\ \A f \in DOMAIN table : table[f] \in Nat
  BY DEF WeightsParse
<1>2. weights = [f \in FeatureNames |->
                   IF f \in DOMAIN table THEN table[f] ELSE FileWeights[f]]
  BY <1>1, DefaultsPrint DEF WeightsOf, Over
<1>3. DOMAIN weights = FeatureNames /\ \A f \in FeatureNames : weights[f] \in Nat
  BY <1>1, <1>2, DefaultsPrint
<1>4. PrintedWeights(weights) = [f \in FeatureNames |-> Printed(weights[f])]
  BY <1>3 DEF PrintedWeights
<1>5. CASE weights = FileWeights
  <2>1. shown = << >>
    BY <1>5
  <2>2. WeightsOf(shown) = [f \in FeatureNames |-> FileWeights[f]]
    <3>1. DOMAIN shown = {}
      BY <2>1
    <3> HIDE <2>1
    <3>2. QED
      BY <3>1, DefaultsPrint DEF WeightsOf, Over
  <2>3. PrintedWeights(weights) = [f \in FeatureNames |-> FileWeights[f]]
    BY <1>4, <1>5, DefaultsPrint
  <2>4. WeightsParse(shown)
    BY <2>1 DEF WeightsParse
  <2>5. QED
    BY <2>2, <2>3, <2>4
<1>6. CASE weights # FileWeights
  <2> DEFINE shorter == PrintedWeights(weights)
  <2>1. shown = shorter
    BY <1>6
  <2>2. DOMAIN shorter = FeatureNames /\ \A f \in FeatureNames : shorter[f] \in Nat
    BY <1>3, <1>4, PrintedIs
  <2>3. shorter = [f \in FeatureNames |-> shorter[f]]
    BY <1>4
  <2> HIDE DEF shorter
  <2>4. WeightsOf(shorter) = [f \in FeatureNames |-> shorter[f]]
    BY <2>2, DefaultsPrint DEF WeightsOf, Over
  <2>5. QED
    BY <2>1, <2>2, <2>3, <2>4 DEF WeightsParse, shorter
<1>7. QED
  BY <1>5, <1>6

LEMMA LexiconLoadsBack ==
    ASSUME NEW table, LexiconParses(table), \A k \in DOMAIN table : IsList(table[k]),
           NEW shown, shown = [k \in DOMAIN LexiconOf(table) |-> SetToSeq(LexiconOf(table)[k])]
    PROVE  /\ LexiconParses(shown) /\ LexiconOf(shown) = LexiconOf(table)
           /\ \A k \in DOMAIN shown : IsList(shown[k])
<1>1. DOMAIN shown = DOMAIN table /\ \A k \in DOMAIN table : shown[k] = SetToSeq(ToSet(table[k]))
  BY DEF LexiconOf
<1>2. ASSUME NEW k \in DOMAIN table
      PROVE  /\ IsList(shown[k]) /\ ToSet(shown[k]) = ToSet(table[k])
             /\ Len(shown[k]) <= MaxLexiconTerms
             /\ \A i \in DOMAIN shown[k] : shown[k][i] # ""
  <2> DEFINE s == table[k]
             t == SetToSeq(ToSet(s))
  <2>1. shown[k] = t
    BY <1>1, <1>2
  <2>2. Len(s) <= MaxLexiconTerms /\ \A i \in DOMAIN s : s[i] # ""
    BY <1>2 DEF LexiconParses
  <2>3. /\ IsList(t) /\ ToSet(t) = ToSet(s)
        /\ Len(t) <= Len(s) /\ Len(t) \in Nat /\ Len(s) \in Nat
    BY <1>2, ListedAgain
  <2>4. "" \notin ToSet(s)
    BY <2>2 DEF ToSet
  <2> HIDE DEF s, t
  <2>5. \A i \in DOMAIN t : t[i] \in ToSet(t)
    BY DEF ToSet
  <2>6. \A i \in DOMAIN t : t[i] # ""
    BY <2>3, <2>4, <2>5
  <2>7. Len(t) <= MaxLexiconTerms
    <3>1. MaxLexiconTerms \in Nat
      BY WorkspaceAssumption
    <3>2. \A l, m, n \in Nat : l <= m /\ m <= n => l <= n
      OBVIOUS
    <3>3. QED
      BY <2>2, <2>3, <3>1, <3>2, Zenon
  <2>8. QED
    BY <2>1, <2>3, <2>6, <2>7 DEF s
<1>3. LexiconParses(shown)
  BY <1>1, <1>2 DEF LexiconParses
<1>4. LexiconOf(shown) = LexiconOf(table)
  BY <1>1, <1>2 DEF LexiconOf
<1>5. QED
  BY <1>1, <1>2, <1>3, <1>4

(* What is written of a classifier, from its classes.                       *)
Regained(classes) ==
    [models |-> [c \in DOMAIN classes |-> classes[c].model],
     intercepts |-> [c \in DOMAIN classes |-> Printed(classes[c].intercept)],
     weights |-> [f \in FeatureNames |->
                     [c \in DOMAIN classes |-> Printed(classes[c].weights[f])]]]

RoundedClasses(classes) == [c \in DOMAIN classes |-> RoundedClass(classes[c])]

LEMMA ClassesAre ==
    ASSUME NEW classifier, IsList(classifier.models), ClassifierParses(classifier)
    PROVE  LET classes == ClassesOf(classifier)
           IN  /\ DOMAIN classes = 1..Len(classifier.models) /\ classes # << >>
               /\ Len(classifier.models) \in Nat
               /\ DOMAIN classes = DOMAIN classifier.models
               /\ \A c \in DOMAIN classes :
                     /\ classes[c].model = classifier.models[c]
                     /\ classes[c].intercept = classifier.intercepts[c]
                     /\ classes[c].weights = [f \in FeatureNames |-> classes[c].weights[f]]
                     /\ classes[c] = [model |-> classes[c].model,
                                      intercept |-> classes[c].intercept,
                                      weights |-> classes[c].weights]
               /\ classes = [c \in DOMAIN classes |-> classes[c]]
<1> DEFINE classes == ClassesOf(classifier)
           Of(c) == [f \in FeatureNames |->
                        IF f \in DOMAIN classifier.weights
                        THEN classifier.weights[f][c] ELSE 0]
<1>1. DOMAIN classifier.models = 1..Len(classifier.models) /\ Len(classifier.models) \in Nat
  BY ListIs
<1>2. Len(classifier.models) >= 2
  BY DEF ClassifierParses
<1>3. classes = [c \in DOMAIN classifier.models |->
                   [model |-> classifier.models[c], intercept |-> classifier.intercepts[c],
                    weights |-> Of(c)]]
  BY DEF ClassesOf
<1> HIDE DEF classes, Of
<1>4. DOMAIN classes = 1..Len(classifier.models) /\ DOMAIN classes = DOMAIN classifier.models
  BY <1>1, <1>3
<1>5. classes # << >>
  BY <1>1, <1>2, <1>4
<1>6. \A c \in DOMAIN classes :
         /\ classes[c].model = classifier.models[c]
         /\ classes[c].intercept = classifier.intercepts[c]
         /\ classes[c].weights = Of(c)
         /\ classes[c] = [model |-> classes[c].model, intercept |-> classes[c].intercept,
                          weights |-> classes[c].weights]
  BY <1>3
<1>7. classes = [c \in DOMAIN classes |-> classes[c]]
  BY <1>3
<1>8. \A c : Of(c) = [f \in FeatureNames |-> Of(c)[f]]
  BY DEF Of
<1>9. \A c \in DOMAIN classes :
         classes[c].weights = [f \in FeatureNames |-> classes[c].weights[f]]
  BY <1>6, <1>8
<1>10. QED
  BY <1>1, <1>4, <1>5, <1>6, <1>7, <1>9 DEF classes

LEMMA ClassifierLoadsBack ==
    ASSUME NEW classifier, IsList(classifier.models), ClassifierParses(classifier)
    PROVE  LET shown == Regained(ClassesOf(classifier))
           IN  /\ IsList(shown.models) /\ ClassifierParses(shown)
               /\ ClassesOf(shown) = RoundedClasses(ClassesOf(classifier))
<1> DEFINE classes == ClassesOf(classifier)
           shown == Regained(classes)
           n == Len(classifier.models)
<1>1. /\ DOMAIN classes = 1..n /\ n \in Nat /\ DOMAIN classes = DOMAIN classifier.models
      /\ \A c \in DOMAIN classes :
            /\ classes[c].model = classifier.models[c]
            /\ classes[c] = [model |-> classes[c].model, intercept |-> classes[c].intercept,
                             weights |-> classes[c].weights]
            /\ classes[c].weights = [f \in FeatureNames |-> classes[c].weights[f]]
  BY ClassesAre
<1>2. /\ n >= 2 /\ IsInjective(classifier.models)
      /\ \A c \in 1..n : classifier.models[c] # ""
  BY DEF ClassifierParses
<1> HIDE DEF classes, n
<1>3. /\ shown.models = [c \in 1..n |-> classes[c].model]
      /\ shown.intercepts = [c \in 1..n |-> Printed(classes[c].intercept)]
      /\ shown.weights = [f \in FeatureNames |->
                             [c \in 1..n |-> Printed(classes[c].weights[f])]]
  BY <1>1 DEF Regained
<1> HIDE DEF shown
<1>4. IsList(shown.models) /\ Len(shown.models) = n /\ DOMAIN shown.models = 1..n
  <2>1. shown.models = [c \in 1..n |-> shown.models[c]] /\ DOMAIN shown.models = 1..n
    BY <1>3
  <2>2. QED
    BY <1>1, <2>1, ListIs
<1>5. Len(shown.intercepts) = n
  <2>1. shown.intercepts = [c \in 1..n |-> shown.intercepts[c]]
    BY <1>3
  <2>2. QED
    BY <1>1, <2>1, ListIs
<1>6. \A f \in FeatureNames : Len(shown.weights[f]) = n
  <2>1. ASSUME NEW f \in FeatureNames PROVE Len(shown.weights[f]) = n
    <3> DEFINE s == shown.weights[f]
    <3>1. s = [c \in 1..n |-> Printed(classes[c].weights[f])]
      BY <1>3, <2>1
    <3> HIDE DEF s
    <3>2. s = [c \in 1..n |-> s[c]]
      BY <3>1
    <3>3. Len(s) = n
      BY <1>1, <3>2, ListIs
    <3>4. QED
      BY <3>3 DEF s
  <2>2. QED
    BY <2>1
<1>7. \A c \in 1..n : shown.models[c] = classifier.models[c]
  BY <1>1, <1>3
<1>8. ClassifierParses(shown)
  <2>1. IsInjective(shown.models)
    BY <1>1, <1>2, <1>4, <1>7 DEF IsInjective
  <2>2. \A c \in 1..n : shown.models[c] # ""
    BY <1>2, <1>7
  <2>3. DOMAIN shown.weights = FeatureNames
    BY <1>3
  <2>4. QED
    BY <1>2, <1>4, <1>5, <1>6, <2>1, <2>2, <2>3 DEF ClassifierParses
<1>9. ClassesOf(shown) = RoundedClasses(classes)
  <2> DEFINE Of(c) == [f \in FeatureNames |->
                         IF f \in DOMAIN shown.weights THEN shown.weights[f][c] ELSE 0]
             again == ClassesOf(shown)
  <2>1. again = [c \in 1..n |-> [model |-> shown.models[c], intercept |-> shown.intercepts[c],
                                 weights |-> Of(c)]]
    BY <1>4 DEF ClassesOf
  <2>2. \A c \in 1..n : Of(c) = PrintedWeights(classes[c].weights)
    <3>1. ASSUME NEW c \in 1..n PROVE Of(c) = PrintedWeights(classes[c].weights)
      <4>1. \A f \in FeatureNames : f \in DOMAIN shown.weights
                                    /\ shown.weights[f][c] = Printed(classes[c].weights[f])
        BY <1>3, <3>1
      <4>2. Of(c) = [f \in FeatureNames |-> Printed(classes[c].weights[f])]
        BY <4>1
      <4>3. DOMAIN classes[c].weights = FeatureNames
        BY <1>1, <3>1
      <4>4. QED
        BY <4>2, <4>3 DEF PrintedWeights
    <3>2. QED
      BY <3>1
  <2> HIDE DEF Of
  <2>3. \A c \in 1..n :
           RoundedClass(classes[c]) = [model |-> classes[c].model,
                                       intercept |-> Printed(classes[c].intercept),
                                       weights |-> PrintedWeights(classes[c].weights)]
    BY DEF RoundedClass
  <2> HIDE DEF again
  <2>4. \A c \in 1..n :
           /\ shown.models[c] = classes[c].model
           /\ shown.intercepts[c] = Printed(classes[c].intercept)
    BY <1>3
  <2>5. again = [c \in 1..n |-> RoundedClass(classes[c])]
    BY <2>1, <2>2, <2>3, <2>4
  <2>6. QED
    BY <1>1, <2>5 DEF again, RoundedClasses
<1>10. QED
  BY <1>4, <1>8, <1>9 DEF shown, classes

-----------------------------------------------------------------------------
(* A ladder that the parser takes, but that its steps may not rise.         *)
Steps(tiers) ==
    /\ IsLadder(tiers) /\ tiers # << >>
    /\ \A i \in DOMAIN tiers : /\ InUnit(tiers[i].min_score)
                               /\ tiers[i].model # ""
                               /\ tiers[i].cost # None => tiers[i].cost[1] \in Nat
    /\ tiers[1].min_score = 0

Rises(tiers) ==
    \A i \in 1..(Len(tiers) - 1) :
        Printed(tiers[i].min_score) < Printed(tiers[i + 1].min_score)

(* A ladder at six decimals is a ladder, and parses if its steps still rise. *)
LEMMA PrintedTiersAre ==
    ASSUME NEW tiers, IsLadder(tiers)
    PROVE  /\ IsLadder(PrintedTiers(tiers))
           /\ Steps(tiers) /\ Rises(tiers) => TiersParse(PrintedTiers(tiers))
<1> DEFINE shown == PrintedTiers(tiers)
           n == Len(tiers)
<1>1. IsList(tiers) /\ \A i \in DOMAIN tiers : IsOption(tiers[i].cost)
  BY DEF IsLadder
<1>2. DOMAIN tiers = 1..n /\ n \in Nat
  BY <1>1, ListIs
<1>3. shown = [i \in DOMAIN tiers |->
                [min_score |-> Printed(tiers[i].min_score), model |-> tiers[i].model,
                 cost |-> MapOption(Printed, tiers[i].cost)]]
  BY DEF PrintedTiers
<1> HIDE DEF shown, n
<1>4. DOMAIN shown = 1..n /\ shown = [i \in 1..n |-> shown[i]]
  BY <1>2, <1>3
<1>5. \A i \in 1..n :
         /\ DOMAIN shown[i] = {"min_score", "model", "cost"}
         /\ shown[i].min_score = Printed(tiers[i].min_score)
         /\ shown[i].model = tiers[i].model
         /\ shown[i].cost = MapOption(Printed, tiers[i].cost)
  BY <1>2, <1>3
<1>6. IsList(shown) /\ Len(shown) = n
  BY <1>2, <1>4, ListIs
<1>7. ASSUME NEW cost, IsOption(cost)
      PROVE  /\ cost = None => MapOption(Printed, cost) = None
             /\ cost # None => /\ MapOption(Printed, cost) = Some(Printed(cost[1]))
                               /\ MapOption(Printed, cost) # None
  <2> DEFINE made == MapOption(Printed, cost)
  <2>1. made = [i \in DOMAIN cost |-> Printed(cost[i])]
    BY DEF MapOption
  <2> HIDE DEF made
  <2>2. CASE cost = None
    BY <2>1, <2>2 DEF None, made
  <2>3. CASE cost # None
    <3>1. cost = <<cost[1]>>
      BY <1>7, <2>3 DEF IsOption, Some
    <3>2. DOMAIN cost = {1}
      BY <3>1
    <3>3. made = <<Printed(cost[1])>>
      BY <2>1, <3>2
    <3>4. QED
      BY <2>3, <3>3 DEF Some, None, made
  <2>4. QED
    BY <2>2, <2>3
<1>8. \A i \in 1..n :
         /\ tiers[i].cost = None => shown[i].cost = None
         /\ tiers[i].cost # None => shown[i].cost = Some(Printed(tiers[i].cost[1]))
  BY <1>1, <1>2, <1>5, <1>7
<1>9. IsLadder(shown)
  <2>1. \A i \in 1..n : IsOption(shown[i].cost)
    <3>1. \A x : Some(x)[1] = x
      BY DEF Some
    <3>2. QED
      BY <1>8, <3>1 DEF IsOption
  <2>2. QED
    BY <1>4, <1>5, <1>6, <2>1 DEF IsLadder
<1>10. ASSUME Steps(tiers), Rises(tiers) PROVE TiersParse(shown)
  <2>1. shown # << >> /\ n >= 1
    <3>1. n # 0
      <4>1. tiers = [i \in 1..n |-> tiers[i]] /\ tiers # << >>
        BY <1>1, <1>10, ListIs DEF Steps, n
      <4>2. n = 0 => tiers = << >>
        BY <4>1
      <4>3. QED
        BY <4>1, <4>2
    <3>2. QED
      BY <1>2, <1>4, <3>1
  <2>2. \A i \in 1..n : /\ InUnit(shown[i].min_score) /\ shown[i].model # ""
                        /\ shown[i].cost # None => shown[i].cost[1] \in Nat
    <3>1. ASSUME NEW i \in 1..n
          PROVE  /\ InUnit(shown[i].min_score) /\ shown[i].model # ""
                 /\ shown[i].cost # None => shown[i].cost[1] \in Nat
      <4>1. InUnit(shown[i].min_score) /\ shown[i].model # ""
        BY <1>2, <1>5, <1>10, <3>1, PrintedIs DEF Steps, InUnit
      <4>2. ASSUME shown[i].cost # None PROVE shown[i].cost[1] \in Nat
        <5>1. tiers[i].cost # None
          BY <1>8, <3>1, <4>2
        <5>2. tiers[i].cost[1] \in Nat
          BY <1>2, <1>10, <3>1, <5>1 DEF Steps
        <5>3. shown[i].cost[1] = Printed(tiers[i].cost[1])
          BY <1>8, <3>1, <5>1 DEF Some
        <5>4. QED
          BY <5>2, <5>3, PrintedIs
      <4>3. QED
        BY <4>1, <4>2
    <3>2. QED
      BY <3>1
  <2>3. shown[1].min_score = 0
    <3>1. 1 \in 1..n
      BY <1>2, <2>1
    <3>2. tiers[1].min_score = 0
      BY <1>10 DEF Steps
    <3>3. shown[1].min_score = Printed(0)
      BY <1>5, <3>1, <3>2
    <3>4. QED
      BY <3>3, PrintedIs
  <2>4. \A i \in 1..(n - 1) : shown[i].min_score < shown[i + 1].min_score
    <3>1. \A i \in 1..(n - 1) : i \in 1..n /\ i + 1 \in 1..n
      BY <1>2
    <3>2. QED
      BY <1>5, <1>10, <3>1 DEF Rises, n
  <2>5. QED
    BY <1>4, <1>6, <2>1, <2>2, <2>3, <2>4 DEF TiersParse
<1>11. QED
  BY <1>9, <1>10 DEF shown

LEMMA BinarySteps ==
    ASSUME NEW n \in 0..One
    PROVE  Steps(Binary(n))
<1> DEFINE tiers == Binary(n)
<1>1. tiers = [i \in {1, 2} |->
                 [min_score |-> IF i = 1 THEN 0 ELSE n,
                  model |-> IF i = 1 THEN "local" ELSE "cloud", cost |-> None]]
  BY DEF Binary, Costless, BinaryTiers
<1> HIDE DEF tiers
<1>2. DOMAIN tiers = 1..2 /\ tiers = [i \in 1..2 |-> tiers[i]]
  BY <1>1
<1>3. IsList(tiers)
  BY <1>2, ListIs
<1>4. /\ tiers[1].min_score = 0
      /\ \A i \in 1..2 : /\ tiers[i].min_score \in {0, n} /\ tiers[i].cost = None
                         /\ tiers[i].model \in {"local", "cloud"}
                         /\ DOMAIN tiers[i] = {"min_score", "model", "cost"}
  BY <1>1
<1>5. tiers # << >>
  BY <1>2
<1>6. \A i \in 1..2 : InUnit(tiers[i].min_score) /\ tiers[i].model # "" /\ tiers[i].cost = None
  <2>1. \A m \in {0, n} : m \in 0..One
    BY PrintedIs
  <2>2. "local" # "" /\ "cloud" # ""
    OBVIOUS
  <2>3. QED
    BY <1>4, <2>1, <2>2 DEF InUnit
<1>7. IsLadder(tiers)
  BY <1>2, <1>3, <1>4 DEF IsLadder, IsOption
<1>8. QED
  BY <1>2, <1>4, <1>5, <1>6, <1>7 DEF Steps, tiers

-----------------------------------------------------------------------------
(* A configuration as it was loaded from a text, with the ladder that the   *)
(* text or the defaults give it.                                            *)
Ladders(text) ==
    IF text.classifier # None THEN {Binary(DefaultThreshold)}
    ELSE IF text.tiers # None THEN {text.tiers[1]}
    ELSE {Binary(n) : n \in 0..One}

Loaded(loaded, text) ==
    /\ \E tiers \in Ladders(text) :
          loaded.routing =
             [weights |-> WeightsOf(text.weights), lexicon |-> LexiconOf(text.lexicon),
              classifier |-> IF text.classifier = None THEN << >>
                             ELSE ClassesOf(text.classifier[1]),
              tiers |-> tiers]
    /\ loaded = [routing |-> loaded.routing, gateway |-> GatewayFrom(text)]

LEMMA LoadedIs ==
    ASSUME NEW text, Loads(text)
    PROVE  Loaded(LoadedFrom(text), text)
<1> DEFINE tiers == RoutingFrom(text).tiers
<1>1. tiers \in Ladders(text)
  <2>1. CASE text.classifier # None
    BY <2>1 DEF RoutingFrom, Ladders
  <2>2. CASE text.classifier = None /\ text.tiers # None
    BY <2>2 DEF RoutingFrom, Ladders, OrElse
  <2>3. CASE text.classifier = None /\ text.tiers = None
    <3>1. ThresholdParses(text)
      BY <2>3 DEF Loads, RoutingParses
    <3>2. BinaryThreshold(text) \in 0..One
      BY <3>1, WorkspaceAssumption DEF BinaryThreshold, OrElse, ThresholdParses, InUnit
    <3>3. tiers = Binary(BinaryThreshold(text))
      BY <2>3 DEF RoutingFrom, OrElse
    <3>4. QED
      BY <2>3, <3>2, <3>3 DEF Ladders
  <2>4. QED
    BY <2>1, <2>2, <2>3
<1>2. RoutingFrom(text) =
         [weights |-> WeightsOf(text.weights), lexicon |-> LexiconOf(text.lexicon),
          classifier |-> IF text.classifier = None THEN << >>
                         ELSE ClassesOf(text.classifier[1]),
          tiers |-> tiers]
  BY DEF RoutingFrom
<1>3. LoadedFrom(text) = [routing |-> RoutingFrom(text), gateway |-> GatewayFrom(text)]
  BY DEF LoadedFrom
<1> HIDE DEF tiers
<1>4. QED
  BY <1>1, <1>2, <1>3 DEF Loaded

LEMMA DefaultsAreLoaded == Loaded(Defaults, Empty)
<1>1. /\ Empty.classifier = None /\ Empty.tiers = None
  BY DEF Empty
<1>2. Binary(DefaultThreshold) \in Ladders(Empty)
  BY <1>1, WorkspaceAssumption DEF Ladders, InUnit
<1>3. [RoutingFrom(Empty) EXCEPT !.tiers = Binary(DefaultThreshold)] =
         [weights |-> WeightsOf(Empty.weights), lexicon |-> LexiconOf(Empty.lexicon),
          classifier |-> IF Empty.classifier = None THEN << >>
                         ELSE ClassesOf(Empty.classifier[1]),
          tiers |-> Binary(DefaultThreshold)]
  BY DEF RoutingFrom
<1>4. Defaults = [routing |-> [RoutingFrom(Empty) EXCEPT !.tiers = Binary(DefaultThreshold)],
                  gateway |-> GatewayFrom(Empty)]
  BY DEF Defaults
<1>5. QED
  BY <1>2, <1>3, <1>4 DEF Loaded

(* The classifier and the ladder of what is shown.                          *)
LEMMA ClassifierShown ==
    ASSUME NEW text, IsText(text), RoutingParses(text), NEW classes,
           classes = IF text.classifier = None THEN << >> ELSE ClassesOf(text.classifier[1]),
           NEW shown,
           shown = IF classes = << >> THEN None ELSE Some(Regained(classes))
    PROVE  /\ shown = None <=> text.classifier = None
           /\ shown # None => /\ IsList(shown[1].models) /\ ClassifierParses(shown[1])
                              /\ ClassesOf(shown[1]) = RoundedClasses(classes)
           /\ shown = None <=> classes = << >>
<1>1. CASE text.classifier = None
  BY <1>1 DEF None
<1>2. CASE text.classifier # None
  <2> DEFINE classifier == text.classifier[1]
             made == Regained(classes)
  <2>1. IsList(classifier.models) /\ ClassifierParses(classifier) /\ classes = ClassesOf(classifier)
    BY <1>2 DEF IsText, RoutingParses
  <2> HIDE DEF classifier
  <2>2. classes # << >>
    BY <2>1, ClassesAre
  <2>3. IsList(made.models) /\ ClassifierParses(made) /\ ClassesOf(made) = RoundedClasses(classes)
    BY <2>1, ClassifierLoadsBack
  <2> HIDE DEF made
  <2>4. shown = Some(made)
    BY <2>2 DEF made
  <2>5. shown # None /\ shown[1] = made
    BY <2>4 DEF Some, None
  <2>6. QED
    BY <1>2, <2>2, <2>3, <2>5
<1>3. QED
  BY <1>1, <1>2

LEMMA LadderSteps ==
    ASSUME NEW text, IsText(text), RoutingParses(text), NEW tiers \in Ladders(text)
    PROVE  IsLadder(tiers) /\ (text.classifier = None => Steps(tiers))
<1>1. CASE text.classifier # None
  <2>1. tiers = Binary(DefaultThreshold)
    BY <1>1 DEF Ladders
  <2>2. Steps(tiers)
    BY <2>1, BinarySteps, WorkspaceAssumption DEF InUnit
  <2>3. QED
    BY <2>2 DEF Steps
<1>2. CASE text.classifier = None /\ text.tiers # None
  <2>1. tiers = text.tiers[1] /\ TiersParse(tiers)
    BY <1>2 DEF Ladders, RoutingParses
  <2>2. IsLadder(tiers)
    BY <1>2, <2>1 DEF IsText
  <2>3. QED
    BY <2>1, <2>2 DEF Steps, TiersParse
<1>3. CASE text.classifier = None /\ text.tiers = None
  <2>1. PICK n \in 0..One : tiers = Binary(n)
    BY <1>3 DEF Ladders
  <2>2. Steps(tiers)
    BY <2>1, BinarySteps
  <2>3. QED
    BY <2>2 DEF Steps
<1>4. QED
  BY <1>1, <1>2, <1>3

(* The empty file loads, as long as the environment names no threshold that *)
(* is none.                                                                 *)
LEMMA EmptyLoads == IsText(Empty) /\ Loads(Empty)
<1>1. WeightsParse(<< >>) /\ LexiconParses(<< >>)
  BY DEF WeightsParse, LexiconParses
<1>2. RoutingParses(Empty)
  BY <1>1, WorkspaceAssumption DEF RoutingParses, Empty, None, ThresholdParses
<1>3. SettingsParse(<< >>)
  BY DEF SettingsParse, At, FailoverPolicies
<1>4. GatewayParses(Empty)
  BY <1>3 DEF GatewayParses, Empty
<1>5. IsText(Empty)
  BY DEF IsText, Empty, None, AreSettings
<1>6. QED
  BY <1>2, <1>4, <1>5 DEF Loads

LEMMA TornIsText ==
    /\ IsText(Torn)
    /\ Torn.gateway = << >> /\ Torn.models = << >> /\ Torn.toml = FALSE
<1>1. IsText(Empty) /\ DOMAIN Torn = DOMAIN Empty
      /\ Torn.lexicon = Empty.lexicon /\ Torn.classifier = Empty.classifier
      /\ Torn.tiers = Empty.tiers /\ Torn.gateway = Empty.gateway
      /\ Torn.models = Empty.models
  BY EmptyLoads DEF Torn, Empty
<1>2. Torn.gateway = << >> /\ Torn.models = << >> /\ Torn.toml = FALSE
  BY DEF Torn, Empty
<1>3. QED
  BY <1>1, <1>2 DEF IsText

(* Whatever the gateway is, what is written of it is a gateway half.        *)
LEMMA GatewayIsText ==
    ASSUME NEW text, IsText(text), GatewayParses(text), NEW gateway,
           gateway = GatewayFrom(text), NEW dumped, dumped = DumpGateway(gateway)
    PROVE  AreSettings(dumped.gateway) /\ \A name \in DOMAIN dumped.models : IsModel(dumped.models[name])
<1> DEFINE settings == gateway.settings
           table == text.gateway
           written == DumpSettings(settings)
           made == [name \in DOMAIN gateway.models |-> DumpModel(gateway.models[name])]
<1>1. settings = SettingsFrom(table)
      /\ gateway.models = [name \in DOMAIN text.models |-> Over(text.models[name], ModelDefaults)]
  BY DEF GatewayFrom
<1>2. \/ dumped = Torn
      \/ dumped.gateway = written /\ dumped.models = Headed(made)
  BY DEF DumpGateway, Empty
<1>3. SettingsParse(table) /\ AreSettings(table)
  BY DEF GatewayParses, IsText
<1>4. AreSettings(written)
  <2> DEFINE limit == settings.rate_limit
  <2>1. /\ DOMAIN DefaultGateway \subseteq DOMAIN settings
        /\ "rate_limit" \in DOMAIN settings =>
              "rate_limit" \in DOMAIN table /\ limit = Over(table.rate_limit, LimitDefaults)
    <3> HIDE DEF table
    <3>1. settings = SettingsFrom(table) /\ SettingsParse(table)
      BY <1>1, <1>3
    <3> HIDE DEF settings
    <3>2. QED
      BY <3>1, SettingsAre
  <2> DEFINE keys == KeysRead(settings.keys)
  <2>2. IsTable(keys)
    BY DEF IsTable, KeysRead
  <2> HIDE DEF settings, keys
  <2>3. /\ DOMAIN written \subseteq DOMAIN settings
        /\ "rate_limit" \in DOMAIN written => written.rate_limit =
              PrintedIn(WithoutDefaults(limit, LimitDefaults))
        /\ "keys" \in DOMAIN written => written.keys = keys
    <3> HIDE DEF written, limit
    <3>1. /\ \A k : k \in DOMAIN DumpSettings(settings) => k \in DOMAIN settings
          /\ "rate_limit" \in DOMAIN DumpSettings(settings) =>
                DumpSettings(settings).rate_limit =
                   PrintedIn(WithoutDefaults(settings.rate_limit, LimitDefaults))
          /\ "keys" \in DOMAIN DumpSettings(settings) =>
                DumpSettings(settings).keys = KeysRead(settings.keys)
      BY <2>1, SettingsDumped
    <3>2. QED
      BY <3>1 DEF written, limit, keys
  <2> HIDE DEF written
  <2>4. ASSUME "rate_limit" \in DOMAIN written
        PROVE  DOMAIN written.rate_limit \subseteq {"rpm", "tpm", "window"}
    <3>1. limit = Over(table.rate_limit, LimitDefaults)
          /\ DOMAIN table.rate_limit \subseteq {"rpm", "tpm", "window"}
      <4>1. "rate_limit" \in DOMAIN table /\ limit = Over(table.rate_limit, LimitDefaults)
        BY <2>1, <2>3, <2>4
      <4>2. QED
        BY <1>3, <4>1 DEF AreSettings
    <3> HIDE DEF limit, table
    <3>2. DOMAIN limit \subseteq {"rpm", "tpm", "window"}
      BY <3>1 DEF Over, LimitDefaults
    <3>3. DOMAIN PrintedIn(WithoutDefaults(limit, LimitDefaults)) \subseteq DOMAIN limit
      BY DEF PrintedIn, WithoutDefaults, Restrict
    <3>4. QED
      BY <2>3, <2>4, <3>2, <3>3
  <2>5. QED
    BY <2>2, <2>3, <2>4 DEF AreSettings
<1>5. ASSUME NEW name \in DOMAIN made PROVE IsModel(made[name])
  <2> DEFINE full == gateway.models[name]
             first == PrintedIn(WithoutDefaults(full, ModelDefaults))
             Strings(list) == [i \in DOMAIN list |-> ReadRaw(list[i])]
  <2>1. made[name] = DumpModel(full) /\ name \in DOMAIN text.models
        /\ full = Over(text.models[name], ModelDefaults)
    BY <1>1, <1>5
  <2>2. IsModel(text.models[name])
    BY <2>1 DEF IsText
  <2>3. "fallbacks" \in DOMAIN full /\ IsList(full.fallbacks)
    <3>1. IsList(<< >>)
      BY DEF IsList, ToSet
    <3>2. DOMAIN ModelDefaults = {"fallbacks", "enabled"} /\ ModelDefaults.fallbacks = << >>
      BY DEF ModelDefaults
    <3>3. QED
      BY <2>1, <2>2, <3>1, <3>2 DEF IsModel, Over
  <2> HIDE DEF full
  <2>4. ASSUME "fallbacks" \in DOMAIN DumpModel(full)
        PROVE  IsList(DumpModel(full).fallbacks)
    <3>1. DOMAIN first = {k \in DOMAIN full : k \in DOMAIN ModelDefaults => full[k] # ModelDefaults[k]}
      BY DEF PrintedIn, WithoutDefaults, Restrict
    <3>2. "fallbacks" \in DOMAIN first => first["fallbacks"] = full.fallbacks
      BY DEF PrintedIn, WithoutDefaults, Restrict, FloatKeys
    <3>3. DumpModel(full) = [k \in DOMAIN first |->
            CASE k \in StringKeys -> ReadRaw(first[k])
              [] k = "fallbacks" -> Strings(first[k])
              [] OTHER -> first[k]]
      BY DEF DumpModel
    <3> HIDE DEF first, Strings
    <3>4. DumpModel(full)["fallbacks"] = Strings(full.fallbacks)
      BY <2>4, <3>2, <3>3 DEF StringKeys
    <3>5. IsList(Strings(full.fallbacks))
      <4> DEFINE list == full.fallbacks
                 n == Len(list)
                 s == Strings(list)
      <4>1. DOMAIN list = 1..n /\ n \in Nat
        BY <2>3, ListIs
      <4>2. s = [i \in DOMAIN list |-> ReadRaw(list[i])]
        BY DEF Strings
      <4> HIDE DEF list, n, s
      <4>3. s = [i \in 1..n |-> s[i]]
        BY <4>1, <4>2
      <4>4. IsList(s)
        BY <4>1, <4>3, ListIs
      <4>5. QED
        BY <4>4 DEF s, list
    <3>6. QED
      BY <3>4, <3>5
  <2>5. QED
    BY <2>1, <2>4 DEF IsModel
<1>6. ASSUME NEW key \in DOMAIN Headed(made) PROVE IsModel(Headed(made)[key])
  <2> DEFINE Named(k) == {n \in DOMAIN made : KeyPath(n) = <<k>>}
             Of(k) == IF Named(k) = {} THEN << >> ELSE made[CHOOSE n \in Named(k) : TRUE]
  <2>1. Headed(made)[key] = Of(key)
    BY <1>6 DEF Headed
  <2>2. IsModel(<< >>)
    BY DEF IsModel
  <2>3. Named(key) # {} => (CHOOSE n \in Named(key) : TRUE) \in Named(key)
    OBVIOUS
  <2>4. Named(key) \subseteq DOMAIN made
    OBVIOUS
  <2> HIDE DEF Named, made
  <2>5. QED
    BY <1>5, <2>1, <2>2, <2>3, <2>4
<1>7. QED
  <2>1. AreSettings(Torn.gateway) /\ \A name \in DOMAIN Torn.models : IsModel(Torn.models[name])
    BY TornIsText DEF IsText
  <2> HIDE DEF written, made
  <2>2. QED
    BY <1>2, <1>4, <1>6, <2>1

(* What is loaded is shown as a text.                                       *)
LEMMA ShownIsText ==
    ASSUME NEW text, IsText(text), Loads(text), NEW loaded, Loaded(loaded, text)
    PROVE  IsText(CurrentText(loaded))
<1> DEFINE routing == loaded.routing
           classes == IF text.classifier = None THEN << >> ELSE ClassesOf(text.classifier[1])
           half == DumpRouting(routing)
           gateway == DumpGateway(loaded.gateway)
           shown == CurrentText(loaded)
<1>1. PICK tiers \in Ladders(text) :
         routing = [weights |-> WeightsOf(text.weights), lexicon |-> LexiconOf(text.lexicon),
                    classifier |-> classes, tiers |-> tiers]
  BY DEF Loaded
<1> HIDE DEF classes
<1>2. /\ routing.lexicon = LexiconOf(text.lexicon)
      /\ routing.classifier = classes /\ routing.tiers = tiers
  BY <1>1
<1>3. RoutingParses(text) /\ GatewayParses(text) /\ loaded.gateway = GatewayFrom(text)
  BY DEF Loads, Loaded
<1> HIDE DEF routing
<1>4. \/ half = Torn
      \/ /\ DOMAIN half = DOMAIN Empty
         /\ half.lexicon = [k \in DOMAIN routing.lexicon |-> SetToSeq(routing.lexicon[k])]
         /\ half.classifier = IF routing.classifier = << >> THEN None
                              ELSE Some(Regained(routing.classifier))
         /\ half.tiers = IF routing.classifier # << >> THEN None
                         ELSE Some(PrintedTiers(routing.tiers))
  BY DEF DumpRouting, HasClassifier, Regained, Empty
<1> HIDE DEF half, gateway
<1>5. /\ DOMAIN half = DOMAIN Empty
      /\ \A k \in DOMAIN half.lexicon : IsList(half.lexicon[k])
      /\ half.classifier # None => IsList(half.classifier[1].models)
      /\ half.tiers # None => IsLadder(half.tiers[1])
  <2>1. CASE half = Torn
    BY <2>1, TornIsText DEF IsText
  <2>2. CASE half # Torn
    <3>1. \A k \in DOMAIN half.lexicon : IsList(half.lexicon[k])
      <4>1. LexiconParses(text.lexicon) /\ \A k \in DOMAIN text.lexicon : IsList(text.lexicon[k])
        BY <1>3 DEF IsText, RoutingParses
      <4>2. half.lexicon = [k \in DOMAIN LexiconOf(text.lexicon) |->
                               SetToSeq(LexiconOf(text.lexicon)[k])]
        BY <1>2, <1>4, <2>2
      <4>3. QED
        BY <4>1, <4>2, LexiconLoadsBack
    <3>2. half.classifier # None => IsList(half.classifier[1].models)
      <4>1. half.classifier = IF classes = << >> THEN None ELSE Some(Regained(classes))
        BY <1>2, <1>4, <2>2
      <4>2. classes = IF text.classifier = None THEN << >> ELSE ClassesOf(text.classifier[1])
        BY DEF classes
      <4>3. QED
        BY <1>3, <4>1, <4>2, ClassifierShown
    <3>3. half.tiers # None => IsLadder(half.tiers[1])
      <4>1. IsLadder(PrintedTiers(tiers))
        BY <1>3, LadderSteps, PrintedTiersAre
      <4>2. half.tiers = None \/ half.tiers = Some(PrintedTiers(tiers))
        BY <1>2, <1>4, <2>2
      <4>3. QED
        BY <4>1, <4>2 DEF Some
    <3>4. QED
      BY <1>4, <2>2, <3>1, <3>2, <3>3
  <2>3. QED
    BY <2>1, <2>2
<1>6. AreSettings(gateway.gateway) /\ \A name \in DOMAIN gateway.models : IsModel(gateway.models[name])
  BY <1>3, GatewayIsText DEF gateway
<1>7. /\ DOMAIN shown = DOMAIN half /\ shown.lexicon = half.lexicon
      /\ shown.classifier = half.classifier /\ shown.tiers = half.tiers
      /\ shown.gateway = gateway.gateway /\ shown.models = gateway.models
  <2>1. shown = [half EXCEPT !.toml = @ /\ gateway.toml, !.gateway = gateway.gateway,
                             !.models = gateway.models]
    BY DEF CurrentText, half, gateway, routing
  <2>2. {"toml", "gateway", "models"} \subseteq DOMAIN half
    BY <1>5 DEF Empty
  <2> HIDE DEF shown
  <2>3. QED
    BY <2>1, <2>2
<1> HIDE DEF shown
<1>8. QED
  BY <1>5, <1>6, <1>7 DEF IsText, shown

(* If it prints, it loads back from that text, at six decimals.             *)
LEMMA ShownIs ==
    ASSUME NEW text, IsText(text), Loads(text), NEW loaded, Loaded(loaded, text),
           Printable(loaded)
    PROVE  Loads(CurrentText(loaded)) /\ LoadedFrom(CurrentText(loaded)) = Rounded(loaded)
<1> DEFINE routing == loaded.routing
           classes == IF text.classifier = None THEN << >> ELSE ClassesOf(text.classifier[1])
           half == DumpRouting(routing)
           gateway == DumpGateway(loaded.gateway)
           shown == CurrentText(loaded)
<1>1. PICK tiers \in Ladders(text) :
         routing = [weights |-> WeightsOf(text.weights), lexicon |-> LexiconOf(text.lexicon),
                    classifier |-> classes, tiers |-> tiers]
  BY DEF Loaded
<1> HIDE DEF classes
<1>2. /\ routing.weights = WeightsOf(text.weights)
      /\ routing.lexicon = LexiconOf(text.lexicon)
      /\ routing.classifier = classes /\ routing.tiers = tiers
  BY <1>1
<1>3. RoutingParses(text) /\ GatewayParses(text) /\ loaded.gateway = GatewayFrom(text)
  BY DEF Loads, Loaded
<1>4. /\ \A string \in RoutingStrings(routing) : Debugged(string)
      /\ NamesPrint(loaded.gateway)
      /\ classes = << >> => Rises(tiers)
      /\ "rate_limit" \in DOMAIN loaded.gateway.settings =>
            Printed(loaded.gateway.settings.rate_limit.window) > 0
  BY <1>2 DEF Printable, NumbersPrint, HasClassifier, Rises
<1> HIDE DEF routing
<1>5. /\ DOMAIN half = DOMAIN Empty /\ half.toml = TRUE /\ half.threshold = None
      /\ half.weights = IF routing.weights = FileWeights THEN << >>
                        ELSE PrintedWeights(routing.weights)
      /\ half.lexicon = [k \in DOMAIN routing.lexicon |-> SetToSeq(routing.lexicon[k])]
      /\ half.classifier = IF routing.classifier = << >> THEN None
                           ELSE Some(Regained(routing.classifier))
      /\ half.tiers = IF routing.classifier # << >> THEN None
                      ELSE Some(PrintedTiers(routing.tiers))
  BY <1>4 DEF DumpRouting, HasClassifier, Regained, Empty
<1> HIDE DEF half
<1>6. /\ DOMAIN shown = DOMAIN Empty /\ shown.toml = (half.toml /\ gateway.toml)
      /\ shown.threshold = None /\ shown.weights = half.weights
      /\ shown.lexicon = half.lexicon /\ shown.classifier = half.classifier
      /\ shown.tiers = half.tiers
      /\ shown.gateway = gateway.gateway /\ shown.models = gateway.models
  <2>1. shown = [half EXCEPT !.toml = @ /\ gateway.toml, !.gateway = gateway.gateway,
                             !.models = gateway.models]
    BY DEF CurrentText, half, routing
  <2>2. {"toml", "gateway", "models", "weights", "lexicon", "classifier", "tiers", "threshold"}
           \subseteq DOMAIN half
    BY <1>5 DEF Empty
  <2> HIDE DEF shown, gateway
  <2>3. QED
    BY <1>5, <2>1, <2>2
<1> HIDE DEF shown
<1>7. /\ gateway.toml = TRUE
      /\ GatewayParses(shown) /\ GatewayFrom(shown) = RoundedGateway(loaded.gateway)
  <2>1. gateway.toml = TRUE
    <3> DEFINE plain == [toml |-> TRUE, gateway |-> gateway.gateway, models |-> gateway.models]
    <3>1. plain.toml = TRUE /\ plain.gateway = gateway.gateway /\ plain.models = gateway.models
      OBVIOUS
    <3> HIDE DEF plain
    <3>2. QED
      BY <1>3, <1>4, <3>1, GatewayLoadsBack
  <2>2. shown.toml = TRUE
    BY <1>5, <1>6, <2>1
  <2>3. QED
    BY <1>3, <1>4, <1>6, <2>1, <2>2, GatewayLoadsBack
<1> HIDE DEF gateway
<1>8. WeightsParse(shown.weights) /\ WeightsOf(shown.weights) = PrintedWeights(routing.weights)
  BY <1>2, <1>3, <1>5, <1>6, WeightsLoadBack DEF RoutingParses
<1>9. LexiconParses(shown.lexicon) /\ LexiconOf(shown.lexicon) = routing.lexicon
  <2>1. LexiconParses(text.lexicon) /\ \A k \in DOMAIN text.lexicon : IsList(text.lexicon[k])
    BY <1>3 DEF IsText, RoutingParses
  <2>2. shown.lexicon = [k \in DOMAIN LexiconOf(text.lexicon) |->
                            SetToSeq(LexiconOf(text.lexicon)[k])]
    BY <1>2, <1>5, <1>6
  <2>3. QED
    BY <1>2, <2>1, <2>2, LexiconLoadsBack
<1>10. /\ shown.classifier = None <=> text.classifier = None
       /\ shown.classifier # None =>
             /\ ClassifierParses(shown.classifier[1])
             /\ ClassesOf(shown.classifier[1]) = RoundedClasses(classes)
       /\ shown.classifier = None <=> classes = << >>
  <2>1. shown.classifier = IF classes = << >> THEN None ELSE Some(Regained(classes))
    BY <1>2, <1>5, <1>6
  <2>2. classes = IF text.classifier = None THEN << >> ELSE ClassesOf(text.classifier[1])
    BY DEF classes
  <2>3. QED
    BY <1>3, <2>1, <2>2, ClassifierShown
<1>11. RoundedRouting(routing) =
          [weights |-> PrintedWeights(routing.weights), lexicon |-> routing.lexicon,
           classifier |-> RoundedClasses(classes),
           tiers |-> IF classes # << >> THEN tiers ELSE PrintedTiers(tiers)]
  BY <1>2 DEF RoundedRouting, RoundedClasses, HasClassifier
<1>12. RoutingParses(shown) /\ RoutingFrom(shown) = RoundedRouting(routing)
  <2>1. CASE shown.classifier # None
    <3>1. RoutingParses(shown)
      BY <1>5, <1>6, <1>7, <1>8, <1>9, <1>10, <2>1 DEF RoutingParses
    <3>2. tiers = Binary(DefaultThreshold)
      BY <1>10, <2>1 DEF Ladders
    <3>3. RoutingFrom(shown) =
             [weights |-> WeightsOf(shown.weights), lexicon |-> LexiconOf(shown.lexicon),
              classifier |-> ClassesOf(shown.classifier[1]),
              tiers |-> Binary(DefaultThreshold)]
      BY <2>1 DEF RoutingFrom
    <3>4. QED
      BY <1>8, <1>9, <1>10, <1>11, <2>1, <3>1, <3>2, <3>3
  <2>2. CASE shown.classifier = None
    <3>1. text.classifier = None /\ classes = << >>
      BY <1>10, <2>2
    <3>2. shown.tiers = Some(PrintedTiers(tiers))
      BY <1>2, <1>5, <1>6, <3>1
    <3>3. shown.tiers # None /\ shown.tiers[1] = PrintedTiers(tiers)
      BY <3>2 DEF Some, None
    <3>4. TiersParse(PrintedTiers(tiers))
      BY <1>3, <1>4, <3>1, LadderSteps, PrintedTiersAre
    <3>5. RoutingParses(shown)
      BY <1>5, <1>6, <1>7, <1>8, <1>9, <2>2, <3>3, <3>4 DEF RoutingParses
    <3>6. RoutingFrom(shown) =
             [weights |-> WeightsOf(shown.weights), lexicon |-> LexiconOf(shown.lexicon),
              classifier |-> << >>, tiers |-> PrintedTiers(tiers)]
      BY <2>2, <3>3 DEF RoutingFrom, OrElse
    <3>7. RoundedClasses(classes) = << >>
      BY <3>1 DEF RoundedClasses
    <3>8. QED
      BY <1>8, <1>9, <1>11, <3>1, <3>5, <3>6, <3>7
  <2>3. QED
    BY <2>1, <2>2
<1>13. QED
  BY <1>7, <1>12 DEF Loads, LoadedFrom, Rounded, shown, routing

-----------------------------------------------------------------------------
(* What calibration returns is a text.                                      *)

(* A ladder as calibration finds it.                                        *)
IsFound(tiers) == IsList(tiers) /\ \A i \in DOMAIN tiers : IsOption(tiers[i].cost)

LEMMA TiersTextIsText ==
    ASSUME NEW tiers, IsFound(tiers), NEW options
    PROVE  IsText(TiersText(tiers, options))
<1> DEFINE text == TiersText(tiers, options)
           Of(i) == Tier(InGrains(tiers[i].min_score), ReadRaw(tiers[i].model),
                         MapOption(Emitted, tiers[i].cost))
           made == [i \in DOMAIN tiers |-> Of(i)]
<1>1. \/ text = Torn
      \/ text = [Empty EXCEPT !.weights = WeightsBlock(options.weights), !.tiers = Some(made)]
  BY DEF TiersText
<1>2. IsLadder(made)
  <2>1. DOMAIN tiers = 1..Len(tiers) /\ Len(tiers) \in Nat
    BY ListIs DEF IsFound
  <2>2. \A i \in DOMAIN tiers : DOMAIN Of(i) = {"min_score", "model", "cost"}
                                /\ Of(i).cost = MapOption(Emitted, tiers[i].cost)
    BY DEF Tier
  <2>3. \A i \in DOMAIN tiers : IsOption(MapOption(Emitted, tiers[i].cost))
    <3>1. ASSUME NEW cost, IsOption(cost) PROVE IsOption(MapOption(Emitted, cost))
      <4> DEFINE mapped == MapOption(Emitted, cost)
      <4>1. mapped = [i \in DOMAIN cost |-> Emitted(cost[i])]
        BY DEF MapOption
      <4> HIDE DEF mapped
      <4>2. cost = << >> \/ cost = <<cost[1]>>
        BY <3>1 DEF IsOption, None, Some
      <4>3. mapped = << >> \/ mapped = <<Emitted(cost[1])>>
        BY <4>1, <4>2
      <4>4. IsOption(mapped)
        BY <4>3 DEF IsOption, None, Some
      <4>5. QED
        BY <4>4 DEF mapped
    <3>2. QED
      BY <3>1 DEF IsFound
  <2> HIDE DEF Of
  <2>4. DOMAIN made = DOMAIN tiers /\ \A i \in DOMAIN tiers : made[i] = Of(i)
    OBVIOUS
  <2>5. made = [i \in 1..Len(tiers) |-> made[i]]
    BY <2>1
  <2> HIDE DEF made
  <2>6. IsList(made)
    BY <2>1, <2>5, ListIs
  <2>7. QED
    BY <2>2, <2>3, <2>4, <2>6 DEF IsLadder
<1> HIDE DEF made, text
<1>3. CASE text = [Empty EXCEPT !.weights = WeightsBlock(options.weights), !.tiers = Some(made)]
  <2>1. /\ DOMAIN text = DOMAIN Empty /\ text.lexicon = << >> /\ text.classifier = None
        /\ text.tiers = Some(made) /\ text.gateway = << >> /\ text.models = << >>
    BY <1>3 DEF Empty
  <2>2. AreSettings(<< >>)
    BY DEF AreSettings
  <2>3. Some(made)[1] = made
    BY DEF Some
  <2>4. DOMAIN text.lexicon = {} /\ DOMAIN text.models = {}
    BY <2>1
  <2>5. text.tiers[1] = made
    BY <2>1, <2>3
  <2>6. IsText(text)
    BY <1>2, <2>1, <2>2, <2>4, <2>5 DEF IsText
  <2>7. QED
    BY <2>6 DEF text
<1>4. QED
  BY <1>1, <1>3, TornIsText DEF text

LEMMA CalibrateGivesTexts ==
    ASSUME NEW samples \in Samples, NEW mode, NEW options,
           options.order # None => IsList(options.order[1]),
           NEW text \in ToSet(Calibrate(samples, mode, options))
    PROVE  IsText(text)
<1> USE DEF ToSet, None, Some
<1>1. ASSUME NEW low, NEW upper, NEW n, NEW cost, NEW dear,
             IsOption(cost), IsOption(dear)
      PROVE  IsFound(<<Tier(0, low, cost), Tier(n, upper, dear)>>)
  <2> DEFINE tiers == <<Tier(0, low, cost), Tier(n, upper, dear)>>
  <2>1. DOMAIN tiers = 1..2 /\ tiers[1].cost = cost /\ tiers[2].cost = dear
    BY DEF Tier
  <2>2. tiers = [i \in 1..2 |-> tiers[i]]
    OBVIOUS
  <2> HIDE DEF tiers
  <2>3. IsList(tiers)
    BY <2>1, <2>2, ListIs
  <2>4. QED
    BY <1>1, <2>1, <2>3 DEF IsFound, tiers
<1>2. IsOption(None) /\ \A x : IsOption(Some(x))
  BY DEF IsOption
<1>3. ASSUME NEW t \in ToSet(CalibrateThreshold(samples, options))
      PROVE  IsFound(t)
  <2>1. PICK scored, labels : t \in ToSet(ThresholdBetween(scored, labels, options))
    BY <1>3 DEF CalibrateThreshold, OfRescored
  <2>2. ASSUME NEW arms, t \in ToSet(CostedBetween(scored, arms, options))
        PROVE  IsFound(t)
    <3> DEFINE cuts == CostedCut(ScoredAgainst(scored, arms[1].high), arms[1], options)
               Ladder(cut) == <<Tier(0, arms[1].low, Some(arms[1].cost_low)),
                                Tier(cut, arms[1].high, Some(arms[1].cost_high))>>
    <3>1. \/ CostedBetween(scored, arms, options) = None
          \/ CostedBetween(scored, arms, options) = [i \in DOMAIN cuts |-> Ladder(cuts[i])]
      BY DEF CostedBetween, CostedThreshold, MapOption
    <3>2. \A cut : IsFound(Ladder(cut))
      BY <1>1, <1>2
    <3> HIDE DEF cuts, Ladder
    <3>3. QED
      BY <2>2, <3>1, <3>2
  <2> DEFINE cut == SweepCut(ScoredAgainst(scored, labels[2]))
             ladder == <<Tier(0, labels[1], None), Tier(cut, labels[2], None)>>
             arms == CostOrderedArms(labels, options.costs)
  <2>3. IsFound(ladder)
    BY <1>1, <1>2
  <2>4. ThresholdBetween(scored, labels, options) \in
           {None, Some(ladder), CostedBetween(scored, arms, options)}
    BY Zenon DEF ThresholdBetween
  <2> HIDE DEF ladder, arms
  <2>5. QED
    BY <2>1, <2>2, <2>3, <2>4
<1>4. ASSUME NEW given, NEW order, IsList(order)
      PROVE  IsFound(TiersInOrder(given, order))
  <2> DEFINE tiers == TiersInOrder(given, order)
  <2>1. DOMAIN order = 1..Len(order) /\ Len(order) \in Nat
    BY <1>4, ListIs
  <2>2. DOMAIN tiers = 1..Len(order) /\ tiers = [k \in 1..Len(order) |-> tiers[k]]
        /\ \A k \in 1..Len(order) : tiers[k].cost = None
    BY <2>1 DEF TiersInOrder, Tier
  <2> HIDE DEF tiers
  <2>3. IsList(tiers)
    BY <2>1, <2>2, ListIs
  <2>4. QED
    BY <1>2, <2>2, <2>3 DEF IsFound, tiers
<1>5. ASSUME NEW given, IsList(LabelsByMeanScore(given)),
             NEW order \in ToSet(OrderFor(given, options))
      PROVE  IsList(order)
  BY <1>5 DEF OrderFor, OrElse
<1>6. IsList(LabelsByMeanScore(Rescored(samples, options.weights)))
  <2> DEFINE given == Rescored(samples, options.weights)
             order == LabelsByMeanScore(given)
             n == Cardinality(LabelsPresent(given))
  <2>1. LabelsPresent(given) = LabelsPresent(samples)
    <3>1. DOMAIN given = DOMAIN samples /\ \A i \in DOMAIN samples : given[i].label = samples[i].label
      BY DEF Rescored, Sample
    <3> HIDE DEF given
    <3>2. QED
      BY <3>1 DEF LabelsPresent
  <2>2. n \in Nat
    BY <2>1, PresentIsFinite, FS_CardinalityType
  <2>3. order = [k \in 1..n |-> order[k]]
    <3> DEFINE present == LabelsPresent(given)
               Below(x) == {other \in present : MeanBefore(given, other, x)}
               Nth(k) == CHOOSE x \in present : Cardinality(Below(x)) = k - 1
    <3>1. order = [k \in 1..n |-> Nth(k)]
      BY DEF LabelsByMeanScore
    <3> HIDE DEF Nth, order, n
    <3>2. QED
      BY <3>1
  <2> HIDE DEF order, n, given
  <2>4. QED
    BY <2>2, <2>3, ListIs DEF order, given
<1>7. ASSUME NEW t \in ToSet(CalibrateTiers(samples, options))
      PROVE  IsFound(t)
  <2> DEFINE given == Rescored(samples, options.weights)
             orders == OrderFor(given, options)
  <2>1. CalibrateTiers(samples, options) = [i \in DOMAIN orders |-> TiersInOrder(given, orders[i])]
    BY DEF CalibrateTiers, MapOption
  <2>2. \A i \in DOMAIN orders : IsList(orders[i])
    BY <1>5, <1>6
  <2> HIDE DEF orders, given
  <2>3. QED
    BY <1>4, <1>7, <2>1, <2>2
<1>8. ASSUME NEW t \in ToSet(FitClassifier(samples, options))
      PROVE  IsText(t)
  <2> DEFINE orders == OrderFor(samples, options)
  <2>1. \A i \in DOMAIN orders : IsList(orders[i])
    BY <1>5, MeansAreLabels
  <2>2. ASSUME NEW order, IsList(order), NEW rows PROVE IsText(Classified(order, rows))
    <3> DEFINE made == Classified(order, rows)
               models == [c \in DOMAIN order |-> ReadRaw(order[c])]
    <3>1. \/ made = Torn
          \/ /\ DOMAIN made = DOMAIN Empty /\ made.classifier[1].models = models
             /\ made.lexicon = << >> /\ made.tiers = << >>
             /\ made.gateway = << >> /\ made.models = << >>
      BY DEF Classified, Empty
    <3>2. IsList(models)
      <4>1. DOMAIN order = 1..Len(order) /\ Len(order) \in Nat
        BY <2>2, ListIs
      <4>2. models = [c \in 1..Len(order) |-> models[c]]
        BY <4>1
      <4> HIDE DEF models
      <4>3. QED
        BY <4>1, <4>2, ListIs
    <3>3. AreSettings(<< >>)
      BY DEF AreSettings
    <3> HIDE DEF made, models
    <3>4. IsText(made)
      BY <3>1, <3>2, <3>3, TornIsText DEF IsText
    <3>5. QED
      BY <3>4 DEF made
  <2>3. \/ FitClassifier(samples, options) = None
        \/ FitClassifier(samples, options) =
              [i \in DOMAIN orders |-> Classified(orders[i], Fit(samples, orders[i]))]
    BY DEF FitClassifier, MapOption
  <2> HIDE DEF orders
  <2>4. QED
    BY <1>8, <2>1, <2>2, <2>3
<1> DEFINE Written(found) == [i \in DOMAIN found |-> TiersText(found[i], options)]
<1>9. Calibrate(samples, mode, options) \in
         {None, Written(CalibrateThreshold(samples, options)),
          Written(CalibrateTiers(samples, options)), FitClassifier(samples, options)}
  BY Zenon DEF Calibrate, MapOption
<1>10. ASSUME NEW found, \A t \in ToSet(found) : IsFound(t), text \in ToSet(Written(found))
       PROVE  IsText(text)
  <2>1. PICK i \in DOMAIN found : text = TiersText(found[i], options)
    BY <1>10
  <2>2. QED
    BY <1>10, <2>1, TiersTextIsText
<1>11. text \notin ToSet(None)
  OBVIOUS
<1> HIDE DEF Written
<1>12. QED
  BY <1>3, <1>7, <1>8, <1>9, <1>10, <1>11

-----------------------------------------------------------------------------
(* What an editor of the command line changes.                              *)

Editors == {"set", "add-model", "set-model", "set-threshold"}

(* The gateway half is read from the settings and the models alone.         *)
LEMMA SameGatewayParses ==
    ASSUME NEW old, NEW new, new.toml = old.toml,
           new.gateway = old.gateway, new.models = old.models, GatewayParses(old)
    PROVE  GatewayParses(new)
BY DEF GatewayParses

(* An editor keeps the models, adds the one it is asked to add, and leaves  *)
(* a text that loads as one that loads.                                     *)
LEMMA EditedKeeps ==
    ASSUME NEW text, IsText(text), NEW job \in Jobs, job.kind \in Editors,
           NEW new \in ToSet(Edited(job, text))
    PROVE  /\ IsText(new)
           /\ DOMAIN text.models \subseteq DOMAIN new.models
           /\ job.kind = "add-model" => job.name \in DOMAIN new.models
           /\ Loads(text) => Loads(new)
<1> USE DEF Some, None, ToSet
<1>1. DOMAIN text = {"toml", "weights", "lexicon", "tiers", "classifier", "threshold",
                     "gateway", "models"}
  BY DEF IsText, Empty
<1>2. CASE job.kind = "set"
  <2> DEFINE gateway == Over([offline |-> job.value], text.gateway)
  <2>1. Loads(new) /\ new = [text EXCEPT !.gateway = gateway]
    BY <1>2 DEF Edited, SetOffline
  <2>2. AreSettings(gateway)
    BY DEF IsText, AreSettings, Over
  <2> HIDE DEF gateway
  <2>3. /\ DOMAIN new = DOMAIN text /\ new.lexicon = text.lexicon
        /\ new.classifier = text.classifier /\ new.tiers = text.tiers
        /\ new.gateway = gateway /\ new.models = text.models
    BY <1>1, <2>1
  <2>4. QED
    BY <1>2, <2>1, <2>2, <2>3 DEF IsText
<1>3. CASE job.kind = "add-model"
  <2> DEFINE table == PrintedIn(job.table)
             made == AddModelTable(text, job.name, job.table)
             models == [n \in {job.name} \cup DOMAIN text.models |->
                          IF n = job.name THEN table ELSE text.models[n]]
  <2>1. made = << >> \/ made = <<[text EXCEPT !.models = models]>>
    BY DEF AddModelTable
  <2>2. IsModel(table)
    BY <1>3, WorkspaceAssumption DEF IsModel, PrintedIn, FloatKeys
  <2>3. new \in ToSet(made) /\ Loads(made[1])
    BY <1>3 DEF Edited
  <2> HIDE DEF made, table
  <2>4. DOMAIN models = {job.name} \cup DOMAIN text.models
        /\ \A n \in DOMAIN models : IsModel(models[n])
    BY <2>2 DEF IsText
  <2> HIDE DEF models
  <2>5. new = [text EXCEPT !.models = models] /\ Loads(new)
    BY <2>1, <2>3
  <2>6. /\ DOMAIN new = DOMAIN text /\ new.lexicon = text.lexicon
        /\ new.classifier = text.classifier /\ new.tiers = text.tiers
        /\ new.gateway = text.gateway /\ new.models = models
    BY <1>1, <2>5
  <2>7. QED
    BY <2>4, <2>5, <2>6 DEF IsText
<1>4. CASE job.kind = "set-model"
  <2> DEFINE models == [text.models EXCEPT ![job.name] = Over(job.keys, @)]
  <2>1. Loads(new) /\ new = [text EXCEPT !.models = models]
    BY <1>4, <1>1 DEF Edited, SetModelKeys
  <2>2. IsModel(job.keys) /\ \A n \in DOMAIN text.models : IsModel(text.models[n])
    BY <1>4, WorkspaceAssumption DEF IsText
  <2>3. \A table : IsModel(table) => IsModel(Over(job.keys, table))
    BY <2>2 DEF IsModel, Over
  <2>4. DOMAIN models = DOMAIN text.models /\ \A n \in DOMAIN models : IsModel(models[n])
    BY <2>2, <2>3
  <2> HIDE DEF models
  <2>5. /\ DOMAIN new = DOMAIN text /\ new.lexicon = text.lexicon
        /\ new.classifier = text.classifier /\ new.tiers = text.tiers
        /\ new.gateway = text.gateway /\ new.models = models
    BY <1>1, <2>1
  <2>6. QED
    BY <1>4, <2>1, <2>4, <2>5 DEF IsText
<1>5. CASE job.kind = "set-threshold"
  <2> DEFINE made == SetTierMinScore(text, job.model, job.min_score)
             tiers == OrElse(text.tiers, << >>)
             named == {i \in DOMAIN tiers : tiers[i].model = job.model}
             moved == [tiers EXCEPT ![Min(named)].min_score = Printed(job.min_score)]
  <2>1. made = << >> \/ (named # {} /\ made = <<[text EXCEPT !.tiers = Some(moved)]>>)
    BY DEF SetTierMinScore
  <2>2. new \in ToSet(made) /\ RoutingParses(made[1])
    BY <1>5 DEF Edited
  <2> HIDE DEF made, moved, named
  <2>3. named # {} /\ new = [text EXCEPT !.tiers = Some(moved)] /\ RoutingParses(new)
    BY <2>1, <2>2
  <2>4. IsLadder(moved)
    <3>1. IsLadder(tiers)
      BY <2>3 DEF IsText, OrElse, named
    <3> HIDE DEF tiers
    <3>2. /\ IsList(tiers)
          /\ \A i \in DOMAIN tiers : /\ DOMAIN tiers[i] = {"min_score", "model", "cost"}
                                     /\ IsOption(tiers[i].cost)
      BY <3>1 DEF IsLadder
    <3>3. moved = [i \in DOMAIN tiers |->
                     IF i = Min(named) THEN [tiers[i] EXCEPT !.min_score = Printed(job.min_score)]
                     ELSE tiers[i]]
      BY DEF moved
    <3>4. DOMAIN moved = DOMAIN tiers
          /\ \A i \in DOMAIN tiers : DOMAIN moved[i] = DOMAIN tiers[i]
                                     /\ moved[i].cost = tiers[i].cost
      BY <3>2, <3>3
    <3>5. IsList(moved)
      <4>1. DOMAIN tiers = 1..Len(tiers) /\ Len(tiers) \in Nat
        BY <3>2, ListIs
      <4>2. moved = [i \in 1..Len(tiers) |-> moved[i]]
        BY <3>3, <4>1
      <4>3. QED
        BY <4>1, <4>2, ListIs
    <3>6. QED
      BY <3>2, <3>4, <3>5 DEF IsLadder
  <2>5. /\ DOMAIN new = DOMAIN text /\ new.toml = text.toml
        /\ new.gateway = text.gateway /\ new.models = text.models
        /\ new.lexicon = text.lexicon /\ new.classifier = text.classifier
        /\ new.tiers = Some(moved)
    BY <1>1, <2>3
  <2>6. Loads(text) => Loads(new)
    BY <2>3, <2>5, SameGatewayParses DEF Loads
  <2>7. QED
    BY <1>5, <2>4, <2>5, <2>6 DEF IsText
<1>6. QED
  BY <1>2, <1>3, <1>4, <1>5 DEF Editors

(* What a running gateway shows of its configuration.                       *)
Shows(loaded) ==
    /\ IsText(CurrentText(loaded))
    /\ Printable(loaded) => /\ Loads(CurrentText(loaded))
                            /\ LoadedFrom(CurrentText(loaded)) = Rounded(loaded)

ShownInv == serving = None \/ \E loaded : serving = Some(loaded) /\ Shows(loaded)

-----------------------------------------------------------------------------
(* The invariant.                                                           *)

Models(file) == IF file = None THEN {} ELSE DOMAIN file[1].models

Fitters == {"calibrate", "recalibrate"}
Writers == Editors \cup Fitters \cup {"init", "save"}

(* Who writes knows the text and the job it is for.                         *)
AgentsKept ==
    /\ DOMAIN agent = Agents
    /\ \A a \in Agents :
          /\ "at" \in DOMAIN agent[a]
          /\ agent[a].at = "count" => agent[a].job.kind = "recalibrate"
          /\ Writing(a) => /\ {"job", "text"} \subseteq DOMAIN agent[a]
                           /\ IsText(agent[a].text)
                           /\ agent[a].job.kind \in Writers

FileIsText == disk # None => IsText(disk[1])

(* Without an overlap the only writer fills the file that it emptied.       *)
WritesAlone ==
    "overlap" \notin scars =>
        /\ \A a, b \in Agents : Writing(a) /\ Writing(b) => a = b
        /\ \A a \in Agents : agent[a].at = "fill" => disk = Some(Empty)

(* What is about to be written was parsed, but for a fit.                   *)
WritesParsed ==
    scars = {} =>
        /\ Sound(disk)
        /\ \A a \in Agents : Writing(a) /\ agent[a].job.kind \notin Fitters
              => Loads(agent[a].text)

(* What is about to be written holds the models that were added, unless it  *)
(* replaces the file as a whole.                                            *)
WritesKeep ==
    scars \cap {"overlap", "kill"} = {} =>
        /\ ~Filling => added \subseteq Models(disk)
        /\ \A a \in Agents :
              /\ Writing(a) /\ agent[a].job.kind \in Editors \cup {"recalibrate"}
                    => added \subseteq DOMAIN agent[a].text.models
              /\ Writing(a) /\ agent[a].job.kind = "add-model"
                    => agent[a].job.name \in DOMAIN agent[a].text.models

FileInv ==
    AgentsKept /\ FileIsText /\ WritesAlone /\ WritesParsed /\ WritesKeep

(* An agent that does something else leaves the invariant alone.            *)
LEMMA AsideKeeps ==
    ASSUME FileInv, NEW a \in Agents, NEW doing, "at" \in DOMAIN doing,
           agent' = [agent EXCEPT ![a] = doing],
           doing.at \notin {"write", "fill"},
           doing.at = "count" => doing.job.kind = "recalibrate",
           agent[a].at # "fill" \/ "kill" \in scars',
           UNCHANGED <<disk, added>>, scars \subseteq scars'
    PROVE  FileInv'
<1> USE DEF FileInv
<1>1. ~Writing(a)' /\ \A b \in Agents \ {a} : agent'[b] = agent[b]
  BY DEF AgentsKept, Writing
<1>2. \A b \in Agents : Writing(b)' => Writing(b) /\ agent'[b] = agent[b]
  BY <1>1 DEF Writing
<1>3. AgentsKept'
  BY <1>1, <1>2 DEF AgentsKept
<1>4. FileIsText'
  BY DEF FileIsText
<1>5. WritesAlone'
  BY <1>2 DEF WritesAlone, Writing
<1>6. WritesParsed'
  BY <1>2 DEF WritesParsed, Sound
<1>7. WritesKeep'
  <2>1. agent[a].at # "fill" => Filling' = Filling
    BY <1>1 DEF Filling, Writing, AgentsKept
  <2>2. QED
    BY <1>2, <2>1 DEF WritesKeep, Models
<1>8. QED
  BY <1>3, <1>4, <1>5, <1>6, <1>7

(* An agent that turns to writing overlaps with whoever writes already.     *)
LEMMA WriteKeeps ==
    ASSUME FileInv, NEW a \in Agents, ~Writing(a), NEW doing,
           {"at", "job", "text"} \subseteq DOMAIN doing,
           agent' = [agent EXCEPT ![a] = doing], doing.at = "write",
           IsText(doing.text), doing.job.kind \in Writers,
           doing.job.kind \notin Fitters /\ Sound(disk) => Loads(doing.text),
           doing.job.kind \in Editors \cup {"recalibrate"}
              => Models(disk) \subseteq DOMAIN doing.text.models,
           doing.job.kind = "add-model"
              => doing.job.name \in DOMAIN doing.text.models,
           UNCHANGED <<disk, added>>, scars' = scars \cup Overlap(a)
    PROVE  FileInv'
<1> USE DEF FileInv
<1>1. agent'[a] = doing /\ \A b \in Agents \ {a} : agent'[b] = agent[b]
  BY DEF AgentsKept
<1>2. \A b \in Agents \ {a} : Writing(b)' = Writing(b)
  BY <1>1 DEF Writing
<1>3. "overlap" \notin scars' =>
         scars' = scars /\ \A b \in Agents \ {a} : ~Writing(b)
  BY DEF Overlap
<1>4. scars \subseteq scars'
  OBVIOUS
<1>5. AgentsKept'
  BY <1>1, <1>2 DEF AgentsKept
<1>6. FileIsText'
  BY DEF FileIsText
<1>7. WritesAlone'
  BY <1>1, <1>2, <1>3 DEF WritesAlone, Writing
<1>8. WritesParsed'
  BY <1>1, <1>2, <1>3 DEF WritesParsed, Sound
<1>9. WritesKeep'
  <2>1. "overlap" \notin scars' => ~Filling
    BY <1>3 DEF Filling, Writing
  <2>2. QED
    BY <1>1, <1>2, <1>3, <2>1 DEF WritesKeep, Models
<1>10. QED
  BY <1>5, <1>6, <1>7, <1>8, <1>9

LEMMA TruncateKeeps ==
    ASSUME FileInv, NEW a \in Agents, Truncate(a)
    PROVE  FileInv'
<1> USE DEF FileInv
<1>1. /\ agent[a].at = "write" /\ Writing(a)
      /\ disk' = Some(Empty) /\ UNCHANGED <<added, scars>>
      /\ agent'[a] = [agent[a] EXCEPT !.at = "fill"]
      /\ \A b \in Agents \ {a} : agent'[b] = agent[b]
      /\ DOMAIN agent' = Agents
  BY DEF Truncate, Writing, AgentsKept
<1>2. /\ DOMAIN agent'[a] = DOMAIN agent[a] /\ agent'[a].at = "fill"
      /\ agent'[a].job = agent[a].job /\ agent'[a].text = agent[a].text
  BY <1>1 DEF AgentsKept
<1>3. \A b \in Agents : Writing(b)' <=> Writing(b)
  BY <1>1, <1>2 DEF Writing
<1>4. AgentsKept'
  BY <1>1, <1>2, <1>3 DEF AgentsKept
<1>5. FileIsText'
  BY <1>1, EmptyLoads DEF FileIsText, Some
<1>6. WritesAlone'
  BY <1>1, <1>2, <1>3 DEF WritesAlone
<1>7. WritesParsed'
  BY <1>1, <1>2, <1>3, EmptyLoads DEF WritesParsed, Sound, Some
<1>8. WritesKeep'
  BY <1>1, <1>2, <1>3 DEF WritesKeep, Filling
<1>9. QED
  BY <1>4, <1>5, <1>6, <1>7, <1>8

LEMMA FillKeeps ==
    ASSUME FileInv, NEW a \in Agents, Fill(a)
    PROVE  FileInv'
<1> USE DEF FileInv
<1> DEFINE kind == agent[a].job.kind
<1>1. PICK result \in {agent[a].text, Torn} :
         disk' = Some(result) /\ (disk = Some(Empty) => result = agent[a].text)
  BY DEF Fill
<1>2. /\ agent[a].at = "fill" /\ Writing(a) /\ agent'[a] = Idle
      /\ DOMAIN agent' = Agents
      /\ \A b \in Agents \ {a} : agent'[b] = agent[b]
      /\ scars' = IF kind \in Fitters THEN scars \cup {"fit"} ELSE scars
  BY DEF Fill, Writing, AgentsKept, Fitters
<1>3. /\ ~Writing(a)'
      /\ \A b \in Agents \ {a} : Writing(b)' = Writing(b)
  BY <1>2 DEF Writing, Idle
<1>4. scars \subseteq scars' /\ (kind \in Fitters => scars' # {})
      /\ ("overlap" \notin scars' => "overlap" \notin scars)
  BY <1>2
<1>5. "overlap" \notin scars =>
         result = agent[a].text /\ \A b \in Agents : ~Writing(b)'
  BY <1>1, <1>2, <1>3 DEF WritesAlone
<1>6. AgentsKept'
  BY <1>2, <1>3 DEF AgentsKept, Idle
<1>7. FileIsText'
  <2>1. IsText(Torn)
    BY TornIsText
  <2>2. QED
    BY <1>1, <1>2, <2>1 DEF FileIsText, Some, AgentsKept
<1>8. WritesAlone'
  BY <1>4, <1>5 DEF WritesAlone, Writing
<1>9. WritesParsed'
  <2>1. SUFFICES ASSUME scars' = {} PROVE Sound(disk')
    BY <1>4, <1>5 DEF WritesParsed, Sound
  <2>2. scars = {} /\ kind \notin Fitters
    BY <1>4, <2>1
  <2>3. QED
    BY <1>1, <1>2, <1>5, <2>2 DEF WritesParsed, Sound, Some
<1>10. WritesKeep'
  <2>1. Models(disk)' = DOMAIN result.models
    BY <1>1 DEF Models, Some, None
  <2>2. SUFFICES ASSUME scars' \cap {"overlap", "kill"} = {}
                 PROVE  added' \subseteq DOMAIN agent[a].text.models
    <3>1. SUFFICES ASSUME scars' \cap {"overlap", "kill"} = {}
                   PROVE  /\ added' \subseteq Models(disk)'
                          /\ \A b \in Agents : ~Writing(b)'
      BY DEF WritesKeep
    <3>2. result = agent[a].text /\ \A b \in Agents : ~Writing(b)'
      BY <1>4, <1>5, <3>1
    <3>3. QED
      BY <2>1, <2>2, <3>1, <3>2
  <2> scars \cap {"overlap", "kill"} = {}
    BY <1>4, <2>2
  <2>3. kind \in Writers
    BY <1>2 DEF AgentsKept
  <2>4. CASE kind = "add-model"
    BY <1>2, <2>4 DEF Fill, WritesKeep, Editors
  <2>5. CASE kind \in {"init", "save", "calibrate"}
    <3>1. added' = {}
      BY <2>5 DEF Fill
    <3>2. QED
      BY <3>1
  <2>6. CASE kind \in (Editors \ {"add-model"}) \cup {"recalibrate"}
    <3>1. added' = added
      BY <2>6 DEF Fill, Editors
    <3>2. QED
      BY <1>2, <2>6, <3>1 DEF WritesKeep
  <2>7. QED
    BY <2>3, <2>4, <2>5, <2>6 DEF Writers, Fitters
<1>11. QED
  BY <1>6, <1>7, <1>8, <1>9, <1>10

-----------------------------------------------------------------------------
(* One step for each action.                                                *)

(* A step that touches the agent's progress only.                           *)
LEMMA ProgressKeeps ==
    ASSUME FileInv, NEW a \in Agents, NEW doing, "at" \in DOMAIN doing,
           agent' = [agent EXCEPT ![a] = doing],
           agent[a].at # "fill", doing.at \notin {"write", "fill", "count"},
           UNCHANGED <<disk, added>>, scars \subseteq scars'
    PROVE  FileInv'
BY AsideKeeps

LEMMA TakeKeeps ==
    ASSUME FileInv, LogInv, ShownInv, NEW a \in Agents, Take(a)
    PROVE  FileInv'
<1> USE DEF FileInv
<1>1. ASSUME NEW job \in Jobs, job.kind \in Editors, Edit(a, job)
      PROVE  FileInv'
  <2>1. PICK text \in ToSet(Edited(job, disk[1])) : Write(a, job, text)
    BY <1>1 DEF Edit
  <2>2. ~Writing(a) /\ disk # None /\ UNCHANGED <<disk, added>>
    BY <1>1 DEF Edit, MayBegin, Writing
  <2>3. /\ IsText(text) /\ DOMAIN disk[1].models \subseteq DOMAIN text.models
        /\ job.kind = "add-model" => job.name \in DOMAIN text.models
        /\ Sound(disk) => Loads(text)
    BY <1>1, <2>2, EditedKeeps DEF FileIsText, Sound
  <2> DEFINE doing == [at |-> "write", job |-> job, text |-> text]
  <2>4. /\ agent' = [agent EXCEPT ![a] = doing] /\ scars' = scars \cup Overlap(a)
        /\ {"at", "job", "text"} \subseteq DOMAIN doing /\ doing.at = "write"
        /\ doing.job = job /\ doing.text = text
    BY <2>1 DEF Write, Begin
  <2>5. job.kind \in Writers
    BY <1>1 DEF Writers
  <2> HIDE DEF doing
  <2>6. QED
    BY <2>2, <2>3, <2>4, <2>5, WriteKeeps DEF Models
<1>2. ASSUME NEW job \in Jobs, job.kind \in {"init", "save", "calibrate"}, ~Writing(a),
             NEW text, IsText(text), job.kind = "calibrate" \/ Loads(text),
             Write(a, job, text), UNCHANGED <<disk, added>>
      PROVE  FileInv'
  <2> DEFINE doing == [at |-> "write", job |-> job, text |-> text]
  <2>1. /\ agent' = [agent EXCEPT ![a] = doing] /\ scars' = scars \cup Overlap(a)
        /\ {"at", "job", "text"} \subseteq DOMAIN doing /\ doing.at = "write"
        /\ doing.job = job /\ doing.text = text
    BY <1>2 DEF Write, Begin
  <2>2. job.kind \in Writers /\ job.kind \notin Editors \cup {"recalibrate"}
        /\ (job.kind = "calibrate" => job.kind \in Fitters) /\ job.kind # "add-model"
    BY <1>2 DEF Writers, Fitters, Editors
  <2> HIDE DEF doing
  <2>3. QED
    BY <1>2, <2>1, <2>2, WriteKeeps
<1>3. ASSUME NEW job \in Jobs, job.kind = "init", Scaffold(a, job)
      PROVE  FileInv'
  <2>1. ~Writing(a) /\ Write(a, job, job.text) /\ UNCHANGED <<disk, added>>
    BY <1>3 DEF Scaffold, MayBegin, Writing
  <2>2. IsText(job.text) /\ Loads(job.text)
    BY <1>3, WorkspaceAssumption
  <2>3. QED
    BY <1>2, <1>3, <2>1, <2>2
<1>4. ASSUME NEW job \in Jobs, job.kind = "save", Save(a, job)
      PROVE  FileInv'
  <2>1. ~Writing(a) /\ Write(a, job, Posted(job)) /\ UNCHANGED <<disk, added>>
    BY <1>4 DEF Save, MayBegin, Writing
  <2>2. IsText(Posted(job))
    <3>1. CASE job.text = None
      <4>1. serving # None
        BY <1>4, <3>1, WorkspaceAssumption DEF Save
      <4>2. PICK loaded : serving = Some(loaded) /\ Shows(loaded)
        BY <4>1 DEF ShownInv
      <4>3. serving[1] = loaded
        BY <4>2 DEF Some
      <4>4. QED
        BY <3>1, <4>2, <4>3 DEF Posted, OrElse, Shows
    <3>2. CASE job.text # None
      BY <1>4, <3>2, WorkspaceAssumption DEF Posted, OrElse
    <3>3. QED
      BY <3>1, <3>2
  <2>3. Loads(Posted(job))
    BY <1>4 DEF Save
  <2>4. QED
    BY <1>2, <1>4, <2>1, <2>2, <2>3
<1>5. ASSUME NEW job \in Jobs, job.kind = "calibrate", CalibrateInto(a, job)
      PROVE  FileInv'
  <2>1. PICK samples \in ToSet(Dataset) :
           \E text \in ToSet(Calibrate(samples, job.mode, job.options)) :
              Write(a, job, text)
    BY <1>5 DEF CalibrateInto
  <2>2. PICK text \in ToSet(Calibrate(samples, job.mode, job.options)) :
           Write(a, job, text)
    BY <2>1
  <2>3. ~Writing(a) /\ UNCHANGED <<disk, added>>
    BY <1>5 DEF CalibrateInto, MayBegin, Writing
  <2>4. IsText(text)
    <3>1. samples \in Samples
      BY <2>1, DatasetIsSamples
    <3>2. job.options.order # None => IsList(job.options.order[1])
      BY <1>5, WorkspaceAssumption
    <3>3. QED
      BY <2>2, <3>1, <3>2, CalibrateGivesTexts
  <2>5. QED
    BY <1>2, <1>5, <2>2, <2>3, <2>4
<1>6. ASSUME NEW job \in Jobs, job.kind = "recalibrate", CountLabels(a, job)
      PROVE  FileInv'
  <2> DEFINE doing == [at |-> "count", job |-> job]
  <2>1. /\ "at" \in DOMAIN doing /\ doing.at = "count"
        /\ doing.job.kind = "recalibrate"
    BY <1>6
  <2>2. agent[a].at = "idle" /\ agent' = [agent EXCEPT ![a] = doing]
    BY <1>6 DEF CountLabels, MayBegin, Begin
  <2>3. UNCHANGED <<disk, added, scars>>
    BY <1>6 DEF CountLabels
  <2> HIDE DEF doing
  <2>4. QED
    BY <2>1, <2>2, <2>3, AsideKeeps
<1>7. ASSUME NEW job \in Jobs, BeginFeedback(a, job)
      PROVE  FileInv'
  <2> DEFINE doing == [at |-> "ask", job |-> job, left |-> job.prompts]
  <2>1. "at" \in DOMAIN doing /\ doing.at \notin {"write", "fill", "count"}
    OBVIOUS
  <2>2. agent[a].at = "idle" /\ agent' = [agent EXCEPT ![a] = doing]
    BY <1>7 DEF BeginFeedback, MayBegin, Begin
  <2>3. UNCHANGED <<disk, added, scars>>
    BY <1>7 DEF BeginFeedback
  <2> HIDE DEF doing
  <2>4. QED
    BY <2>1, <2>2, <2>3, ProgressKeeps
<1>8. ASSUME NEW job \in Jobs, BeginLabelling(a, job)
      PROVE  FileInv'
  <2> DEFINE doing == [at |-> "ask", job |-> job, left |-> job.prompts]
  <2>1. "at" \in DOMAIN doing /\ doing.at \notin {"write", "fill", "count"}
    OBVIOUS
  <2>2. agent[a].at = "idle" /\ agent' = [agent EXCEPT ![a] = doing]
    BY <1>8 DEF BeginLabelling, MayBegin, Begin
  <2>3. UNCHANGED <<disk, added, scars>>
    BY <1>8 DEF BeginLabelling
  <2> HIDE DEF doing
  <2>4. QED
    BY <2>1, <2>2, <2>3, ProgressKeeps
<1>9. ASSUME NEW job \in Jobs, Install(a, job)
      PROVE  FileInv'
  <2> DEFINE doing == [at |-> "enable", job |-> job]
  <2>1. "at" \in DOMAIN doing /\ doing.at \notin {"write", "fill", "count"}
    OBVIOUS
  <2>2. agent[a].at = "idle" /\ agent' = [agent EXCEPT ![a] = doing]
    BY <1>9 DEF Install, MayBegin, Begin
  <2>3. UNCHANGED <<disk, added, scars>>
    BY <1>9 DEF Install
  <2> HIDE DEF doing
  <2>4. QED
    BY <2>1, <2>2, <2>3, ProgressKeeps
<1>10. ASSUME NEW job \in Jobs, Uninstall(a, job)
      PROVE  FileInv'
  <2> DEFINE doing == [at |-> "remove", job |-> job]
  <2>1. "at" \in DOMAIN doing /\ doing.at \notin {"write", "fill", "count"}
    OBVIOUS
  <2>2. agent[a].at = "idle" /\ agent' = [agent EXCEPT ![a] = doing]
    BY <1>10 DEF Uninstall, MayBegin, Begin
  <2>3. UNCHANGED <<disk, added, scars>>
    BY <1>10 DEF Uninstall
  <2> HIDE DEF doing
  <2>4. QED
    BY <2>1, <2>2, <2>3, ProgressKeeps
<1>11. QED
  BY <1>1, <1>3, <1>4, <1>5, <1>6, <1>7, <1>8, <1>9, <1>10
     DEF Take, JobsOf, Editors

(* The gateway half of the file stays with a fit.                           *)
LEMMA RefitKeeps ==
    ASSUME FileInv, LogInv, NEW a \in Agents, Refit(a)
    PROVE  FileInv'
<1> USE DEF FileInv
<1>1. agent[a].at = "count" /\ ~Writing(a) /\ UNCHANGED <<disk, added>>
  BY DEF Refit, Writing
<1>2. CASE agent' = [agent EXCEPT ![a] = Idle] /\ scars' = scars
  <2>1. "at" \in DOMAIN Idle /\ Idle.at \notin {"write", "fill", "count"}
    BY DEF Idle
  <2>2. QED
    BY <1>1, <1>2, <2>1, ProgressKeeps
<1>3. ASSUME NEW fit \in Fits(agent[a].job),
             agent' = [agent EXCEPT ![a] =
                         [at |-> "write", job |-> fit.job, samples |-> fit.samples,
                          text |-> WithGatewayBlock(fit.text)]],
             scars' = scars \cup Overlap(a)
      PROVE  FileInv'
  <2>1. IsText(fit.text) /\ fit.job = agent[a].job
    <3>1. PICK samples \in ToSet(Dataset) :
             fit \in {[samples |-> samples, text |-> text, job |-> agent[a].job] :
                         text \in ToSet(Calibrate(samples, agent[a].job.mode,
                                                  DefaultOptions))}
      BY <1>3 DEF Fits
    <3>2. samples \in Samples /\ DefaultOptions.order = None
      BY <3>1, DatasetIsSamples DEF DefaultOptions
    <3>3. QED
      BY <3>1, <3>2, CalibrateGivesTexts
  <2>2. /\ IsText(WithGatewayBlock(fit.text))
        /\ Models(disk) \subseteq DOMAIN WithGatewayBlock(fit.text).models
    <3>1. {"gateway", "models"} \subseteq DOMAIN fit.text
      BY <2>1 DEF IsText, Empty
    <3> DEFINE text == WithGatewayBlock(fit.text)
    <3>2. CASE disk = None
      BY <2>1, <3>2 DEF WithGatewayBlock, Models
    <3>3. CASE disk # None
      <4>1. text = [fit.text EXCEPT !.gateway = disk[1].gateway, !.models = disk[1].models]
        BY <3>3 DEF WithGatewayBlock
      <4>2. IsText(disk[1])
        BY <3>3 DEF FileIsText
      <4> HIDE DEF text
      <4>3. /\ DOMAIN text = DOMAIN fit.text /\ text.lexicon = fit.text.lexicon
            /\ text.classifier = fit.text.classifier /\ text.tiers = fit.text.tiers
            /\ text.gateway = disk[1].gateway /\ text.models = disk[1].models
        BY <3>1, <4>1
      <4>4. IsText(text)
        BY <2>1, <4>2, <4>3 DEF IsText
      <4>5. Models(disk) \subseteq DOMAIN text.models
        BY <3>3, <4>3 DEF Models
      <4>6. QED
        BY <4>4, <4>5 DEF text
    <3>4. QED
      BY <3>2, <3>3
  <2>3. fit.job.kind = "recalibrate"
    BY <1>1, <2>1 DEF AgentsKept
  <2> DEFINE doing == [at |-> "write", job |-> fit.job, samples |-> fit.samples,
                       text |-> WithGatewayBlock(fit.text)]
  <2>4. /\ {"at", "job", "text"} \subseteq DOMAIN doing /\ doing.at = "write"
        /\ doing.job = fit.job /\ doing.text = WithGatewayBlock(fit.text)
        /\ agent' = [agent EXCEPT ![a] = doing]
    BY <1>3
  <2>5. /\ doing.job.kind \in Fitters \cap Writers
        /\ doing.job.kind # "add-model" /\ IsText(doing.text)
        /\ Models(disk) \subseteq DOMAIN doing.text.models
    BY <2>2, <2>3, <2>4 DEF Fitters, Writers
  <2>6. scars' = scars \cup Overlap(a)
    BY <1>3
  <2> HIDE DEF doing
  <2>7. QED
    BY <1>1, <2>4, <2>5, <2>6, WriteKeeps
<1>4. QED
  BY <1>2, <1>3 DEF Refit

(* Labels, and the service, are none of the file's business.                *)
LEMMA ContinueKeeps ==
    ASSUME FileInv, LogInv, NEW a \in Agents, Continue(a)
    PROVE  FileInv'
<1> USE DEF FileInv
<1>1. CASE Refit(a)
  BY <1>1, RefitKeeps
<1>2. CASE Truncate(a)
  BY <1>2, TruncateKeeps
<1>3. CASE Fill(a)
  BY <1>3, FillKeeps
<1>4. ASSUME NEW doing, "at" \in DOMAIN doing, doing.at \in {"ask", "newline", "idle"},
             agent' = [agent EXCEPT ![a] = doing], agent[a].at # "fill",
             UNCHANGED <<disk, added, scars>>
      PROVE  FileInv'
  BY <1>4, ProgressKeeps
<1>5. CASE WriteRow(a)
  <2> DEFINE doing == [agent[a] EXCEPT !.at = "newline", !.left = Tail(@)]
  <2>1. "at" \in DOMAIN doing /\ doing.at = "newline"
    BY DEF AgentsKept
  <2>2. /\ agent' = [agent EXCEPT ![a] = doing] /\ agent[a].at = "ask"
        /\ UNCHANGED <<disk, added, scars>>
    BY <1>5 DEF WriteRow, AgentsKept
  <2> HIDE DEF doing
  <2>3. QED
    BY <1>4, <2>1, <2>2
<1>6. CASE EndLine(a)
  <2> DEFINE doing == [agent[a] EXCEPT !.at = "ask"]
  <2>1. "at" \in DOMAIN doing /\ doing.at = "ask"
    BY DEF AgentsKept
  <2>2. /\ agent' = [agent EXCEPT ![a] = doing] /\ agent[a].at = "newline"
        /\ UNCHANGED <<disk, added, scars>>
    BY <1>6 DEF EndLine, AgentsKept
  <2> HIDE DEF doing
  <2>3. QED
    BY <1>4, <2>1, <2>2
<1>7. CASE Abstain(a)
  <2> DEFINE doing == [agent[a] EXCEPT !.left = Tail(@)]
  <2>1. "at" \in DOMAIN doing /\ doing.at = "ask"
    BY <1>7 DEF AgentsKept, Abstain
  <2>2. /\ agent' = [agent EXCEPT ![a] = doing] /\ agent[a].at = "ask"
        /\ UNCHANGED <<disk, added, scars>>
    BY <1>7 DEF Abstain, AgentsKept
  <2> HIDE DEF doing
  <2>3. QED
    BY <1>4, <2>1, <2>2
<1>8. "at" \in DOMAIN Idle /\ Idle.at = "idle"
  BY DEF Idle
<1>9. CASE EndLabelling(a)
  <2>1. /\ agent' = [agent EXCEPT ![a] = Idle] /\ agent[a].at = "ask"
        /\ UNCHANGED <<disk, added, scars>>
    BY <1>9 DEF EndLabelling
  <2>2. QED
    BY <1>4, <1>8, <2>1
<1>10. CASE Enable(a)
  <2>1. /\ agent' = [agent EXCEPT ![a] = Idle] /\ agent[a].at = "enable"
        /\ UNCHANGED <<disk, added, scars>>
    BY <1>10 DEF Enable
  <2>2. QED
    BY <1>4, <1>8, <2>1
<1>11. CASE RemoveUnit(a)
  <2>1. /\ agent' = [agent EXCEPT ![a] = Idle] /\ agent[a].at = "remove"
        /\ UNCHANGED <<disk, added, scars>>
    BY <1>11 DEF RemoveUnit
  <2>2. QED
    BY <1>4, <1>8, <2>1
<1>12. QED
  BY <1>1, <1>2, <1>3, <1>5, <1>6, <1>7, <1>9, <1>10, <1>11 DEF Continue

(* An agent that is killed while it fills the file leaves a scar.           *)
LEMMA KillKeeps ==
    ASSUME FileInv, NEW a \in Agents, Kill(a)
    PROVE  FileInv'
<1>1. "at" \in DOMAIN Idle /\ Idle.at \notin {"write", "fill", "count"}
  BY DEF Idle
<1>2. /\ agent' = [agent EXCEPT ![a] = Idle] /\ UNCHANGED <<disk, added>>
      /\ scars \subseteq scars' /\ (agent[a].at # "fill" \/ "kill" \in scars')
  BY DEF Kill
<1>3. QED
  BY <1>1, <1>2, AsideKeeps

(* The gateway reads the file and never writes it.                          *)
LEMMA SameKeeps ==
    ASSUME FileInv, UNCHANGED <<disk, agent, added, scars>>
    PROVE  FileInv'
BY DEF FileInv, AgentsKept, FileIsText, WritesAlone, WritesParsed, WritesKeep,
       Filling, Models, Sound, Writing

LEMMA NextKeeps ==
    ASSUME FileInv, LogInv, ShownInv, [Next]_vars
    PROVE  FileInv'
<1>1. ASSUME NEW a \in Agents, Take(a) \/ Continue(a) \/ Kill(a)
      PROVE  FileInv'
  BY <1>1, TakeKeeps, ContinueKeeps, KillKeeps
<1>2. CASE Serve \/ Crash \/ Restart \/ UNCHANGED vars
  <2>1. UNCHANGED <<disk, agent, added, scars>>
    BY <1>2 DEF Serve, Crash, Restart, vars
  <2>2. QED
    BY <2>1, SameKeeps
<1>3. QED
  BY <1>1, <1>2 DEF Next

LEMMA InitHolds ==
    ASSUME Init PROVE FileInv
<1>1. \A a \in Agents : ~Writing(a) /\ agent[a].at = "idle"
  BY DEF Init, Writing, Idle
<1>2. AgentsKept
  BY <1>1 DEF AgentsKept, Init, Idle
<1>3. FileIsText /\ Sound(disk)
  BY WorkspaceAssumption DEF Init, FileIsText, Sound
<1>4. WritesAlone /\ WritesParsed /\ WritesKeep
  BY <1>1, <1>3 DEF Init, WritesAlone, WritesParsed, WritesKeep
<1>5. QED
  BY <1>2, <1>3, <1>4 DEF FileInv

LEMMA ShownKeeps ==
    ASSUME FileInv, ShownInv, [Next]_vars
    PROVE  ShownInv'
<1>1. CASE serving' = None
  BY <1>1 DEF ShownInv
<1>2. CASE UNCHANGED serving
  BY <1>2 DEF ShownInv
<1>3. CASE Load
  <2> DEFINE loaded == IF disk = None THEN Defaults ELSE LoadedFrom(disk[1])
  <2>1. serving' = Some(loaded)
    BY <1>3 DEF Load
  <2>2. Shows(loaded)
    <3>1. CASE disk = None
      <4>1. Shows(Defaults)
        BY EmptyLoads, DefaultsAreLoaded, ShownIsText, ShownIs DEF Shows
      <4>2. QED
        BY <3>1, <4>1
    <3>2. CASE disk # None
      <4>1. IsText(disk[1]) /\ Loads(disk[1])
        BY <1>3, <3>2 DEF FileInv, FileIsText, Load
      <4>2. Shows(LoadedFrom(disk[1]))
        BY <4>1, LoadedIs, ShownIsText, ShownIs DEF Shows
      <4>3. QED
        BY <3>2, <4>2
    <3>3. QED
      BY <3>1, <3>2
  <2> HIDE DEF loaded
  <2>3. QED
    BY <2>1, <2>2 DEF ShownInv
<1>4. ASSUME NEW a \in Agents, Take(a) PROVE serving' = None \/ UNCHANGED serving
  BY <1>4 DEF Take, Edit, Scaffold, Save, CalibrateInto, CountLabels, BeginFeedback,
              BeginLabelling, Install, Uninstall
<1>5. ASSUME NEW a \in Agents, Continue(a) \/ Kill(a) PROVE UNCHANGED serving
  BY <1>5 DEF Continue, Kill, Refit, Truncate, Fill, WriteRow, EndLine, Abstain,
              EndLabelling, Enable, RemoveUnit
<1>6. Serve \/ Crash \/ Restart \/ UNCHANGED vars
         => Load \/ serving' = None \/ UNCHANGED serving
  BY DEF Serve, Crash, Restart, vars
<1>7. QED
  BY <1>1, <1>2, <1>3, <1>4, <1>5, <1>6 DEF Next

(* The file, and what is about to be written into it, through every step of *)
(* every agent and of the gateway.                                          *)
THEOREM FileInvariant == Spec => [](FileInv /\ ShownInv)
<1>1. Init => FileInv /\ ShownInv
  BY InitHolds DEF Init, ShownInv
<1>2. FileInv /\ ShownInv /\ LogInv /\ [Next]_vars => (FileInv /\ ShownInv)'
  BY NextKeeps, ShownKeeps
<1>3. QED
  BY <1>1, <1>2, LogInvariant, PTL DEF Spec

-----------------------------------------------------------------------------
(* The next start of the gateway does not fail over the file: a text that   *)
(* it refuses gets there only by two agents that write at once, by a kill   *)
(* in the middle of fs::write, or from a fit.                               *)
THEOREM TheFileIsSound == Spec => []FileIsSound
<1>1. FileInv => FileIsSound
  BY DEF FileInv, WritesParsed, FileIsSound
<1>2. QED
  BY <1>1, FileInvariant, PTL

(* A model that config add-model reported as added is in the file from then *)
(* on, through every later edit and every recalibration.                    *)
THEOREM TheAddedModelsStay == Spec => []AddedModelsStay
<1>1. FileInv => AddedModelsStay
  BY DEF FileInv, WritesKeep, AddedModelsStay, Models
<1>2. QED
  BY <1>1, FileInvariant, PTL

(* What a running gateway shows of its configuration loads back to what it  *)
(* runs, at six decimals, as long as its names and strings are ones that    *)
(* TOML reads back and its numbers keep apart.                              *)
THEOREM TheShownLoadsBack == Spec => []ShownLoadsBack
<1>1. ShownInv => ShownLoadsBack
  BY DEF ShownInv, ShownLoadsBack, Shows, Some, None, ToSet
<1>2. QED
  BY <1>1, FileInvariant, PTL
=============================================================================
