---------------------------- MODULE MCWorkspace ----------------------------
(* Three prompts of low, middle and high complexity, a file with two models *)
(* or none, and a log of three labels.                                      *)
EXTENDS Workspace

Counts(words, items, blocks) ==
    [f \in FeatureNames |-> CASE f = "word_count" -> words
                              [] f = "list_item_count" -> items
                              [] f = "code_block_count" -> blocks
                              [] OTHER -> 0]

MCFeatures ==
    [hello |-> Counts(1, 0, 0), report |-> Counts(400, 0, 0),
     refactor |-> Counts(400, 15, 4)]

Says(text) == [text |-> text, refusal |-> FALSE]
Refuses == [text |-> <<"n", "o">>, refusal |-> TRUE]

(* Answers that agree, that differ, and that only one arm gives.            *)
MCAnswers ==
    [hello |-> [cheap |-> Says(<<"h", "i">>), expensive |-> Says(<<"h", "i">>)],
     report |-> [cheap |-> Says(<<"a", "b">>), expensive |-> Says(<<"c">>)],
     refactor |-> [cheap |-> Refuses, expensive |-> Says(<<"o", "k">>)]]

Row(text, label) == [text |-> text, label |-> label]

MCLog == <<Row("hello", "local"), Row("refactor", "cloud"), Row("report", "local")>>

MCFirstLogs == {MCLog}

Endpoint(model) == [base_url |-> "http://upstream", model |-> model]

TwoModels ==
    [Empty EXCEPT
        !.tiers = Some(<<Tier(0, "local", None),
                         Tier(InGrains(50), "cloud", None)>>),
        !.models = [local |-> Endpoint("small"), cloud |-> Endpoint("large")]]

MCFirstTexts == {None, Some(TwoModels)}

(* A text whose gateway half does not parse.                                *)
Dangling == [TwoModels EXCEPT !.models.local =
                ("fallbacks" :> <<"nobody">>) @@ Endpoint("small")]

(* A text with weights, a lexicon, a threshold and settings of its own,     *)
(* some with more than six decimals.                                        *)
OtherModels ==
    [TwoModels EXCEPT
        !.tiers = None, !.threshold = Some(InGrains(70) + 2),
        !.weights = [word_count |-> InGrains(450) + 1,
                     math_symbol_count |-> InGrains(50)],
        !.lexicon = [reasoning_terms |-> <<"prove", "derive">>],
        !.gateway = [retries |-> 3, offline |-> FALSE,
                     cache |-> [ttl |-> 0, max_entries |-> 8],
                     rate_limit |-> [rpm |-> 10, window |-> One + 3],
                     keys |-> [team |-> "hash"]],
        !.models.cloud = [cost_per_1k |-> 150, enabled |-> FALSE]
                            @@ Endpoint("large")]

(* Texts of a model that is named by its version and a window that is zero  *)
(* at six decimals, and of a command with quotes and tiers that are not     *)
(* apart at six decimals.                                                   *)
ByVersion ==
    [TwoModels EXCEPT
        !.tiers[1][1].model = "gpt-4.1",
        !.gateway = [rate_limit |-> [rpm |-> 10, window |-> 1]],
        !.models = [cloud |-> Endpoint("large")] @@ "gpt-4.1" :> Endpoint("gpt")]

Quoting ==
    [TwoModels EXCEPT
        !.tiers[1][2].min_score = 1,
        !.models.cloud = [api_key_env |-> "KEY", api_key_cmd |-> "cat \"key\""]
                            @@ Endpoint("large")]

MCRaw(string) == IF string = "cat \"key\"" THEN None ELSE Some(string)

MCDebugged(string) == TRUE

MCKeyPath(name) == IF name = "gpt-4.1" THEN <<"gpt-4", "1">> ELSE <<name>>

(* Two costs of more than six decimals.                                     *)
Costs == [local |-> 150, cloud |-> 602]

MCFit(samples, order) ==
    [c \in DOMAIN order |->
        [intercept |-> 2 - c * One,
         weights |-> [f \in FeatureNames |->
                         IF f = "word_count" THEN c * One + 1 ELSE 0]]]

MCNameOrder == <<"cloud", "hosted", "local">>

MCEnvThreshold == None

Labelling(kind, prompts) ==
    [kind |-> kind, prompts |-> prompts, cheap |-> "local",
     expensive |-> "cloud", gold |-> <<Row("hello", "local"),
                                       Row("refactor", "cloud"),
                                       Row("report", "cloud")>>,
     mode |-> "threshold"]

Recalibrate(mode, min_labels) ==
    [kind |-> "recalibrate", mode |-> mode, min_labels |-> min_labels]

MCJobs ==
    {[kind |-> "set", value |-> TRUE],
     [kind |-> "add-model", name |-> "hosted", table |-> Endpoint("huge")],
     [kind |-> "set-model", name |-> "local",
      keys |-> [fallbacks |-> <<"hosted">>]],
     [kind |-> "set-threshold", model |-> "cloud", min_score |-> 1],
     [kind |-> "set-threshold", model |-> "cloud",
      min_score |-> InGrains(70) + 2],
     [kind |-> "init", text |-> TwoModels, force |-> FALSE],
     [kind |-> "save", text |-> Some(Dangling), posted |-> FALSE],
     [kind |-> "save", text |-> Some(OtherModels), posted |-> FALSE],
     [kind |-> "save", text |-> Some(ByVersion), posted |-> FALSE],
     [kind |-> "save", text |-> Some(Quoting), posted |-> FALSE],
     [kind |-> "save", text |-> None, posted |-> TRUE],
     [kind |-> "calibrate", mode |-> "tiers", options |-> DefaultOptions],
     [kind |-> "calibrate", mode |-> "threshold",
      options |-> [DefaultOptions EXCEPT !.objective = "knee",
                                         !.costs = Some(Costs)]],
     Recalibrate("threshold", 3),
     Recalibrate("classifier", 4),
     [kind |-> "feedback", prompts |-> <<"report">>, label |-> "cloud",
      posted |-> TRUE],
     Labelling("onboard", <<"report">>),
     Labelling("judge", <<"report", "hello">>),
     [kind |-> "install"],
     [kind |-> "uninstall"]}

(* The counterexamples.                                                     *)
Greetings == {<<Row("hello", "local"), Row("hello", "cloud")>>}
RecalibrateOnly == {Recalibrate("threshold", 2)}
=============================================================================
