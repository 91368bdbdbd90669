----------------------------- MODULE ConfigFile -----------------------------
(***************************************************************************)
(* wayfinder-router.toml: what its two parsers accept, what the dumpers     *)
(* write and what the line editors of the command line change (config.rs,   *)
(* and the [gateway] half in lib.rs).                                       *)
(*                                                                         *)
(* A text is the record of the keys that stand in it; Torn is a text that   *)
(* is no TOML.  An optional key is a sequence of at most one value, and so  *)
(* is a result: None is a refusal.                                          *)
(*                                                                         *)
(* A number with a fraction is counted in grains, quarters of the sixth     *)
(* decimal: the dumpers write six, so what they round away is there, a half *)
(* of a digit and what is less or more.  Infinities, NaN and numbers with   *)
(* more digits than a double has are left out.                              *)
(***************************************************************************)
EXTENDS Complexity, SequencesExt, TLC

CONSTANTS
    DefaultThreshold,   \* DEFAULT_THRESHOLD
    EnvThreshold,       \* WAYFINDER_ROUTER_THRESHOLD, when it is set
    MaxLexiconTerms,    \* MAX_LEXICON_TERMS
    Raw(_),             \* what TOML reads where a string stands between
                        \* quotes as it is; None when that is no TOML
    Debugged(_),        \* is the string as {:?} escapes it a TOML string?
    KeyPath(_)          \* the keys that TOML reads in a header where a name
                        \* stands as it is: none, one, or those of a path

Some(x) == <<x>>
None == << >>

OrElse(option, default) == IF option = None THEN default ELSE option[1]
MapOption(Op(_), option) == [i \in DOMAIN option |-> Op(option[i])]

(* A table with some keys set.                                              *)
Over(keys, table) ==
    [k \in DOMAIN keys \cup DOMAIN table |->
        IF k \in DOMAIN keys THEN keys[k] ELSE table[k]]

(* The numbers.                                                             *)
Hundredth == 40000
One == 100 * Hundredth

InGrains(hundredths) == hundredths * Hundredth

(* fmt_num, python_float_repr: six decimals, a half away from zero.         *)
Printed(n) ==
    IF n >= 0 THEN 4 * ((n + 2) \div 4) ELSE -(4 * ((2 - n) \div 4))

(* fmt_float of calibrate.rs: six decimals, a half to the even neighbour.   *)
Emitted(n) == 4 * RoundHalfEven(n, 4)

(* The keys whose values are numbers with a fraction.                       *)
FloatKeys == {"breaker_cooldown", "ttl", "window", "cost_per_1k"}

PrintedIn(table) ==
    [k \in DOMAIN table |->
        IF k \in FloatKeys THEN Printed(table[k]) ELSE table[k]]

(* A file of no bytes parses: every key is missing.                         *)
Empty ==
    [toml |-> TRUE, weights |-> << >>, lexicon |-> << >>, tiers |-> None,
     classifier |-> None, threshold |-> None, gateway |-> << >>,
     models |-> << >>]

IsList(value) == value \in Seq(ToSet(value))

IsTable(value) == value = [k \in DOMAIN value |-> value[k]]

IsOption(value) == value = None \/ value = Some(value[1])

IsLadder(tiers) ==
    /\ IsList(tiers)
    /\ \A i \in DOMAIN tiers :
          /\ DOMAIN tiers[i] = {"min_score", "model", "cost"}
          /\ IsOption(tiers[i].cost)

AreSettings(table) ==
    /\ "rate_limit" \in DOMAIN table
          => DOMAIN table.rate_limit \subseteq {"rpm", "tpm", "window"}
    /\ "keys" \in DOMAIN table => IsTable(table.keys)

IsModel(table) == "fallbacks" \in DOMAIN table => IsList(table.fallbacks)

(* The keys, and a list or a table where the parser asks for one.           *)
IsText(text) ==
    /\ DOMAIN text = DOMAIN Empty
    /\ \A key \in DOMAIN text.lexicon : IsList(text.lexicon[key])
    /\ text.classifier # None => IsList(text.classifier[1].models)
    /\ text.tiers # None => IsLadder(text.tiers[1])
    /\ AreSettings(text.gateway)
    /\ \A name \in DOMAIN text.models : IsModel(text.models[name])

Torn == [Empty EXCEPT !.toml = FALSE]

-----------------------------------------------------------------------------
(* [routing].                                                               *)

InUnit(n) == n \in 0..One

(* parse_threshold and apply_env_threshold: the environment overrides the   *)
(* binary ladder only.                                                      *)
BinaryThreshold(text) ==
    OrElse(EnvThreshold, OrElse(text.threshold, DefaultThreshold))

ThresholdParses(text) ==
    /\ text.threshold # None => InUnit(text.threshold[1])
    /\ EnvThreshold # None => InUnit(EnvThreshold[1])

(* parse_weights: known features, none negative; the rest keep the default. *)
WeightsParse(table) ==
    /\ DOMAIN table \subseteq FeatureNames
    /\ \A f \in DOMAIN table : table[f] \in Nat

(* DEFAULT_WEIGHTS, which Complexity has in halves.                         *)
FileWeights == [f \in FeatureNames |-> InGrains(50 * DefaultWeights[f])]

WeightsOf(table) == Over(table, FileWeights)

LexiconKeys == {"reasoning_terms", "constraint_terms"}

(* parse_lexicon and term_list: no empty term; terms come out sorted and    *)
(* distinct, as a set.                                                      *)
LexiconParses(table) ==
    /\ DOMAIN table \subseteq LexiconKeys
    /\ \A k \in DOMAIN table :
          /\ Len(table[k]) <= MaxLexiconTerms
          /\ \A i \in DOMAIN table[k] : table[k][i] # ""

LexiconOf(table) == [k \in DOMAIN table |-> ToSet(table[k])]

(* parse_tiers: from zero, strictly upwards, every tier with a model.       *)
TiersParse(tiers) ==
    /\ tiers # << >>
    /\ \A i \in DOMAIN tiers : /\ InUnit(tiers[i].min_score)
                               /\ tiers[i].model # ""
                               /\ tiers[i].cost # None => tiers[i].cost[1] \in Nat
    /\ tiers[1].min_score = 0
    /\ \A i \in 1..(Len(tiers) - 1) :
          tiers[i].min_score < tiers[i + 1].min_score

(* parse_classifier, parse_models and number_vector.                        *)
ClassifierParses(classifier) ==
    LET classes == Len(classifier.models)
    IN  /\ classes >= 2
        /\ IsInjective(classifier.models)
        /\ \A c \in 1..classes : classifier.models[c] # ""
        /\ Len(classifier.intercepts) = classes
        /\ DOMAIN classifier.weights \subseteq FeatureNames
        /\ \A f \in DOMAIN classifier.weights :
              Len(classifier.weights[f]) = classes

(* The classes of Complexity, a feature without a vector weighing nothing.  *)
ClassesOf(classifier) ==
    [c \in DOMAIN classifier.models |->
        [model |-> classifier.models[c],
         intercept |-> classifier.intercepts[c],
         weights |-> [f \in FeatureNames |->
                         IF f \in DOMAIN classifier.weights
                         THEN classifier.weights[f][c] ELSE 0]]]

RoutingParses(text) ==
    /\ text.toml
    /\ WeightsParse(text.weights)
    /\ LexiconParses(text.lexicon)
    /\ IF text.classifier # None THEN ClassifierParses(text.classifier[1])
       ELSE IF text.tiers # None THEN TiersParse(text.tiers[1])
       ELSE ThresholdParses(text)

Costless(tiers) ==
    [i \in DOMAIN tiers |->
        [min_score |-> tiers[i].min_score, model |-> tiers[i].model,
         cost |-> None]]

(* default_binary_config: binary_tiers carries no cost.                     *)
Binary(threshold) == Costless(BinaryTiers(threshold))

(* routing_config_from_toml, of a text that parses.                         *)
RoutingFrom(text) ==
    [weights |-> WeightsOf(text.weights),
     lexicon |-> LexiconOf(text.lexicon),
     classifier |-> IF text.classifier = None THEN << >>
                    ELSE ClassesOf(text.classifier[1]),
     tiers |-> IF text.classifier # None THEN Binary(DefaultThreshold)
               ELSE OrElse(text.tiers, Binary(BinaryThreshold(text)))]

(* find_config_file: the override when there is one, even if it names no    *)
(* file; otherwise the nearest directory at or above that holds one.        *)
FindConfigFile(override, ancestors, files) ==
    LET found == {i \in DOMAIN ancestors : ancestors[i] \in files}
    IN  IF override # None
        THEN IF override[1] \in files THEN override ELSE None
        ELSE IF found = {} THEN None ELSE Some(ancestors[Min(found)])

(* The strings that dump_routing_toml writes.                               *)
RoutingStrings(routing) ==
    UNION {routing.lexicon[k] : k \in DOMAIN routing.lexicon}
    \cup IF HasClassifier(routing)
         THEN {routing.classifier[c].model : c \in DOMAIN routing.classifier}
         ELSE {routing.tiers[i].model : i \in DOMAIN routing.tiers}

PrintedTiers(tiers) ==
    [i \in DOMAIN tiers |->
        [min_score |-> Printed(tiers[i].min_score), model |-> tiers[i].model,
         cost |-> MapOption(Printed, tiers[i].cost)]]

PrintedWeights(weights) == [f \in DOMAIN weights |-> Printed(weights[f])]

(* dump_routing_toml: weights and lexicon that are not the default, then    *)
(* the classifier or the ladder; a threshold comes out as a ladder.         *)
DumpRouting(routing) ==
    IF \E term \in RoutingStrings(routing) : ~Debugged(term) THEN Torn
    ELSE [Empty EXCEPT
        !.weights = IF routing.weights = FileWeights THEN << >>
                    ELSE PrintedWeights(routing.weights),
        !.lexicon = [k \in DOMAIN routing.lexicon |->
                        SetToSeq(routing.lexicon[k])],
        !.classifier =
            IF ~HasClassifier(routing) THEN None
            ELSE Some([models |-> [c \in DOMAIN routing.classifier |->
                                      routing.classifier[c].model],
                       intercepts |-> [c \in DOMAIN routing.classifier |->
                                   Printed(routing.classifier[c].intercept)],
                       weights |-> [f \in FeatureNames |->
                           [c \in DOMAIN routing.classifier |->
                               Printed(routing.classifier[c].weights[f])]]]),
        !.tiers = IF HasClassifier(routing) THEN None
                  ELSE Some(PrintedTiers(routing.tiers))]

-----------------------------------------------------------------------------
(* [gateway].  The table holds the settings, the models stand by name; both *)
(* hold only the keys that are written.                                     *)

At(table, key, default) == IF key \in DOMAIN table THEN table[key] ELSE default

DefaultGateway ==
    [retries |-> 2, offline |-> FALSE, breaker_threshold |-> 5,
     breaker_cooldown |-> 30 * One, failover |-> "same-tier", keys |-> << >>]

CacheDefaults ==
    [ttl |-> 300 * One, max_entries |-> 1024, max_bytes |-> 67108864]

LimitDefaults == [window |-> 60 * One]

FailoverPolicies == {"same-tier", "escalate", "degrade"}

(* parse_cache_config and parse_rate_limit_config.                          *)
CacheParses(cache) ==
    /\ At(cache, "ttl", 0) \in Nat
    /\ At(cache, "max_entries", 1) > 0
    /\ At(cache, "max_bytes", 1) > 0

RateLimitParses(limit) ==
    /\ {"rpm", "tpm"} \cap DOMAIN limit # {}
    /\ \A k \in DOMAIN limit : limit[k] \in Nat \ {0}

(* A virtual key stands for its hash, "" for one that is no SHA-256 digest. *)
KeysParse(keys) == \A id \in DOMAIN keys : keys[id] # ""

SettingsParse(table) ==
    /\ At(table, "retries", 0) >= 0
    /\ At(table, "breaker_threshold", 1) > 0
    /\ At(table, "breaker_cooldown", 0) \in Nat
    /\ At(table, "failover", "same-tier") \in FailoverPolicies
    /\ "cache" \in DOMAIN table => CacheParses(table.cache)
    /\ "rate_limit" \in DOMAIN table => RateLimitParses(table.rate_limit)
    /\ "keys" \in DOMAIN table => KeysParse(table.keys)

Fallbacks(model) == At(model, "fallbacks", << >>)

IsEnabled(model) == At(model, "enabled", TRUE)

StringKeys == {"base_url", "model", "api_key_env", "api_key_cmd"}

ModelParses(models, name) ==
    LET model == models[name]
    IN  /\ {"base_url", "model"} \subseteq DOMAIN model
        /\ \A k \in DOMAIN model \cap StringKeys : model[k] # ""
        /\ "api_key_cmd" \in DOMAIN model => "api_key_env" \in DOMAIN model
        /\ At(model, "cost_per_1k", 0) \in Nat
        /\ At(model, "context_window", 1) > 0
        /\ \A i \in DOMAIN Fallbacks(model) :
              Fallbacks(model)[i] \in DOMAIN models \ {name}

(* parse_gateway_config.                                                    *)
GatewayParses(text) ==
    /\ text.toml
    /\ SettingsParse(text.gateway)
    /\ \A name \in DOMAIN text.models : ModelParses(text.models, name)

(* As loaded: a setting that is absent has its default, of the gateway and  *)
(* of the cache and the rate limit it has; an absent list of fallbacks is   *)
(* empty, an absent switch is on.                                           *)
SettingsFrom(table) ==
    LET settings == Over(table, DefaultGateway)
    IN  [k \in DOMAIN settings |->
            CASE k = "cache" -> Over(Over(settings[k], [enabled |-> FALSE]),
                                     CacheDefaults)
              [] k = "rate_limit" -> Over(settings[k], LimitDefaults)
              [] OTHER -> settings[k]]

ModelDefaults == [fallbacks |-> << >>, enabled |-> TRUE]

GatewayFrom(text) ==
    [settings |-> SettingsFrom(text.gateway),
     models |-> [name \in DOMAIN text.models |->
                    Over(text.models[name], ModelDefaults)]]

(* Tables of names, as TOML reads them when the names stand in the headers  *)
(* as they are: a path makes a table inside of a table, where no parser     *)
(* looks; a path twice, or one through a value, is no TOML.                 *)
HeadersParse(tables) ==
    \A m \in DOMAIN tables :
        /\ KeyPath(m) # << >>
        /\ \A n \in DOMAIN tables \ {m} :
              LET depth == Len(KeyPath(m))
              IN  IsPrefix(KeyPath(m), KeyPath(n)) =>
                    /\ Len(KeyPath(n)) > depth
                    /\ KeyPath(n)[depth + 1] \notin DOMAIN tables[m]

Headed(tables) ==
    [key \in {KeyPath(n)[1] : n \in DOMAIN tables} |->
        LET named == {n \in DOMAIN tables : KeyPath(n) = <<key>>}
        IN  IF named = {} THEN << >> ELSE tables[CHOOSE n \in named : TRUE]]

(* dump_gateway_toml: a setting or a switch at its default is not written.  *)
WithoutDefaults(table, defaults) ==
    Restrict(table, {k \in DOMAIN table :
                        k \in DOMAIN defaults => table[k] # defaults[k]})

WrittenKeys(keys) == [id \in DOMAIN keys |-> [hash |-> keys[id]]]

(* The settings: what is no default, the cache and the rate limit each      *)
(* without their own defaults, and the keys.                                *)
DumpSettings(settings) ==
    LET written == PrintedIn(WithoutDefaults(settings, DefaultGateway))
    IN  [k \in DOMAIN written |->
            CASE k = "cache" ->
                    PrintedIn(WithoutDefaults(written[k], CacheDefaults))
              [] k = "rate_limit" ->
                    PrintedIn(WithoutDefaults(written[k], LimitDefaults))
              [] k = "keys" ->
                    LET read == Headed(WrittenKeys(written[k]))
                    IN  [id \in DOMAIN read |-> At(read[id], "hash", "")]
              [] OTHER -> written[k]]

(* The strings of a model that are written as they are.                     *)
ModelStrings(model) ==
    {model[k] : k \in DOMAIN model \cap StringKeys} \cup ToSet(Fallbacks(model))

ReadRaw(string) == Raw(string)[1]

(* Mutant of DumpModel: one that is switched off is written without switch. *)
DumpModelSwitchedOn(model) ==
    LET written == PrintedIn(WithoutDefaults(model, ModelDefaults))
    IN  [k \in DOMAIN written \ {"enabled"} |->
            CASE k \in StringKeys -> ReadRaw(written[k])
              [] k = "fallbacks" -> [i \in DOMAIN written[k] |->
                                        ReadRaw(written[k][i])]
              [] OTHER -> written[k]]

DumpModel(model) ==
    LET written == PrintedIn(WithoutDefaults(model, ModelDefaults))
    IN  [k \in DOMAIN written |->
            CASE k \in StringKeys -> ReadRaw(written[k])
              [] k = "fallbacks" -> [i \in DOMAIN written[k] |->
                                        ReadRaw(written[k][i])]
              [] OTHER -> written[k]]

DumpGateway(gateway) ==
    LET models == [name \in DOMAIN gateway.models |->
                      DumpModel(gateway.models[name])]
    IN  IF /\ \A name \in DOMAIN gateway.models :
                 \A string \in ModelStrings(gateway.models[name]) :
                    Raw(string) # None
           /\ HeadersParse(models)
           /\ HeadersParse(WrittenKeys(gateway.settings.keys))
        THEN [Empty EXCEPT !.gateway = DumpSettings(gateway.settings),
                           !.models = Headed(models)]
        ELSE Torn

(* validate_full_config; read_config refuses the same texts.                *)
Loads(text) == RoutingParses(text) /\ GatewayParses(text)

(* read_config, and load_config when there is no file: the environment does *)
(* not reach the defaults of a gateway without file.                        *)
LoadedFrom(text) ==
    [routing |-> RoutingFrom(text), gateway |-> GatewayFrom(text)]

Defaults ==
    [routing |-> [RoutingFrom(Empty) EXCEPT !.tiers = Binary(DefaultThreshold)],
     gateway |-> GatewayFrom(Empty)]

(* current_config_text: the one half and the other.                         *)
CurrentText(loaded) ==
    LET gateway == DumpGateway(loaded.gateway)
    IN  [DumpRouting(loaded.routing) EXCEPT !.toml = @ /\ gateway.toml,
                                            !.gateway = gateway.gateway,
                                            !.models = gateway.models]

(* model_ids: the configured models, or those the routing names.            *)
ModelIds(loaded) ==
    IF DOMAIN loaded.gateway.models # {} THEN DOMAIN loaded.gateway.models
    ELSE IF HasClassifier(loaded.routing)
    THEN {loaded.routing.classifier[c].model :
             c \in DOMAIN loaded.routing.classifier}
    ELSE {loaded.routing.tiers[i].model : i \in DOMAIN loaded.routing.tiers}

-----------------------------------------------------------------------------
(* Line editors: the text with one key changed, or None.                    *)

(* set_toml_bool on [gateway].                                              *)
SetOffline(text, value) ==
    [text EXCEPT !.gateway = Over([offline |-> value], text.gateway)]

(* set_toml_bool and set_toml_string_list on [gateway.models.<name>].       *)
SetModelKeys(text, name, keys) ==
    [text EXCEPT !.models[name] = Over(keys, @)]

(* add_model_table: a table of that name is never added to; fmt_num rounds. *)
AddModelTable(text, name, table) ==
    IF name \in DOMAIN text.models THEN None
    ELSE Some([text EXCEPT !.models =
                [n \in {name} \cup DOMAIN text.models |->
                    IF n = name THEN PrintedIn(table) ELSE text.models[n]]])

(* set_tier_min_score: the first tier of that model; fmt_num rounds.        *)
SetTierMinScore(text, model, min_score) ==
    LET tiers == OrElse(text.tiers, << >>)
        named == {i \in DOMAIN tiers : tiers[i].model = model}
    IN  IF named = {} THEN None
        ELSE Some([text EXCEPT
                     !.tiers = Some([tiers EXCEPT
                         ![Min(named)].min_score = Printed(min_score)])])
=============================================================================
