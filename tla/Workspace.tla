----------------------------- MODULE Workspace -----------------------------
(***************************************************************************)
(* What the programs of one directory share: wayfinder-router.toml, the     *)
(* feedback log, and the gateway that runs there, by hand or as a service.  *)
(*                                                                         *)
(* An agent is a command line, a request of the local UI or a handler of    *)
(* the gateway at work.  It reads, decides and only then writes: fs::write  *)
(* opens the file, which empties it, and fills it in a second call; a label *)
(* is written in one call and the end of its line in another.  Between any  *)
(* two calls other agents run, and an agent may be killed.                  *)
(***************************************************************************)
EXTENDS Judging

CONSTANTS
    Agents,
    Jobs,           \* what an agent can be asked to do
    MaxJobs,        \* bound: the jobs that are begun
    FirstTexts,     \* the configuration files to begin with, None for no file
    FirstLogs,      \* the labels logged to begin with
    Features,       \* the features of each prompt
    Answers         \* by prompt, the answers of the two arms

Prompts == DOMAIN Features

(* The labels that occur, and an empty one: nothing records it, and a log   *)
(* that holds it is refused.                                                *)
Labels == ToSet(NameOrder) \cup {""}

LabelRow == [text : Prompts, label : Labels]

ASSUME LogAssumption ==
    /\ \A prompt \in Prompts : Features[prompt] \in [FeatureNames -> Nat]
    /\ IsList(NameOrder)
    /\ FirstLogs \subseteq Seq(LabelRow)
    /\ \A job \in Jobs :
          /\ job.kind \in {"feedback", "onboard", "judge"}
                => job.prompts \in Seq(Prompts)
          /\ job.kind = "feedback" => job.label \in Labels \ {""}
          /\ job.kind \in {"onboard", "judge"}
                => {job.cheap, job.expensive} \subseteq Labels \ {""}

ASSUME WorkspaceAssumption ==
    /\ InUnit(DefaultThreshold) /\ MaxLexiconTerms \in Nat
    /\ EnvThreshold # None => InUnit(EnvThreshold[1])
    /\ \A text \in FirstTexts :
          text # None => IsText(text[1]) /\ Loads(text[1])
    /\ \A job \in Jobs :
          /\ job.kind = "init" => IsText(job.text) /\ Loads(job.text)
          /\ job.kind = "save"
                => IF job.text = None THEN job.posted ELSE IsText(job.text[1])
          /\ job.kind = "add-model" => IsModel(job.table)
          /\ job.kind = "set-model" => IsModel(job.keys)
          /\ job.kind = "calibrate" /\ job.options.order # None
                => IsList(job.options.order[1])

VARIABLES
    disk,           \* the text of the configuration file, None without file
    journal,        \* the feedback log
    serving,        \* what the running gateway loaded, None while it is down
    service,        \* the unit file, and whether the manager runs it
    agent,          \* what each agent does
    begun,          \* how many jobs have begun
    printed,        \* the configuration a judge printed last
    added,          \* the models whose addition was reported
    scars           \* what happened that the code does not guard against

vars == <<disk, journal, serving, service, agent, begun, printed, added, scars>>

Idle == [at |-> "idle"]

(* A line of the log is the rows that stand on it; open, when the end of    *)
(* the last line is not written yet.                                        *)
Lines(rows) ==
    [lines |-> [i \in DOMAIN rows |-> <<rows[i]>>], open |-> FALSE]

Init ==
    /\ disk \in FirstTexts
    /\ journal \in {Lines(rows) : rows \in FirstLogs}
    /\ serving = None
    /\ service = [unit |-> FALSE, enabled |-> FALSE]
    /\ agent = [a \in Agents |-> Idle]
    /\ begun = 0
    /\ printed = None
    /\ added = {}
    /\ scars = {}

-----------------------------------------------------------------------------
(* Reading.                                                                 *)

(* read_labels and parse_dataset refuse the log for one line they cannot    *)
(* parse, and two rows on a line are such a line.                           *)
Readable == \A i \in DOMAIN journal.lines : Len(journal.lines[i]) = 1

Rows == [i \in DOMAIN journal.lines |-> journal.lines[i][1]]

(* The score of a prompt under the default weights.                         *)
Scores ==
    [prompt \in DOMAIN Features |->
        ScalarScore(Features[prompt], DefaultWeights)]

Dataset ==
    IF Readable THEN ParseDataset(Rows, Features, Scores) ELSE None

(* load_gateway_models: no file, no models; None when it does not parse.    *)
ConfiguredModels ==
    IF disk = None THEN Some({})
    ELSE IF GatewayParses(disk[1]) THEN Some(DOMAIN disk[1].models) ELSE None

(* The agents that have read the configuration or are about to write it.    *)
Writing(a) == agent[a].at \in {"write", "fill"}

Overlap(a) ==
    IF \E b \in Agents \ {a} : Writing(b) THEN {"overlap"} ELSE {}

Begin(a, doing) ==
    /\ begun' = begun + 1
    /\ agent' = [agent EXCEPT ![a] = doing]

MayBegin(a) == agent[a].at = "idle" /\ begun < MaxJobs

JobsOf(kinds) == {job \in Jobs : job.kind \in kinds}

-----------------------------------------------------------------------------
(* Deciding what to write.                                                  *)

(* valid_model_name asks for a name that a header takes as it is; the name  *)
(* of a model of the file may be none, and its header is not found then.    *)
Bare(name) == KeyPath(name) = <<name>>

(* The editors of the command line.  Each parses what it is about to write: *)
(* set-threshold the routing half only.                                     *)
Edited(job, text) ==
    CASE job.kind = "set" ->
            LET new == SetOffline(text, job.value)
            IN  IF Loads(new) THEN Some(new) ELSE None
      [] job.kind = "add-model" ->
            LET new == AddModelTable(text, job.name, job.table)
            IN  IF Bare(job.name) /\ new # None /\ Loads(new[1])
                THEN new ELSE None
      [] job.kind = "set-model" ->
            IF /\ GatewayParses(text) /\ job.name \in DOMAIN text.models
               /\ Bare(job.name)
            THEN LET new == SetModelKeys(text, job.name, job.keys)
                 IN  IF Loads(new) THEN Some(new) ELSE None
            ELSE None
      [] job.kind = "set-threshold" ->
            LET new == SetTierMinScore(text, job.model, job.min_score)
                Near(n) == n - job.min_score \in (-3)..3
                Took(tiers) ==
                    \E i \in DOMAIN tiers :
                        /\ tiers[i].model = job.model
                        /\ \A j \in 1..(i - 1) : tiers[j].model # job.model
                        /\ Near(tiers[i].min_score)
            IN  IF /\ InUnit(job.min_score) /\ new # None
                   /\ RoutingParses(new[1]) /\ Took(RoutingFrom(new[1]).tiers)
                THEN new ELSE None

Write(a, job, text) ==
    /\ Begin(a, [at |-> "write", job |-> job, text |-> text])
    /\ scars' = scars \cup Overlap(a)

(* config set, add-model, set-model and set-threshold: of a file that is    *)
(* there.                                                                   *)
Edit(a, job) ==
    /\ MayBegin(a)
    /\ disk # None
    /\ \E text \in ToSet(Edited(job, disk[1])) : Write(a, job, text)
    /\ UNCHANGED <<disk, journal, serving, service, printed, added>>

(* init: never over a file, unless it is forced.                            *)
Scaffold(a, job) ==
    /\ MayBegin(a)
    /\ disk = None \/ job.force
    /\ Write(a, job, job.text)
    /\ UNCHANGED <<disk, journal, serving, service, printed, added>>

(* posted_config_text: what a JSON body without a text stands for is the    *)
(* configuration the gateway runs.                                          *)
Posted(job) == OrElse(job.text, CurrentText(serving[1]))

(* Mutant: only the routing half of the text is parsed.                     *)
SaveHalfRead(a, job) ==
    /\ MayBegin(a)
    /\ job.posted => serving # None
    /\ RoutingParses(Posted(job))
    /\ Write(a, job, Posted(job))
    /\ UNCHANGED <<disk, journal, serving, service, printed, added>>

(* save_config_text, and POST /router/config of a gateway that runs.        *)
Save(a, job) ==
    /\ MayBegin(a)
    /\ job.posted => serving # None
    /\ Loads(Posted(job))
    /\ Write(a, job, Posted(job))
    /\ UNCHANGED <<disk, journal, serving, service, printed, added>>

(* calibrate --out: the routing half, whatever stands in the file.          *)
CalibrateInto(a, job) ==
    /\ MayBegin(a)
    /\ \E samples \in ToSet(Dataset) :
          \E text \in ToSet(Calibrate(samples, job.mode, job.options)) :
             Write(a, job, text)
    /\ UNCHANGED <<disk, journal, serving, service, printed, added>>

(* recalibrate: the rows are counted first, and too few are left alone.     *)
CountLabels(a, job) ==
    /\ MayBegin(a)
    /\ Readable /\ Len(Rows) >= job.min_labels
    /\ Begin(a, [at |-> "count", job |-> job])
    /\ UNCHANGED <<disk, journal, serving, service, printed, added, scars>>

(* Mutant: the tables below [gateway] are not taken for a part of it.       *)
WithGatewayTable(routing) ==
    IF disk = None THEN routing
    ELSE [routing EXCEPT !.gateway = disk[1].gateway]

(* gateway_block: [gateway] and below, of a file whose gateway parses.      *)
WithGatewayBlock(routing) ==
    IF disk = None THEN routing
    ELSE [routing EXCEPT !.gateway = disk[1].gateway, !.models = disk[1].models]

(* What the log of this moment fits to, with the samples it was fitted to.  *)
Fits(job) ==
    UNION {{[samples |-> samples, text |-> text, job |-> job] :
               text \in ToSet(Calibrate(samples, job.mode, DefaultOptions))} :
           samples \in ToSet(Dataset)}

(* The log is read again and fitted, and the gateway half of the file kept; *)
(* the result is written as it is.                                          *)
Refit(a) ==
    /\ agent[a].at = "count"
    /\ \E fits \in {Fits(agent[a].job)} :
          IF fits = {} \/ (disk # None /\ ~GatewayParses(disk[1]))
          THEN agent' = [agent EXCEPT ![a] = Idle] /\ scars' = scars
          ELSE /\ \E fit \in fits :
                     agent' = [agent EXCEPT ![a] =
                        [at |-> "write", job |-> fit.job,
                         samples |-> fit.samples,
                         text |-> WithGatewayBlock(fit.text)]]
               /\ scars' = scars \cup Overlap(a)
    /\ UNCHANGED <<disk, journal, serving, service, begun, printed, added>>

-----------------------------------------------------------------------------
(* Writing in place.                                                        *)

(* fs::write opens the file.                                                *)
Truncate(a) ==
    /\ agent[a].at = "write"
    /\ disk' = Some(Empty)
    /\ agent' = [agent EXCEPT ![a].at = "fill"]
    /\ UNCHANGED <<journal, serving, service, begun, printed, added, scars>>

(* fs::write fills it from the start.  When another agent has filled it     *)
(* since, the end of a longer text stands behind the new one.               *)
Fill(a) ==
    /\ agent[a].at = "fill"
    /\ \E result \in {agent[a].text}
                        \cup IF disk # Some(Empty) THEN {Torn} ELSE {} :
          disk' = Some(result)
    /\ agent' = [agent EXCEPT ![a] = Idle]
    /\ added' = LET job == agent[a].job
                IN  CASE job.kind = "add-model" -> added \cup {job.name}
                      [] job.kind \in {"init", "save", "calibrate"} -> {}
                      [] OTHER -> added
    /\ scars' = IF agent[a].job.kind \in {"recalibrate", "calibrate"}
                THEN scars \cup {"fit"} ELSE scars
    /\ UNCHANGED <<journal, serving, service, begun, printed>>

-----------------------------------------------------------------------------
(* Recording labels.                                                        *)

(* A label sent to a running gateway, or recorded in the local UI.          *)
BeginFeedback(a, job) ==
    /\ MayBegin(a)
    /\ job.posted => serving # None
    /\ Begin(a, [at |-> "ask", job |-> job, left |-> job.prompts])
    /\ UNCHANGED <<disk, journal, serving, service, printed, added, scars>>

(* onboard and judge: two arms, both of them configured.                    *)
BeginLabelling(a, job) ==
    /\ MayBegin(a)
    /\ ConfiguredModels # None
    /\ {job.cheap, job.expensive} \subseteq ConfiguredModels[1]
    /\ Begin(a, [at |-> "ask", job |-> job, left |-> job.prompts])
    /\ UNCHANGED <<disk, journal, serving, service, printed, added, scars>>

(* What the judge makes of the answers of the two arms.                     *)
JudgedLabel(job, prompt) ==
    LabelFor(Judge(Answers[prompt].cheap, Answers[prompt].expensive),
             job.cheap, job.expensive)

(* The labels a prompt may get: the one the caller sent, the one the human  *)
(* picks, or the one the judge finds, if any.                               *)
LabelsOf(job, prompt) ==
    CASE job.kind = "feedback" -> {job.label}
      [] job.kind = "onboard" -> {job.cheap, job.expensive}
      [] job.kind = "judge" -> ToSet(JudgedLabel(job, prompt))

(* record_label, its first call: behind the open line if there is one.      *)
WriteRow(a) ==
    /\ agent[a].at = "ask" /\ agent[a].left # << >>
    /\ \E label \in LabelsOf(agent[a].job, Head(agent[a].left)) :
          LET row == [text |-> Head(agent[a].left), label |-> label]
              n == Len(journal.lines)
          IN  journal' =
                [lines |-> IF journal.open
                           THEN [journal.lines EXCEPT ![n] = Append(@, row)]
                           ELSE Append(journal.lines, <<row>>),
                 open |-> TRUE]
    /\ agent' = [agent EXCEPT ![a].at = "newline", ![a].left = Tail(@)]
    /\ UNCHANGED <<disk, serving, service, begun, printed, added, scars>>

(* Its second call; an empty line counts for nothing.                       *)
EndLine(a) ==
    /\ agent[a].at = "newline"
    /\ journal' = [journal EXCEPT !.open = FALSE]
    /\ agent' = [agent EXCEPT ![a].at = "ask"]
    /\ UNCHANGED <<disk, serving, service, begun, printed, added, scars>>

(* The judge abstains: no label for this prompt.                            *)
Abstain(a) ==
    /\ agent[a].at = "ask" /\ agent[a].left # << >>
    /\ LabelsOf(agent[a].job, Head(agent[a].left)) = {}
    /\ agent' = [agent EXCEPT ![a].left = Tail(@)]
    /\ UNCHANGED <<disk, journal, serving, service, begun, printed, added,
                   scars>>

(* The verdicts of the judge on the gold rows it could decide.              *)
GoldPairs(job) ==
    FlattenSeq([i \in DOMAIN job.gold |->
        MapOption(LAMBDA label : [judge |-> label, gold |-> job.gold[i].label],
                  JudgedLabel(job, job.gold[i].text))])

(* The fits a judge prints: those of gates that pass.                       *)
Passing(job) ==
    IF job.kind # "judge" THEN {}
    ELSE {fit \in Fits(job) : GatesPass(GoldPairs(job), fit.samples)}

(* The last prompt is labelled.  A judge reads the whole log, by whomever   *)
(* it was labelled, and prints a configuration if the gates pass.           *)
EndLabelling(a) ==
    /\ agent[a].at = "ask" /\ agent[a].left = << >>
    /\ \E passing \in {Passing(agent[a].job)} :
          printed' \in IF passing = {} THEN {printed}
                       ELSE {Some(fit) : fit \in passing}
    /\ agent' = [agent EXCEPT ![a] = Idle]
    /\ UNCHANGED <<disk, journal, serving, service, begun, added, scars>>

-----------------------------------------------------------------------------
(* The gateway and its service.                                             *)

(* Mutant: a gateway without a file does not start.                         *)
LoadFile ==
    /\ disk # None /\ Loads(disk[1])
    /\ serving' = Some(LoadedFrom(disk[1]))

(* AppState::load: once, from the file as it stands.                        *)
Load ==
    /\ disk # None => Loads(disk[1])
    /\ serving' = Some(IF disk = None THEN Defaults ELSE LoadedFrom(disk[1]))

(* serve, by hand.                                                          *)
Serve ==
    /\ serving = None /\ ~service.enabled
    /\ Load
    /\ UNCHANGED <<disk, journal, service, agent, begun, printed, added, scars>>

(* The gateway fails, or one that was started by hand is stopped.           *)
Crash ==
    /\ serving # None
    /\ serving' = None
    /\ UNCHANGED <<disk, journal, service, agent, begun, printed, added, scars>>

(* Restart=on-failure, KeepAlive: the manager tries again.                  *)
Restart ==
    /\ serving = None /\ service.enabled
    /\ Load
    /\ UNCHANGED <<disk, journal, service, agent, begun, printed, added, scars>>

(* service install: the unit file is written, then the manager asked.       *)
Install(a, job) ==
    /\ MayBegin(a)
    /\ Begin(a, [at |-> "enable", job |-> job])
    /\ service' = [service EXCEPT !.unit = TRUE]
    /\ UNCHANGED <<disk, journal, serving, printed, added, scars>>

(* The manager may refuse; the unit file stays.                             *)
Enable(a) ==
    /\ agent[a].at = "enable"
    /\ service' \in {service, [service EXCEPT !.enabled = TRUE]}
    /\ agent' = [agent EXCEPT ![a] = Idle]
    /\ UNCHANGED <<disk, journal, serving, begun, printed, added, scars>>

(* service uninstall: the manager is asked first, whatever it answers.  A   *)
(* gateway that was started by hand stays up.                               *)
Uninstall(a, job) ==
    /\ MayBegin(a)
    /\ Begin(a, [at |-> "remove", job |-> job])
    /\ \/ /\ service' = [service EXCEPT !.enabled = FALSE]
          /\ serving' \in IF service.enabled THEN {None, serving} ELSE {serving}
       \/ UNCHANGED <<service, serving>>
    /\ UNCHANGED <<disk, journal, printed, added, scars>>

RemoveUnit(a) ==
    /\ agent[a].at = "remove"
    /\ service' = [service EXCEPT !.unit = FALSE]
    /\ agent' = [agent EXCEPT ![a] = Idle]
    /\ UNCHANGED <<disk, journal, serving, begun, printed, added, scars>>

(* An agent is killed, or a model call of it fails.                         *)
Kill(a) ==
    /\ agent[a].at # "idle"
    /\ agent' = [agent EXCEPT ![a] = Idle]
    /\ scars' = IF agent[a].at \in {"fill", "newline"}
                THEN scars \cup {"kill"} ELSE scars
    /\ UNCHANGED <<disk, journal, serving, service, begun, printed, added>>

-----------------------------------------------------------------------------
Take(a) ==
    \/ \E job \in JobsOf({"set", "add-model", "set-model", "set-threshold"}) :
          Edit(a, job)
    \/ \E job \in JobsOf({"init"}) : Scaffold(a, job)
    \/ \E job \in JobsOf({"save"}) : Save(a, job)
    \/ \E job \in JobsOf({"calibrate"}) : CalibrateInto(a, job)
    \/ \E job \in JobsOf({"recalibrate"}) : CountLabels(a, job)
    \/ \E job \in JobsOf({"feedback"}) : BeginFeedback(a, job)
    \/ \E job \in JobsOf({"onboard", "judge"}) : BeginLabelling(a, job)
    \/ \E job \in JobsOf({"install"}) : Install(a, job)
    \/ \E job \in JobsOf({"uninstall"}) : Uninstall(a, job)

Continue(a) ==
    \/ Refit(a) \/ Truncate(a) \/ Fill(a)
    \/ WriteRow(a) \/ EndLine(a) \/ Abstain(a) \/ EndLabelling(a)
    \/ Enable(a) \/ RemoveUnit(a)

Next ==
    \/ \E a \in Agents : Take(a) \/ Continue(a) \/ Kill(a)
    \/ Serve \/ Crash \/ Restart

Spec == Init /\ [][Next]_vars

(* The manager keeps trying, two seconds after each failure.                *)
FairSpec == Spec /\ WF_vars(Restart)

-----------------------------------------------------------------------------
(* Properties.                                                              *)

Sound(text) == text = None \/ Loads(text[1])

Filling == \E a \in Agents : agent[a].at = "fill"

(* A model that config add-model reported as added is in the file from then *)
(* on, through every later edit and every recalibration, unless two agents  *)
(* wrote at once or one was killed while it wrote (recalibrate reads the    *)
(* file, drops what it does not know and writes it back).                   *)
AddedModelsStay ==
    scars \cap {"overlap", "kill"} = {} =>
        \/ Filling
        \/ added \subseteq IF disk = None THEN {} ELSE DOMAIN disk[1].models

(* The next start of the gateway does not fail over the file: a text it     *)
(* refuses gets there by two agents that write at once, by a kill in the    *)
(* middle of fs::write, or from a fit, which nothing parses again.          *)
FileIsSound == scars = {} => Sound(disk)

Fitted ==
    {agent[a] : a \in {b \in Agents : agent[b].at = "write"
                                     /\ agent[b].job.kind = "recalibrate"}}
        \cup ToSet(printed)

Plain(string) == Raw(string) = Some(string)

PlainLabels(samples) == \A label \in LabelsPresent(samples) : Plain(label)

Cut(ladder, n) == [ladder EXCEPT ![2].min_score = InGrains(n)]

FitsBest(samples, ladder) ==
    LET Right(tiers) ==
            Cardinality({i \in DOMAIN samples :
                RecommendTier(InGrains(samples[i].score), tiers)
                    = samples[i].label})
        highest == Max({samples[i].score : i \in DOMAIN samples})
    IN  \A n \in 0..highest : Right(Cut(ladder, n)) <= Right(ladder)

(* What recalibrate is about to write and what a judge printed routes the   *)
(* labels it was fitted to the labelled way as far as a cut between its two *)
(* arms can: no other cut that a prompt reaches is right more often.  The   *)
(* labels stand between quotes as they are, so this is of labels that TOML  *)
(* reads as they are.                                                       *)
FitsTheLabels ==
    \A fit \in Fitted :
        fit.job.mode = "threshold" /\ PlainLabels(fit.samples)
            => FitsBest(fit.samples, fit.text.tiers[1])

(* The configurations whose names and strings the dumpers write so that     *)
(* TOML reads them back, and whose numbers keep apart at six decimals.      *)
NamesPrint(gateway) ==
    /\ \A id \in DOMAIN gateway.settings.keys : Bare(id)
    /\ \A name \in DOMAIN gateway.models :
          /\ Bare(name)
          /\ \A string \in ModelStrings(gateway.models[name]) : Plain(string)

NumbersPrint(loaded) ==
    LET tiers == loaded.routing.tiers
    IN  /\ ~HasClassifier(loaded.routing) =>
              \A i \in 1..(Len(tiers) - 1) :
                 Printed(tiers[i].min_score) < Printed(tiers[i + 1].min_score)
        /\ "rate_limit" \in DOMAIN loaded.gateway.settings =>
              Printed(loaded.gateway.settings.rate_limit.window) > 0

Printable(loaded) ==
    /\ \A string \in RoutingStrings(loaded.routing) : Debugged(string)
    /\ NamesPrint(loaded.gateway)
    /\ NumbersPrint(loaded)

(* The same configuration with its numbers at six decimals.                 *)
RoundedClass(class) ==
    [model |-> class.model, intercept |-> Printed(class.intercept),
     weights |-> PrintedWeights(class.weights)]

RoundedRouting(routing) ==
    [weights |-> PrintedWeights(routing.weights),
     lexicon |-> routing.lexicon,
     classifier |-> [c \in DOMAIN routing.classifier |->
                        RoundedClass(routing.classifier[c])],
     tiers |-> IF HasClassifier(routing) THEN routing.tiers
               ELSE PrintedTiers(routing.tiers)]

RoundedSettings(settings) ==
    [k \in DOMAIN settings |->
        IF k \in {"cache", "rate_limit"} THEN PrintedIn(settings[k])
        ELSE PrintedIn(settings)[k]]

RoundedGateway(gateway) ==
    [settings |-> RoundedSettings(gateway.settings),
     models |-> [name \in DOMAIN gateway.models |->
                    PrintedIn(gateway.models[name])]]

Rounded(loaded) ==
    [routing |-> RoundedRouting(loaded.routing),
     gateway |-> RoundedGateway(loaded.gateway)]

(* What a running gateway shows of its configuration loads back to what it  *)
(* runs, at six decimals: posted or saved again, it changes nothing else.   *)
(* The dumpers leave out what they take for a default, in four tables, and  *)
(* the parsers fill it in.  A configuration is left out that has a name or  *)
(* a string that TOML does not read back, or numbers that fall together:    *)
(* the parser refuses two tiers from zero, which a threshold of zero gives, *)
(* and a window of zero.                                                    *)
ShownLoadsBack ==
    \A loaded \in ToSet(serving) :
        Printable(loaded) =>
            /\ Loads(CurrentText(loaded))
            /\ LoadedFrom(CurrentText(loaded)) = Rounded(loaded)

(* An installed service comes back: as long as the manager runs it over a   *)
(* file that loads, or none, the gateway serves again and again, however    *)
(* often it fails.                                                          *)
SupervisedServes ==
    <>[](service.enabled /\ Sound(disk)) => []<>(serving # None)

(* What the gateway's documents promise of a recalibration: it writes a     *)
(* configuration that routes.                                               *)
RecalibratedFileLoads ==
    scars \subseteq {"fit"} => Sound(disk)
=============================================================================
