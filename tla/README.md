# A formal model of wayfinder-router

wayfinder-router decides, for every prompt, which model should answer it, and its
gateway delivers the prompt there: an OpenAI- and Anthropic-compatible HTTP server
with retries, failover, circuit breakers, rate limits, a response cache, a savings
ledger and metrics.  A terminal chat uses the same core in process or talks to a
gateway.  This directory holds TLA+ modules of the parts with state and concurrency,
the TLC configurations that check them, and proofs for the TLA+ proof system.  Beside
the running gateway they cover what the programs of one directory share: the
configuration file, the feedback log, calibration, judging and the service.

All paths below are relative to the repository; `gateway` is
`crates/wayfinder-gateway/src/lib.rs`, `core/x.rs` is `crates/wayfinder-core/src/x.rs`,
`tui/x.rs` is `crates/wayfinder-tui/src/x.rs`, `gw/x.rs` is `crates/wayfinder-gateway/src/x.rs` and `cli` is `crates/wayfinder-cli/src/lib.rs`.

## Running it

    tlc -workers 2 -config MCDeliveryPlain.cfg MCDelivery.tla     # and so on
    tlapm RateLimiterProofs.tla
    tlapm DeliveryProofs.tla
    tlapm CacheProofs.tla
    tlapm StreamProofs.tla
    tlapm ChatProofs.tla
    tlapm GatewayProofs.tla
    tlapm WorkspaceProofs.tla
    tlapm LedgerProofs.tla

The largest, `WorkspaceProofs` and `DeliveryProofs`, take a few minutes, the others less.

Most configurations say in their first line what they are about.  Those named `Text`,
`Reopen` and `WorkspaceRecalibrate` are expected to end in a counterexample (see "What the
checks show").  `MCWorkspace`, `MCChatTerminal`, `MCDeliveryStream` and `MCGateway` take one to three minutes,
the others seconds.

## Inventory

The gateway runs on a multi-threaded async runtime.  Its shared state
(`GatewayRuntime`, gateway 262-270) is six components, each with a mutex of its own: the
rate limiter, the response cache, the circuit breaker, the savings ledger, the metrics
and the ring of recent decisions.  No guard is held across an await, and but for
the cache's during a hit none while another is taken, so one critical section is one atomic
step, and everything between two critical sections interleaves with every other request.

| part | state | operations | what is hard | what makes it correct | model |
|---|---|---|---|---|---|
| circuit breaker, failover plan (`reliability.rs`, gateway 2105-2145) | failures in a row and opening time per target | `allow`, `record`, `failover_candidates`, `delivery_plan_at` | verdicts of overlapping requests in any order; the plan is a snapshot | open iff the last N verdicts failed; an open target is reached only by a plan older than its opening; the walk stays on the policy's side, nearest tier first | `Reliability` |
| upstream delivery (gateway 2083-2677) | a request's position, attempt, stream accounting | `forward_upstream`, `stream_upstream`, `StreamAccounting` | retries inside failover, clients that leave at any await, streams that break after they were settled, five books in five critical sections | retries exhausted before a target is left; one verdict per target; all books agree; every request ends | `Delivery`, `DeliveryProofs` |
| rate limiter (gateway 1237-1325, 3123-3143) | window start, request and token counters | `admit`, `add_tokens`, `snapshot` | late charges, windows that roll between two operations of one request, two clock readings in one operation | quota per window, bounded boundary bursts, bounded token overshoot, honest waiting times | `RateLimiter`, `RateLimiterProofs` |
| response cache (gateway 1173-1233, 1796-1842, 2322-2341) | entries, LRU queue, byte counter | `get`, `put`, `touch`, `drop_key`, `evict` | hand-kept redundancy; lookup and store separated by a failing-over delivery | the three fields agree; no answer of another model or past its ttl is replayed; least recently used goes first and no more than must | `BoundedCache`, `ResponseCache`, `CacheProofs` |
| savings ledger (`core/pricing.rs`, gateway 3413-3423) | day buckets in memory, a file | `record`, `prune`, `save`, `load` | kills and failures between system calls, several processes on one path, clock steps | a saved turn is never lost | `SavingsLedger`, `LedgerProofs` |
| Anthropic adapter (gateway 1894-1963, 3664-4307) | the translator's blocks, tool slots, line buffer | `feed`, `ingest_tool_call`, `finish` | network chunks cut anywhere; accounting and translator look at the same bytes by different rules | the client sees a well-formed message that loses nothing | `MessageStream`, `AnthropicStream`, `StreamProofs` |
| chat terminal (`tui/app.rs`, `core/threads.rs`) | conversation, pending reply, worker, thread files | submit, cancel, `/new`, `/threads`, `/open`, `poll_worker` | worker thread against UI loop, cancellation, rollback, kills during a save | answers stand behind their prompts; what was kept stays on disk; the composer comes back | `ChatTerminal`, `ChatProofs` |
| scorer (`core/complexity.rs`) | none | `extract_features`, `score_complexity`, `recommend_tier`, `predict` | fences and front matter, saturation, rounding, a ladder that is climbed until a tier asks for more | decisions follow the conversation and the ladder | `Complexity` |
| routing decision (gateway 1971-2081, 3512-3587) | none (the latch reads the conversation) | pin, threshold header, ladder, sticky latch, offline target | precedence of overrides; the latch is computed anew at each turn | a later turn is not routed below an earlier one; both protocols route alike | `Routing`, `Gateway`, `GatewayProofs` |
| virtual keys (`core/vkeys.rs`, gateway 3086-3121) | none | `authorize_key`, `match_key` | rejected before any book is touched | a refused key has no effect | `Gateway` |
| request pipeline, metrics, recent decisions (gateway 1328-1530, 1623-1963, 3436-3481, 4310-4330) | counters, ring, six mutexes | `chat_completions`, `anthropic_messages`, `metrics`, `observe_*`, `push_recent` | the guard of the cache lives through a hit while two more mutexes are taken; a scrape takes two | every request is answered; a scrape is consistent | `Gateway`, `Delivery`, `GatewayProofs` |
| configuration (`core/config.rs`, gateway 493-1150, 4415-4463; `cli`) | a TOML file | parse, dump, edit a line, write in place | what dumper and parser take for a default; several writers and kills; the gateway loads once | what is shown loads back; the file loads at the next start; no model is lost | `ConfigFile`, `Workspace`, `WorkspaceProofs` |
| feedback log, recalibration (`core/feedback.rs`, `gw/recalibrate.rs`, gateway 1564-1621) | an append-only log | record, count, fit, keep `[gateway]`, write | a row in two calls; the log read twice, the file read once, all rewritten | fits the labels it read; keeps the gateway half | `Workspace`, `WorkspaceProofs` |
| calibration and judging (`core/calibrate.rs`, `core/judge.rs`, `core/sufficiency.rs`, `core/onboard.rs`) | none | sweeps, tiers, classifier, judge, trust gates | ties, scores at the cut, folds, chance agreement | no cut does better than the one that is chosen | `Calibration`, `Judging`, `Workspace`, `WorkspaceProofs` |
| bootstrap, service, command line, UI server (`gw/bootstrap.rs`, `gw/service.rs`, `cli`, `crates/wayfinder-ui/src/lib.rs`) | the files above, a unit file | init, config commands, install, uninstall, onboarding | file and manager changed one after the other; restarts | a service comes back up | `Workspace` (what changes files) |
| in-process relay (gateway 2785-3020) | none | `invoke_messages`, `StreamMessages` | retries, SSE cut anywhere | every delta once | as `ChatTerminal` sees it |
| detectors, profiles, terminal rendering, key commands | none | conversions, layout | — | — | not modelled |

How they interact: a request is authorised, admitted by the rate limiter, routed, looked
up in the cache (plain requests only), planned against the breaker, walked along its plan,
and settled: breaker, rate limiter, ledger, metrics, recent ring, cache store (plain: breaker
first; streamed: breaker last).  The Anthropic endpoint translates the request, runs
the same path and translates the answer.  The chat reaches providers through the
relay or one gateway through HTTP; both chat and gateway write a savings ledger.  The
command line, the local UI and the gateway's own handlers edit one configuration file
and append to one feedback log, without any lock between them; a gateway reads
the file when it starts and never again.

`PROJECT.json` lists the hazards, each at its line with the properties that would
show it going wrong.

## Modules and how they correspond to the code

**`Reliability`** translates `reliability.rs` and the plan operators: the breaker's two
maps are arguments, `FailsAfter`/`OpenedAfter` are the two halves of `record`, `Allow` is
`allow`, `DeliveryPlan` is `delivery_plan_at` after `delivery_plan_for`'s snapshot.  Tier
names are model values; the ladder, fallbacks and endpoints are constants.

**`Delivery`** runs any number of requests over it.  A request is a process with a program
counter named after the place in `chat_completions_response`, `forward_upstream`,
`stream_upstream` or `StreamAccounting` where it stands; each critical section and each
await is a step.  An upstream answer is a status (0: the connection failed).  `StreamError`
and `RecordBroken` are two steps because `observe_error` takes two locks.
`Drop` is the server dropping a handler's future or a body when the client
disconnects; it can happen at awaits only.  Bodies, headers and
prices are left out: a ledger entry is a count of billed turns per target.  History
variables: `calls` and `verdicts`.

**`RateLimiter`** has one action per operation of the limiter and the phases of a
request that uses it.  `Refuse` and `Headers` read the clock twice, as the code does
(`roll_window`, then `retry_after`); `MaxLag` bounds the time in between.  Time is in ticks, the
answers in seconds, so the rounding is real.  `tokens` saturates at `TokenCeiling`.

**`ResponseCache`** has the three fields of the cache and the requests around it; `Evict`
describes the popping loop by the least number of pops that reaches both limits.
`latest` is history: what each stored key was last stored with, and when.
**`BoundedCache`** is what the cache promises, without queue and counter: the stored keys
are ordered by use, and a store keeps the largest set of youngest entries that fits.
`KeepsPromise` is the refinement, with the queue's order as the mapping.

**`SavingsLedger`** goes down to inodes: `fs::write` of the temporary file is an open with
truncation and a write, then a rename.  A kill may come between any two
calls, every call may fail, and the ledger's lock covers record and save, as in
`record_savings`.  A bucket is its number of turns.

**`AnthropicStream`** couples the translator with the accounting that sits under it: both
see each chunk, one waits for blank lines, the other for line ends and stops at
`[DONE]`.  An upstream answer is a sequence of events, each with its line ends, LF or CRLF; the network cuts it in the
line, behind the line, or behind its blank line.  `Drained` is what the accounting finds two line feeds in a row behind.  The tool slots, a `BTreeMap`, are a map from indices to arguments, and whatever
walks them takes the indices by `InOrder`.  **`MessageStream`** is the grammar of events a client of
the Messages API may see; `WellFormed` is the refinement, with the history of emitted events
as the mapping.

**`ChatTerminal`** is the event loop of `App` with the worker thread of the reply in flight and the
files of the conversations.  Each key or command that touches a conversation is an action, each
event of the worker's channel is handled by `Poll`, and a save is a part of the step that
makes it.  `Persist` may fail (`WriteFails`), before the file is opened or half way through it, and as `App::persist` drops the
result nobody notices; `unsaved` is history, the turns whose end did not get to the disk that way, until a later save carries
it there.  `KillInSave` is a kill while `fs::write` has the file truncated.

**`Complexity`** is the scorer.  A text is a sequence of lines, a line what the scorer's
expressions find in it: the kind its pattern gives it and how many words, terms, symbols, links and
questions it holds.  Scores are hundredths, rounded as `round_to` does (a tie goes to the even
neighbour); weights, thresholds and logits are integers.

**`Routing`** is everything between a request and the model that delivery starts from: which prompt is
scored, the pin, the threshold header, the ladder or the classifier, the latch of a sticky
conversation and the offline target.  An optional value is a sequence of at most one element.

**`AnthropicAdapter`** translates a Messages request into the chat request that is handled, and
whole answers and errors back.

**`Gateway`** composes them: a request passes authorisation, the limiter, routing, the cache, delivery
(one step here, `Delivery` has the rest), the metrics, the ring and the store.  A step that
takes a mutex has `Free(m)` as a guard; `holder` keeps the one mutex that is held across
others, the cache's during a hit (gateway 1802-1839).  `ScrapeRing` and `ScrapeCounters` are the two
critical sections of `/metrics`.  `Decisions` tabulates what depends on configuration and
request only.

**`ConfigFile`** has the two parsers, the two dumpers and the line editors over the keys of the file; a text
that is no TOML is one value, `Torn`.  A number with a fraction is counted in quarters of the sixth decimal (grains), so what
the dumpers round away is there: `Printed` is `fmt_num` and `python_float_repr`, `Emitted` the `fmt_float` of calibration, which
takes a half to the even neighbour.  Names and strings are model values; what a writer makes of one is a constant operator: `Raw` is what TOML
reads where a string stands between quotes as it is (the gateway half and calibration), `Debugged` whether it reads the string as `{:?}`
escapes it (the routing half), `KeyPath` the path of keys it finds in a header where a name stands as it is.  **`Calibration`** fits a ladder or a classifier to labelled prompts, with
accuracies and savings compared as the integers they are multiples of; the Newton solver of the classifier is the
constant `Fit`.  **`Judging`** is the similarity (difflib's, with its junk heuristic), the judge's verdicts
and the trust gates.

**`Workspace`** runs them over the file, the log and the service.  An agent is a command, a request of the local UI or a
handler of the gateway.  Its job reads and decides in one step; `fs::write` is then two steps, `Truncate` and `Fill`, a
label is two steps, `WriteRow` and `EndLine`, and recalibration counts the rows in one step and reads them again in
another.  Agents interleave anywhere and may be killed anywhere.  `Load` is `AppState::load`; `Restart` is the
service manager.  `scars` is history: what happened that the code does not guard against (two
writers at once, a kill inside a write, a fit that nothing parsed), so that a property can say
which of them it takes to break it.

Where a library operator is defined by a recursion or a Java class that the proof system cannot expand (`SelectSeq`, `SortSeq`, `@@`),
a small operator says what it yields: `Without`, `WithRole`, `OfType`, `TierLadder` (a filter), `InOrder`, `UpperMiddle`,
`LabelsByMeanScore` (an order), `Over` (a table over its defaults).

Every `MC*.tla` module only supplies model values.  Operators commented
"Mutant of X" are plausible mistakes in X; they show, one for each property, that the
property can be violated.  No action uses them.

## What the checks show

| run | properties | instance |
|---|---|---|
| `delivery_plain` | `TypeOK`, `FailoverDiscipline`, `BooksAgree`, `BreakerTracksStreak`, `StaysOnItsSide`, `NearestTierFirst` | two requests under every policy, offline, fallback, unconfigured tier, one retry, trip at two |
| `delivery_stream` | `OneVerdictPerTarget`, `BooksAgree`, `OpenOnlyBehindItsBack`, `EveryRequestEnds` | two streams with fallback and degrade, trip at one, every failure point, fair |
| `rate` | `TypeOK`, `WindowQuota`, `BurstBound`, `TokenOvershoot`, `WaitingPaysOff`, `NoOverWait` | two clients, both limits 2, window of 1.5 s, six admissions |
| `cache` | `FieldsAgree`, `NoForeignReplay`, `HitsAreFresh`, `KeepsPromise` | two clients, three endpoints (two with one upstream id), two bodies, two entries, three bytes |
| `ledger` | `SavedTurnsSurvive` | one process killed at will, three days with room for two, five turns |
| `anthropic` | `NothingLost`, `AccountedUnlessMissed`, `WellFormed`, `ClientIsTold` | all answers of up to three events, 27 longer ones, with either line end, two whose events differ in it, every cut, fair |
| `anthropic_text` | `TextIntact` (violated) | a cut inside a character |
| `chat` | `AnswersBehindPrompts`, `PendingIsLast`, `WithdrawnOnlyFirst`, `NothingIsLost`, `ComposerComesBack` | three prompts, three conversations, any save may fail, fair |
| `chat_reopen` | `NothingIsLost` (violated) | as `chat`, with `/open` from an old list, saves do not fail |
| `gateway` | `ScrapeNeverAhead`, `HitsComeFromTheTarget`, `LatchHolds`, `AdapterRoutesAlike`, `EveryRequestAnswered` | two requests out of seven of both protocols, four configurations (live, offline with one endpoint, without models, dry run), a ring of one, a scrape, fair |
| `workspace` | `AddedModelsStay`, `FileIsSound`, `FitsTheLabels`, `ShownLoadsBack`, `SupervisedServes` | two agents, three jobs out of nineteen, a file with two models or none, three labels, fair |
| `workspace_recalibrate` | `RecalibratedFileLoads` (violated) | two labels on a prompt that scores zero |

`ResponseCache`, `SavingsLedger`, `AnthropicStream` and `ChatTerminal` have a `TypeOK` each that documents
the state; it holds in the same instances (add `INVARIANT TypeOK`).

Why the bounds are enough.  *Delivery*: what a verdict or a settlement can interfere with is
one other request's step, so two requests with two attempts and three targets show every pair of
overlaps on a walk; a trip at one, in the streams, lets one request open what another's plan still
names, a trip at two, in the plain run, lets a success break a streak.  Longer streaks are proved.
*Rate*: bursts need two windows of two admissions, a boundary on both
sides, and a window that is not a whole number of seconds; `BurstBound`, the quota and the overshoot are also
proved without bounds.  *Cache*: eviction by number and by size, replacement, expiry of a
touched entry and failover between two upstream ids all occur with two entries, three bytes
and answers of size 1, 2 and 4.  *Ledger*: a save can be interrupted, then a second and third can
complete; pruning needs one day more than there is room for.  *Anthropic*: interleaving of text and two
tool calls needs three events, their ends two more.  *Chat*: losing an answer to an old copy takes two prompts in
one conversation and one in another; a failed save is made good by the next prompt, or lost with the process.  *Gateway*: a mutex is waited for by one other request or the scrape; a hit
needs one request that stored and one that asks; the latch needs an earlier and a later turn.  A ring of one makes it overflow.
*Workspace*: an update is lost between two agents; three jobs are an addition, an edit by another
program and a recalibration, or two labels and a fit.  One text sets weights, lexicon, threshold, retries, cache,
rate limit and keys of its own, some of them with more than six decimals, so that the dump rounds both ways; another has a gateway half that
does not parse.  Two are outside of what prints: a model named `gpt-4.1` with a window that is zero at six decimals, and
a command with quotes under tiers that are not apart there.  A gateway serves and shows them as well, and may be posted what it shows.

Fairness.  `delivery_stream` and `gateway` assume weak fairness of each request's own progress: the runtime polls
every ready task, retry sleeps are finite, the HTTP client's total timeout (60 s unless configured)
ends every call, body included, and whoever holds a mutex goes on without an await.  Nothing is assumed of arrivals, of
clients leaving, of scrapes or of the clock.  `anthropic` assumes that a client that stays keeps reading (the server polls the body) and
that the upstream answers, ends or times out.  `chat` assumes that the loop keeps polling (every 50 ms,
`App::run`) and that the worker's call ends (60 s timeout); the user need not do anything.  `workspace` assumes
that the service manager restarts what failed (`Restart=on-failure`, `RestartSec=2`; `KeepAlive`): at two seconds
between attempts systemd's start limit of five in ten seconds is not reached.  Nothing
is assumed of agents: they may stop in the middle of a write.  No strong
fairness is used.

`MCGateway` and `MCWorkspace` switch the deadlock check off: a behaviour ends when both requests are answered
and the scrape is done, or when all jobs are over and nothing serves.  That requests do not wait on each other
forever is `EveryRequestAnswered`.

### Where the code and its documents disagree

Three runs end in a counterexample on purpose.

* `anthropic_text`: chunks are decoded one by one, so a character cut in two is replaced.
* `chat_reopen`: `/open` takes the conversation from the list cached by the last `/threads`; if the
  conversation went on in the meantime, the next save overwrites the newer turns.
* `workspace_recalibrate`: when the prompts of both labels score zero (or the best cut is zero), the fit is a
  ladder with two tiers from zero.  `recalibrate` writes it without parsing it, and the next start
  refuses it as not ascending.  WF-ADR-0007 promises a configuration that routes the labelled prompts.

Other observations made while modelling, without a run of their own:

* `rollback_user_turn` says that it saves the thread again without the failed turn; `persist` returns early
  when the conversation is empty, so a conversation's first prompt stays in its file
  (`tui/app.rs` 519-532, 586-589).  In a file, `WithdrawnOnlyFirst` finds a prompt taken back nowhere else,
  unless the save itself failed.
* Thread files are written in place (`core/threads.rs` 85-97): a kill in a save leaves a file that `list_threads` skips.
* `persist` drops the result of `save_thread` (`tui/app.rs` 595), and the user is not told.  An answer whose save failed (a full
  disk, a missing permission) is only in memory, and a plain quit loses it; a prompt taken back by a save that failed stays in the
  file, at any place; a save that fails half way tears the file like a kill.  WF-ADR-0030's "nothing is lost" does not hold then.
  `NothingIsLost` and `WithdrawnOnlyFirst` state what is left: a torn file, and `unsaved` turns until the next save succeeds.
* The ledger's temporary file has a fixed name (`core/pricing.rs` 362-371).  With one process, the comment
  "a crash never leaves a half-written report" holds; two processes on one path can truncate
  each other's temporary file between write and rename (set `Processes = {p1, p2}` with four inodes), and each
  overwrites the turns of the other.
* WF-ADR-0031:50-52 describes a half-open state with one probe; `allow` (`reliability.rs:64`) lets every
  request through once the cooldown is over, until a verdict arrives.  `BreakerTracksStreak` and
  `OpenOnlyBehindItsBack` state what is left.
* The translator stops reading at the line of `[DONE]` and drops the accounting,
  which waits for two line feeds in a row (gateway 4023, 2671).  If the chunk ends between the line and its blank line, or if the
  upstream ends its lines with CRLF, the turn is not charged to the rate limiter, the ledger or the metrics and the breaker gets
  no verdict.  `AccountedUnlessMissed` says that there is no third way; with CRLF it takes no cut at all, and an upstream that
  always uses it is settled only when it closes without `[DONE]`.
* WF-ADR-0022 calls the latch one-way.  It is computed from the user messages alone, while a turn's own decision also
  scores the system messages: a light message that reached the upper tier only together with a long system message is
  forgotten at the next turn, which may be routed lower (gateway 3575-3582).  `LatchHolds` is about conversations without
  system messages.  A turn whose latest user message has no text (an image alone) and no system message is in the same
  case: it is scored by the last text of any role (`extract_scoped_prompt`), which the next turn forgets; `LatchHolds` is about
  turns whose latest user message has a text.
* In the scope `all` the texts of tool results (Messages API) and of assistant messages are scored too, and the adapter makes
  messages of the former; the two protocols then need not route alike, and `AdapterRoutesAlike` excludes it.
* A label is written by `writeln!`, row and line end in two calls (`core/feedback.rs:34`).  Two writers may leave two rows on one line, and `read_labels`
  and `parse_dataset` refuse the log from then on: no recalibration until someone repairs it.
* Recalibration keeps `[gateway]` and below; weights and lexicon of the file are replaced by the defaults the
  fit was made with.
* `fs::write` empties the file first: a gateway that starts between truncation and filling serves the defaults, since
  an empty text parses.
* The UI and the command line look for the configuration upwards (`find_config_file`), but recalibration writes
  `wayfinder-router.toml` of the directory it was started in.
* A gateway without a file does not look at `WAYFINDER_ROUTER_THRESHOLD`.
* What a gateway shows of its configuration need not load back to it, against WF-DESIGN-0001:134 ("round-trippable `[routing]`
  TOML"), WF-ADR-0016:73 and WF-ADR-0019:38:
  - a binary ladder at threshold 0 is dumped as two tiers from zero, which the parser refuses;
  - numbers are written with six decimals (core/config.rs 557-564, gateway 718-728): `cost_per_1k` 0.0000375 comes back as 0.000038,
    a window of 1e-7 as 0.0, which the parser refuses, and tiers at 0 and 1e-7 fall together, which it refuses too;
  - the gateway half writes names and strings as they are (gateway 675-703): the header of a model `gpt-4.1` is that of a table `1` inside of
    a table `gpt-4`, which has no `base_url` and is refused, and an `api_key_cmd` with a double quote ends its string early, in general no TOML.
    The routing half escapes its strings with `{:?}`, which writes some characters in a form that TOML does not know.

  `ShownLoadsBack` says that this is all: where names and strings print and numbers stay apart (`Printable`), the text loads back to
  the configuration at six decimals (`Rounded`), every key, default and switch of it.
* Calibration puts labels between quotes as they are (core/calibrate.rs 812-838): a label with a quote or a backslash makes a
  ladder for another model, or no TOML.  `FitsTheLabels` is about labels that TOML reads as they are.
* WF-ADR-0007:45-49, 95-97 and the command line's messages (`cli` 526, 2269, 2438) speak of reloading;
  `AppState::load` reads the file once.
* `sweep_cut` never considers to send everything to the low arm, so a ladder can be right less often than the majority label;
  `FitsTheLabels` compares with the cuts that a prompt reaches.  The judge's gates can pass a ladder with two tiers from zero.
* WF-ADR-0034 keys windows by `floor(now / window)`; the code starts a window at the first request
  after the last one ended.  The promised burst bound holds all the same, and is proved.
* WF-ADR-0033 accounts a cache hit with cost 0; the recent decision of a hit carries a realised cost.

## What is proved

Every safety property that a run checks and expects to hold is a theorem, and so are the two refinements; the list in `PROJECT.json` names for
each theorem the property it states.

`RateLimiterProofs` proves, for every number of clients, limits, window, tick and cost, from
`RateAssumption` alone (finite clients, natural numbers, a positive window, at least one limit):

* `TypeCorrect`: `Spec => []TypeOK`; the token counter never passes its ceiling.
* `QuotaHolds`: `Spec => []WindowQuota`.
* `BurstIsBounded`: `Spec => []BurstBound`; no period as long as a window holds more than `2 * rpm` admissions.
* `OvershootIsBounded`: `Spec => []TokenOvershoot`.
* `WaitingIsEnough`: `Spec => []WaitingPaysOff`.
* `NobodyWaitsLonger`: `Spec => []NoOverWait`.

`WindowQuota` is not inductive together with `BurstBound`: the burst bound of a new admission needs to know
that the admissions *before* the running window's own, a full quota of them, lie a window back.  `QuotaInv` adds
this (`SpentQuotaIsOld`) and that the log does not run ahead of the clock or of the window (`InTime`).
`RollKeepsQuota` handles a step that can only roll the window, `AdmitKeepsQuota` an admission; `QuotaInvariant` puts
the actions together.  The overshoot is inductive with the types: an admission adds one request in progress
only below the cap, a charge turns one request in progress into at most `MaxCost` tokens, a roll drops tokens.
The last two follow from `PromisesKept`: a promise reaches the end of the window it was about, and passes it by less
than a second unless that window was over when it was made.  `CeilBounds` bounds the rounding up to whole seconds, `RetryBounds`
what `retry_after` then returns between its two readings of the clock.

`DeliveryProofs` proves, for any number of requests, names, tiers, fallbacks, retries, thresholds and cooldowns, from
`ReliabilityAssumption` and `DeliveryAssumption` (fallbacks and enabled endpoints are endpoints, tiers are
names, the rest are natural numbers):

* `TypeCorrect`: `Spec => []TypeOK`.
* `BreakerFollowsTheStreak`: `Spec => []BreakerTracksStreak`.
* `OpenTargetsNeedAnOldPlan`: `Spec => []OpenOnlyBehindItsBack`.
* `OneVerdictEach`: `Spec => []OneVerdictPerTarget`.
* `DisciplineHolds`: `Spec => []FailoverDiscipline`.
* `SidesAreKept`: `Spec => []StaysOnItsSide`, on a ladder that names every tier once (`LadderIsDistinct`; with a tier named
  twice "below" does not order the ladder).
* `NearestComesFirst`: `Spec => []NearestTierFirst`, on any ladder.
* `TheBooksAgree`: `Spec => []BooksAgree`, for any finite number of requests.

None of them is inductive.  `WalkInv` says where a request can stand: one that moves stands at a
position of its plan, the plan is a part of its target list, and its delivery started at an endpoint, so the
list is a sequence of names (`TargetsAreNames`).  `BreakerStep` reduces a step of the whole system to "one verdict
on the target of a request, or none", and `StreakGrows` says what one more verdict does to a streak.  `PlanStep`
reduces a step to what it may do to a plan: a plan comes from the breaker as it is, and a later opening is
dated `now`, which no stamp is ahead of (`StampsArePast`).  One verdict per target needs three facts more: a plan names no target
twice, whoever is being settled is `finished`, and `VerdictsPlaced`, that a request whose verdict
exists has passed that target or stands behind its credit (`Credited`).  `StepKinds` sorts all actions into
setting out, moving without a verdict, and reporting; the preservation of `VerdictsPlaced` is proved for these
three.

The discipline is inductive with `SentInv`: nothing is sent before there is a plan nor to a target out of it, a target is exhausted
after its last retry, a request after its last target.  `WalkSteps` sorts the actions by what they do to the walk (rest,
POST again, go on, plan nothing), and `GoesOnKeeps` serves the first target of a plan and every later one alike: what
lies behind has been given up, what lies ahead has not been called.  That a retry of one target does not count for another is
`PlansAreDistinct`.  `TargetComesFrom` says of every position of a target list whether it is the first target, a fallback or a candidate;
the other two theorems follow from it.

The books agree only between settlements, so the invariant speaks of all states: `Stage` says how many of the four books know of
a request's turn, in the order in which both paths tell them, and each book is the number of the turns it knows of (`BooksInv`).  A
step moves one request by at most one stage, and adds one to the one book of that stage (`BookSteps`, `SettlingKeepsBooks`).  That
the target of a delivered turn does not change any more is part of "no book hears of it" (`Unheard`).

`CacheProofs` proves, for any number of requests, endpoints, bodies, limits and ttl, from `CacheAssumption`:

* `HitsAreOwn`: `Spec => []NoForeignReplay`.
* `HitsAreFreshAlways`: `Spec => HitsAreFresh`, an action property.
* `FieldsAlwaysAgree`: `Spec => []FieldsAgree`.
* `CacheKeepsPromise`: `Spec => KeepsPromise`, the refinement of `BoundedCache`.
* `TypeCorrect`: `Spec => []TypeOK`.

`CacheInv` adds what a hit relies on: every stored answer carries its key (`EntriesMatch`) and is the last one
stored under it (`LatestStays`), and an answer that waits to be stored answers the body its request asked for
(`AsksItsOwn`).  `PutMatches` does not need to know which keys `Evict` pops: whatever stays, stays unchanged.

`Tidy` makes `FieldsAgree` inductive: the queue lists every stored key once (`Lists`), and the byte counter is `SizeOf` the entries.  `SizeOf` is a
fold, a recursive function on sets, so that there is such a function is shown first, for one size of subset after the
other (`FoldExists`); `FoldAdds` then says that the order in which entries are taken does not matter.  `SizeSplits` is then what the eviction needs: what stays and what is popped add up.  `PutEvicts` describes a store by
the least number of pops.  For the refinement the queue is read as an order (`Holds`, `Precedes`), `Before` maps it to the order of use
of `BoundedCache`, and `PutKeepsPromise` shows that the youngest entries which the popping leaves are the largest set that fits.

`StreamProofs` proves, for any set of tool calls and any upstream answers of any length (`ScriptAssumption`):

* `TypeCorrect`: `Spec => []TypeOK`.
* `MessagesAreWellFormed`: `Spec => WellFormed`, the refinement of `MessageStream`.
* `NothingIsLost`: `Spec => []NothingLost`.
* `FinishedIsAccounted`: `Spec => []AccountedUnlessMissed`.

The invariant speaks of `Stream`, what the client has seen with what is ready for it, `out \o pending`.  It is formed after the grammar at each of its
places (`Formed`), nothing stands behind its `message_stop`, and, as long as the translator reads, it is exactly what the lines read so far make of it
(`Abreast`): `After(t, s, sc, n)` says of the translator's fields and of the stream what the first `n` lines of the script put there.  `FeedFits` takes that
from one line to the next, `FeedLinesFits` over the lines of a chunk, and `FinishCompletes` says that `finish` then leaves a stream that carries every
text and all arguments (`Told`).  The blocks of `finish` are joined by a fold over the slots; `FlattenAppend` and `ToolsFit` handle them block by block,
with the lines of one call in order (`InOrderLists`, since a list in ascending order is determined by its set, `ListsUnique`).  What the client has seen is a prefix of a
formed stream, so each of its steps is one of the grammar (`MessageSteps`).  `AccountedUnlessMissed` is inductive
with it: a chunk that brings the translator to `[DONE]` has charged the turn if it has its blank line too and that is one for the accounting;
otherwise the line ends are CRLF, or the chunk ends behind a line, which is the arithmetic of positions modulo three.

`ChatProofs` proves, for any number of threads, prompts and deltas, from `ChatAssumption`:

* `TypeCorrect`: `Spec => []TypeOK`.
* `AnswersStandBehindPrompts`: `Spec => []AnswersBehindPrompts`.
* `PendingStaysLast`: `Spec => []PendingIsLast`.
* `WithdrawnOnlyAtFirst`: `Spec => []WithdrawnOnlyFirst`.
* `NothingKeptIsLost`: `Spec => []NothingIsLost`, if no conversation is opened from a list older than its file (`~MayOpenStale`).

`StateOK` has the types and `OneEnd`, that the event which ends a reply is the worker's last.  Every conversation, in memory, on disk and in the
list, is `Sound`: no message occurs twice, each answer stands behind its prompt, a prompt taken back is the first message.  Sound by `Ends`, that is: a
withdrawal that did not get to the disk counts as no answer there, and `EndsAfter` says what the end of a turn makes of `Ends` whether its save
succeeds or not.  What makes this inductive is `InFlight`: the turn of the reply in flight occurs nowhere but at the end of the conversation in memory and in its file, so that `Completed` and
`RolledBack` can add an answer or take a prompt back without touching an earlier turn.  `AtHome` says that an answer
is in no conversation but the one it was kept in, and that files and list know only ids that were drawn, so a new conversation starts where nothing is.
`MemoryKeeps` says that, while the process runs, memory holds every answer kept in its thread that is not `unsaved`; without it a save could drop
one.  `PersistKeeps` then covers the save that succeeds, the one that fails and the one that tears the file.  The hypothesis of the last theorem is needed: the run `chat_reopen` shows what happens
without it (see above).  It restricts the user, not the program: nobody opens from an old list.

`GatewayProofs` proves, for any number of requests, any configurations and anything clients ask and upstreams answer, from
`GatewayAssumption` (finitely many requests, each with questions of its own, a ring of at least one):

* `ScrapesStayBehind`: `Spec => []ScrapeNeverAhead`.
* `HitsAreOfTheTarget`: `Spec => []HitsComeFromTheTarget`.
* `LatchNeverSlips`: `Spec => []LatchHolds`.
* `AdapterIsTransparent`: `Spec => []AdapterRoutesAlike`.

A scrape reads the ring before the counters, so its ring may be older, never newer.  `ScrapeInv` makes that inductive by counting:
the ring and the requests that stand between counter and ring together are no more than the decisions counted
(`CountedFirst`), and a gauge already read is no more than the counters that are about to be (`GaugeCounted`).  Every step is
one of four kinds: quiet, it counts, it publishes, it reads.  `SourceInv` says what a stored name tells: the
upstream model that gave the answer stored under it, and that a request holding an answer of its own got it from `served`.

The last two are about a single decision, and `RouteInv` only says that a request remembers the decision its question and the configuration made.
What is hard is what a decision reads.  Texts are gathered from a conversation message by message (`Each`, with `EachConcat` and `EachEach`
for its algebra), and `PromptIs` says what is scored in each scope.  For the latch, `LatchedAtHighWater` shows that a
latched turn stands where the highest of its users' texts asks; a later turn has all texts of the earlier one, and its
maximum is over a larger set.  For the adapter, `TranslationSays` shows that a translated conversation says what the original said, system parameter included:
tool calls and tool results become messages that say nothing to the router, or split off from a user's message what does.

`WorkspaceProofs` proves, for any number of agents and jobs, any texts, labels and prompts, from `LogAssumption` (prompts
have features, the first log and the jobs hold prompts and known labels) and `WorkspaceAssumption` (defaults and the environment's threshold are in range, the
first file and the scaffold load, a posted text is a text):

* `TheFileIsSound`: `Spec => []FileIsSound`.
* `TheAddedModelsStay`: `Spec => []AddedModelsStay`.
* `FitsAreBest`: `Spec => []FitsTheLabels`.
* `TheShownLoadsBack`: `Spec => []ShownLoadsBack`.

The first two are about the file, and neither is inductive, since what will stand in the file is held by agents between reading and writing.
`FileInv` says of them: whoever writes knows its text (`AgentsKept`); without an overlap there is one of them, and it fills the file
it emptied (`WritesAlone`); what it holds was parsed, but for a fit (`WritesParsed`), and has all the models that were added, unless it
replaces the file as a whole (`WritesKeep`).  `EditedKeeps` is what the line editors promise: they keep the models, and
set-threshold, which parses the routing half only, leaves the other half as it was.  `CalibrateGivesTexts` is all that they need of
calibration.  An agent's step keeps the invariant by one of three lemmas: it turns to writing, it empties or fills, or it
does something else.

`FitsTheLabels` needs what a fit is made from.  `LogInv` says that the log holds prompts with labels and that whoever asks holds prompts, so a data set is a
sequence of samples (`DatasetIsSamples`), and the sums and means over it are numbers (`SumsExist`: again a fold over a set).  `TwoArms` says that two labels
make two arms, whatever their means, `MiddleIsOne` that the middle of the best cuts is one of them, `SweepFindsBest` that no candidate is right more
often, and `CutsAreScores` that a candidate is where a prompt scores, so no cut that a prompt reaches is left out.  `ThresholdFits` puts them together.

`ShownLoadsBack` is proved half by half, dump against parse, for whatever `Raw`, `Debugged` and `KeyPath` are.  What it asks of a configuration is
`Printable`: its names and strings are read back as they were, neighbouring tiers are apart at six decimals, and a window is not zero
there; and what comes back is `Rounded`, every number at six decimals and the rest as it was.  A number at six decimals keeps its sign and its order, is not changed when
it is printed again, and 0, 1 and the defaults stay where they are (`PrintedIs`, `DefaultsPrint`).  A table over its defaults, written without what is at its default, reads as
the table again, rounded (`WrittenTable`), which gives `WeightsLoadBack`, the settings of each model and those of the gateway (`GatewayLoadsBack`); a list without repetition
is the list of its set (`ListedAgain`, for `LexiconLoadsBack`); classes come back in the order of their names (`ClassifierLoadsBack`); headers of
bare names are the tables they name (`HeadersBare`, for the models and the keys); and a ladder that was parsed parses again as long as its steps
rise at six decimals (`PrintedTiersAre`), which a binary ladder does unless its threshold is zero there (`BinarySteps`).  `ShownIs` is the theorem about one configuration.  The invariant `ShownInv` is kept together with
`FileInv`: what the gateway serves was loaded from the file, and a save may post what the gateway shows.

`LedgerProofs` proves, for any days, any room for them, any number of turns and any kills and failed calls, from `LedgerAssumption`
and one process on the path (`Alone`; with two processes they undo and overwrite each other, see the hazards in `PROJECT.json`):

* `TheSavedTurnsSurvive`: `Spec => []SavedTurnsSurvive`.

`LedgerInv` adds to it what a save relies on between its system calls (`TmpIsMine`): the temporary file is never the ledger's own
inode, what is open is the temporary file and is empty until written, and what is written but not renamed is the memory of the process.
A rename then makes the memory the ledger, and the memory has all that was settled.  The hard part is the pruning: `PruneDropsOldest`
shows that a ledger one day over its room loses exactly its oldest day, `RecordHolds` that a turn and a pruning together
keep `Holds`, also when the clock has stepped back and the new day is itself the oldest and goes at once.  The oldest day
exists because `<` is well founded on the naturals.

Model-checked only: liveness (`EveryRequestEnds`, `EveryRequestAnswered`, `ClientIsTold`, `ComposerComesBack`, `SupervisedServes`:
fairness is out of the prover's reach), and the three counterexamples.  What `Judging`'s recursive function (the matching
blocks of the similarity) computes would need an induction that the provers cannot instantiate; the theorems about `Workspace` hold whatever it computes.

Where a proof needs an induction over data all the same (folds, joins, the least number), it goes down to one fact, that a set of naturals
with 0 and with the successor of each of its members has all of them (`NaturalSteps`), from the well-foundedness of `<`.  The few lemmas on this are
stated in each module that uses them.

## Not modelled, and why

Text as characters (prompts, TOML syntax, Prometheus and terminal layout), the values of prices (a ledger entry is a count of
turns) and the solver of the classifier: conversions or numerics.  Scores, cuts and agreement are modelled in integers, so
what binary floating point does to a tie at the last digit is not.  Of the numbers of a configuration file, infinities,
NaN and those with more digits than a double has are left out; of its strings, those that close their quotes and go on with keys of their own: a
string that is not read back is another string or no TOML.  `detectors.rs` and `profiles.rs` do not take part in
routing; `judge_validation.rs` is a report over a benchmark; rendering is layout; the key
commands and `doctor` print or call a key chain.  The relay's own retry loop is like `forward_upstream`'s, without breaker and books;
the chat sees its result.  In the command line, argument parsing and reports are left out, in the chat its editing and panels.

In what is modelled: wall-clock steps backwards of the breaker (the
`checked_sub` only prolongs a cooldown), allocation and encoding failures, and a poisoned mutex after a panic in a critical section.
Two processes on one ledger path are possible in `SavingsLedger`; its run has one.

## Plan

Done: (1) `Reliability`, `Delivery`, `DeliveryProofs`; (2) `RateLimiter`, `RateLimiterProofs`; (3) `BoundedCache`,
`ResponseCache`, `CacheProofs`; (4) `SavingsLedger`, `LedgerProofs`; (5) `MessageStream`, `AnthropicStream`, `StreamProofs`;
(6) `ChatTerminal`, `ChatProofs`; (7) `Complexity`, `Routing`, `AnthropicAdapter`, `Gateway`, `GatewayProofs`;
(8) `ConfigFile`, `Calibration`, `Judging`, `Workspace`, `WorkspaceProofs`.

Left, in this order:

9. A delivery as "one of the admissible targets, or an error, and at most one settlement", for `Delivery` to implement and for
   `Gateway` to use in the place of its own upstream step.
10. The relay: `invoke_messages` and `StreamMessages`.
