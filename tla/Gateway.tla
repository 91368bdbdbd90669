------------------------------ MODULE Gateway ------------------------------
(***************************************************************************)
(* A request on its way through the gateway, from the virtual key to the    *)
(* answer, next to other requests and to a scrape of /metrics: what         *)
(* chat_completions_response and anthropic_messages do, which mutex each    *)
(* step takes and which books it leaves.  Delivery itself, the windows of   *)
(* the rate limiter, the cache's eviction and the savings ledger have       *)
(* modules of their own; here an upstream call is one step that may end in  *)
(* any way.                                                                *)
(*                                                                         *)
(*   idle -> admission -> routing -> (key) -> gate                          *)
(*   gate -> lookup -> hit -> showhit -> answered                          *)
(*   gate -> (lookup -> miss) -> plan -> upstream -> observe -> publish     *)
(*        -> (store) -> answered                                           *)
(*   gate -> observe -> publish -> answered      admission -> limited       *)
(***************************************************************************)
EXTENDS AnthropicAdapter, FiniteSets

CONSTANTS
    Requests,     \* the requests of a behaviour
    Setups,       \* configurations the gateway may be started with
    Asks,         \* what a client may send
    MayAsk,       \* which of the asks each request may be
    Completions,  \* what an upstream may answer: text, tool calls, finish
    RecentLimit,  \* RECENT_LIMIT
    NoOne

(* What the handlers read of a request, in the shape of either protocol.    *)
RequestShape ==
    {a \in [client : {"chat", "anthropic"},
            messages : Seq(Message) \cup Seq(AnthropicMessage),
            system : Seq(ContentBlock), field : STRING, threshold : Int,
            scope : STRING, sticky : BOOLEAN, offline : BOOLEAN, secret : STRING,
            stream : BOOLEAN, sampling : STRING, debug : BOOLEAN] :
        a.messages \in IF a.client = "anthropic" THEN Seq(AnthropicMessage)
                       ELSE Seq(Message)}

ASSUME GatewayAssumption ==
    /\ IsFiniteSet(Requests) /\ NoOne \notin Requests
    /\ RecentLimit \in Nat \ {0}
    /\ \A r \in Requests : MayAsk[r] \subseteq DOMAIN Asks
    /\ \A i \in DOMAIN Asks : Asks[i] \in RequestShape
    /\ \A c \in DOMAIN Setups : Setups[c].routing.tiers \in Seq(Tier)

VARIABLES
    conf,       \* AppState: the place of its configuration in Setups
    pc,         \* where each request stands
    ask,        \* the place of what each request sent in Asks, 0 for none
    key,        \* the virtual key each request presented
    route,      \* what was decided for it: mode and model
    served,     \* the model that served it
    reply,      \* the answer of the chat handler
    sent,       \* what the client got
    holder,     \* who holds a mutex between two steps
    admitted,   \* requests admitted in the current window
    counters,   \* Metrics
    recent,     \* the recent ring, newest first
    stored,     \* response cache: what each key holds
    scrape      \* a scrape of /metrics: the gauge, then the counters

vars == <<conf, pc, ask, key, route, served, reply, sent, holder, admitted,
          counters, recent, stored, scrape>>

Mutexes == {"cache", "metrics", "recent"}

Setup == Setups[conf]

Free(m) == holder[m] = NoOne

Step(r, from, to) == pc[r] = from /\ pc' = [pc EXCEPT ![r] = to]

Set(r, answer) == reply' = [reply EXCEPT ![r] = answer]

Refusal(status) == [status |-> status, kind |-> "error"]

Count(names) ==
    counters' = [n \in DOMAIN counters |->
                    counters[n] + IF n \in names THEN 1 ELSE 0]

-----------------------------------------------------------------------------
(* match_key compares hashes, so a presented secret is one of the           *)
(* configured ones or none; the last of equal ones wins.                    *)
MatchKey(secret) ==
    LastOf(SelectSeq(Setup.keys, LAMBDA k : k.secret = secret))

(* authorize_key: without configured keys everyone is let in.               *)
Authorized(a) == Setup.keys = << >> \/ MatchKey(a.secret) # None

Endpoints == DOMAIN Setup.upstream

(* The name cached answers go by: the upstream model id and the body        *)
(* without model and stream; headers are no part of it.                     *)
CacheKey(a, model) == <<Setup.upstream[model], a.messages, a.sampling>>

(* is_cacheable_request, the switch and the debug header.                   *)
IsCacheable(a) ==
    /\ Setup.cache /\ ~a.debug
    /\ ~a.stream /\ a.sampling = "deterministic"
    /\ a.messages # << >>
    /\ \A i \in DOMAIN a.messages : a.messages[i].content.shape = "string"

(* is_storable_response: a text and no tool calls.                          *)
IsStorable(answer) ==
    /\ answer.status = 200 /\ answer.kind = "completion"
    /\ answer.completion.text /\ answer.completion.tools = 0

(* decision_debug_body: what a gateway that does not deliver answers with.  *)
DecisionBody(a, chosen, routing) ==
    LET prompt == ScopedPrompt(a.messages, a.scope)
        features == ExtractFeatures(prompt)
    IN  [status |-> 200, kind |-> "decision", model |-> chosen,
         score |-> ScoreComplexity(prompt, routing).score,
         contributions |->
             [f \in FeatureNames |-> Contribution(features, routing.weights, f)]]

(* What the chat handler is asked for what a client sent.                   *)
Translated(a) == IF a.client = "anthropic" THEN AnthropicToOpenai(a) ELSE a

(* What depends on nothing but the configuration and the request stands in  *)
(* tables: what is asked, the decision, and the body that is answered       *)
(* without delivery.                                                        *)
Translations == [i \in DOMAIN Asks |-> Translated(Asks[i])]

Ask(r) == Translations[ask[r]]

DecisionOf(a, routing, decided) ==
    [route |-> decided, body |-> DecisionBody(a, decided.chosen, routing)]

Decisions ==
    [c \in DOMAIN Setups |-> [i \in DOMAIN Asks |->
        DecisionOf(Translations[i], Setups[c].routing,
                   Decide(Translations[i], Setups[c].routing,
                          DOMAIN Setups[c].upstream))]]

Decision(r) == Decisions[conf][ask[r]]

Offline(r) == Setup.offline \/ Asks[ask[r]].offline

Target(r) == DeliverFrom(route[r].chosen, Offline(r), Setup.routing, Endpoints)

-----------------------------------------------------------------------------
Init ==
    /\ conf \in DOMAIN Setups
    /\ pc = [r \in Requests |-> "idle"]
    /\ ask = [r \in Requests |-> 0]
    /\ key = [r \in Requests |-> None]
    /\ route = [r \in Requests |-> Refused]
    /\ served = [r \in Requests |-> "none"]
    /\ reply = [r \in Requests |-> [status |-> 0, kind |-> "none"]]
    /\ sent = [r \in Requests |-> None]
    /\ holder = [m \in Mutexes |-> NoOne]
    /\ admitted = 0
    /\ counters = [decisions |-> 0, failovers |-> 0, hits |-> 0, misses |-> 0,
                   limited |-> 0, keyed |-> 0]
    /\ recent = << >>
    /\ stored = << >>
    /\ scrape = [stage |-> "idle", gauge |-> 0, total |-> 0]

(* A request comes in through either protocol and shows its key.            *)
Arrive(r) ==
    /\ \E i \in MayAsk[r] :
        /\ ask' = [ask EXCEPT ![r] = i]
        /\ IF Authorized(Asks[i])
           THEN /\ Step(r, "idle", "admission")
                /\ key' = [key EXCEPT ![r] = MatchKey(Asks[i].secret)]
                /\ UNCHANGED reply
           ELSE /\ Step(r, "idle", "answered")
                /\ Set(r, Refusal(401))
                /\ UNCHANGED key
    /\ UNCHANGED <<conf, route, served, sent, holder, admitted, counters, recent,
                   stored, scrape>>

(* RateLimiter::admit in one window, a critical section of its own.         *)
Admit(r) ==
    /\ IF admitted < Setup.quota
       THEN Step(r, "admission", "routing") /\ admitted' = admitted + 1
       ELSE Step(r, "admission", "limited") /\ UNCHANGED admitted
    /\ UNCHANGED <<conf, ask, key, route, served, reply, sent, holder, counters,
                   recent, stored, scrape>>

RefuseLimited(r) ==
    /\ Free("metrics")
    /\ Step(r, "limited", "answered")
    /\ Set(r, Refusal(429))
    /\ Count({"limited"})
    /\ UNCHANGED <<conf, ask, key, route, served, sent, holder, admitted, recent,
                   stored, scrape>>

(* Score, route and latch; a threshold header that does not fit is a 400.   *)
Route(r) ==
    /\ pc[r] = "routing"
    /\ route' = [route EXCEPT ![r] = Decision(r).route]
    /\ IF route'[r] = Refused
       THEN Step(r, "routing", "answered") /\ Set(r, Refusal(400))
       ELSE /\ Step(r, "routing", IF key[r] = None THEN "gate" ELSE "key")
            /\ UNCHANGED reply
    /\ UNCHANGED <<conf, ask, key, served, sent, holder, admitted, counters,
                       recent, stored, scrape>>

CountKey(r) ==
    /\ Free("metrics")
    /\ Step(r, "key", "gate")
    /\ Count({"keyed"})
    /\ UNCHANGED <<conf, ask, key, route, served, reply, sent, holder, admitted,
                   recent, stored, scrape>>

(* Dry run, decision only, misconfigured, or on to the cache or the plan.   *)
Gate(r) ==
    /\ pc[r] = "gate"
    /\ \/ /\ Setup.dry
          /\ Step(r, "gate", "observe")
          /\ served' = [served EXCEPT ![r] = route[r].chosen]
          /\ Set(r, Decision(r).body)
       \/ /\ ~Setup.dry /\ Target(r) \notin Endpoints
          /\ Step(r, "gate", "answered")
          /\ Set(r, IF Endpoints = {} THEN Decision(r).body ELSE Refusal(500))
          /\ UNCHANGED served
       \/ /\ ~Setup.dry /\ Target(r) \in Endpoints
          /\ Step(r, "gate", IF IsCacheable(Ask(r)) THEN "lookup" ELSE "plan")
          /\ UNCHANGED <<served, reply>>
    /\ UNCHANGED <<conf, ask, key, route, sent, holder, admitted, counters, recent,
                   stored, scrape>>

-----------------------------------------------------------------------------
(* The guard of the cache is a temporary of the `if let` that looks it up:  *)
(* on a hit it lives until the answer is returned.                          *)
Lookup(r) ==
    LET name == CacheKey(Ask(r), Target(r))
    IN  /\ pc[r] = "lookup" /\ Free("cache")
        /\ IF name \in DOMAIN stored
           THEN /\ Step(r, "lookup", "hit")
                /\ holder' = [holder EXCEPT !["cache"] = r]
                /\ served' = [served EXCEPT ![r] = Target(r)]
                /\ Set(r, stored[name])
           ELSE /\ Step(r, "lookup", "miss")
                /\ UNCHANGED <<holder, served, reply>>
        /\ UNCHANGED <<conf, ask, key, route, sent, admitted, counters, recent,
                       stored, scrape>>

CountHit(r) ==
    /\ Free("metrics")
    /\ Step(r, "hit", "showhit")
    /\ Count({"hits", "decisions"})
    /\ UNCHANGED <<conf, ask, key, route, served, reply, sent, holder, admitted,
                   recent, stored, scrape>>

(* push_recent.                                                             *)
Push(r) ==
    LET ring == <<r>> \o recent
    IN  recent' = SubSeq(ring, 1, Min({Len(ring), RecentLimit}))

(* Mutant of ShowHit: the entry is touched under a second lock of the cache.*)
ShowHitTouching(r) ==
    /\ Free("recent") /\ Free("cache")
    /\ Step(r, "showhit", "answered")
    /\ Push(r)
    /\ holder' = [holder EXCEPT !["cache"] = NoOne]
    /\ UNCHANGED <<conf, ask, key, route, served, reply, sent, admitted, counters,
                   stored, scrape>>

ShowHit(r) ==
    /\ Free("recent")
    /\ Step(r, "showhit", "answered")
    /\ Push(r)
    /\ holder' = [holder EXCEPT !["cache"] = NoOne]
    /\ UNCHANGED <<conf, ask, key, route, served, reply, sent, admitted, counters,
                   stored, scrape>>

CountMiss(r) ==
    /\ Free("metrics")
    /\ Step(r, "miss", "plan")
    /\ Count({"misses"})
    /\ UNCHANGED <<conf, ask, key, route, served, reply, sent, holder, admitted,
                   recent, stored, scrape>>

(* No circuit lets the request through, or delivery sets out.               *)
Plan(r) ==
    /\ \/ Step(r, "plan", "upstream") /\ UNCHANGED reply
       \/ Step(r, "plan", "answered") /\ Set(r, Refusal(503))
    /\ UNCHANGED <<conf, ask, key, route, served, sent, holder, admitted, counters,
                   recent, stored, scrape>>

(* What a successful endpoint sends: a body that is no JSON counts too.      *)
Answers(a, model) ==
    IF a.stream THEN {[status |-> 200, kind |-> "stream"]}
    ELSE {[status |-> 200, kind |-> "garbage"]} \cup
         {[status |-> 200, kind |-> "completion", completion |-> c,
           from |-> Setup.upstream[model]] : c \in Completions}

(* Delivery, as one step: an endpoint answers, one refuses the request, or  *)
(* all of them fail.  Offline there is no failover.                         *)
Upstream(r) ==
    /\ pc[r] = "upstream"
    /\ \/ \E model \in IF Offline(r) THEN {Target(r)} ELSE Endpoints :
            /\ served' = [served EXCEPT ![r] = model]
            /\ \/ Step(r, "upstream", "answered") /\ Set(r, Refusal(404))
               \/ /\ Step(r, "upstream", "observe")
                  /\ \E answer \in Answers(Ask(r), model) : Set(r, answer)
       \/ /\ Step(r, "upstream", "answered")
          /\ Set(r, Refusal(502))
          /\ UNCHANGED served
    /\ UNCHANGED <<conf, ask, key, route, sent, holder, admitted, counters,
                   recent, stored, scrape>>

(* Mutant of Observe: only what its own model served is counted.            *)
ObserveOwn(r) ==
    /\ Step(r, "observe", "publish")
    /\ Free("metrics")
    /\ Count(IF served[r] = route[r].chosen THEN {"decisions"}
             ELSE {"failovers"})
    /\ UNCHANGED <<conf, ask, key, route, served, reply, sent, holder,
                   admitted, recent, stored, scrape>>

(* The metrics of a delivered (or dry) request, in one critical section.    *)
Observe(r) ==
    /\ Step(r, "observe", "publish")
    /\ Free("metrics")
    /\ Count({"decisions"} \cup
             IF served[r] # route[r].chosen /\ ~Offline(r)
             THEN {"failovers"} ELSE {})
    /\ UNCHANGED <<conf, ask, key, route, served, reply, sent, holder,
                   admitted, recent, stored, scrape>>

Stores(r) == IsCacheable(Ask(r)) /\ ~Setup.dry /\ IsStorable(reply[r])

Publish(r) ==
    /\ pc[r] = "publish" /\ Free("recent")
    /\ Step(r, "publish", IF Stores(r) THEN "store" ELSE "answered")
    /\ Push(r)
    /\ UNCHANGED <<conf, ask, key, route, served, reply, sent, holder,
                   admitted, counters, stored, scrape>>

(* The cache with one answer put in; the store's evictions are elsewhere.   *)
Holding(name, answer) ==
    [n \in {name} \cup DOMAIN stored |->
        IF n = name THEN answer ELSE stored[n]]

(* Mutant of Store: the answer goes under the name that was looked up.      *)
StoreUnderTarget(r) ==
    /\ Free("cache")
    /\ Step(r, "store", "answered")
    /\ stored' = Holding(CacheKey(Ask(r), Target(r)), reply[r])
    /\ UNCHANGED <<conf, ask, key, route, served, reply, sent, holder,
                   admitted, counters, recent, scrape>>

(* The answer goes under the name of the model that gave it.                *)
Store(r) ==
    /\ Free("cache")
    /\ Step(r, "store", "answered")
    /\ stored' = Holding(CacheKey(Ask(r), served[r]), reply[r])
    /\ UNCHANGED <<conf, ask, key, route, served, reply, sent, holder,
                   admitted, counters, recent, scrape>>

(* An Anthropic client gets every answer in its own shape.                  *)
Send(r) ==
    /\ Step(r, "answered", "sent")
    /\ sent' = [sent EXCEPT ![r] = IF Ask(r).client = "anthropic"
                                   THEN FromChat(reply[r]) ELSE reply[r]]
    /\ UNCHANGED <<conf, ask, key, route, served, reply, holder, admitted,
                   counters, recent, stored, scrape>>

-----------------------------------------------------------------------------
(* A scrape reads the length of the ring, then the counters, each under its *)
(* own mutex.                                                               *)
ScrapeRing ==
    /\ scrape.stage = "idle" /\ Free("recent")
    /\ scrape' = [stage |-> "ring", gauge |-> Len(recent), total |-> 0]
    /\ UNCHANGED <<conf, pc, ask, key, route, served, reply, sent, holder,
                   admitted, counters, recent, stored>>

ScrapeCounters ==
    /\ scrape.stage = "ring" /\ Free("metrics")
    /\ scrape' = [scrape EXCEPT !.stage = "done", !.total = counters.decisions]
    /\ UNCHANGED <<conf, pc, ask, key, route, served, reply, sent, holder,
                   admitted, counters, recent, stored>>

Handle(r) ==
    \/ Admit(r) \/ RefuseLimited(r) \/ Route(r) \/ CountKey(r) \/ Gate(r)
    \/ Lookup(r) \/ CountHit(r) \/ ShowHit(r) \/ CountMiss(r) \/ Plan(r)
    \/ Upstream(r) \/ Observe(r) \/ Publish(r) \/ Store(r) \/ Send(r)

Next ==
    \/ \E r \in Requests : Arrive(r) \/ Handle(r)
    \/ ScrapeRing \/ ScrapeCounters

Spec == Init /\ [][Next]_vars

(* A request that has come in is worked on: upstream calls have a timeout,  *)
(* and no mutex is waited for forever while its holder moves on.            *)
FairSpec == Spec /\ \A r \in Requests : WF_vars(Handle(r))

-----------------------------------------------------------------------------
(* Every request that comes in is answered, hits of the cache included:     *)
(* they keep the cache locked while they take two more mutexes.             *)
EveryRequestAnswered ==
    \A r \in Requests : pc[r] = "admission" ~> pc[r] = "sent"

(* A scrape never shows more retained decisions than were ever counted: a   *)
(* request is counted before it is published, on every path, and the ring   *)
(* is read before the counters.                                             *)
ScrapeNeverAhead == scrape.stage = "done" => scrape.gauge <= scrape.total

(* A cached answer comes from the upstream model the request would have     *)
(* been sent to, also when the request that stored it had failed over.      *)
HitsComeFromTheTarget ==
    \A r \in Requests :
        pc[r] \in {"hit", "showhit"} => reply[r].from = Setup.upstream[Target(r)]

UserTexts(a) == TextsOf(WithRole(a.messages, "user"))
SystemTexts(a) == TextsOf(WithRole(a.messages, "system"))

(* The latest user message says something: an image alone does not.         *)
LatestHasText(a) ==
    LET asked == WithRole(a.messages, "user")
    IN  asked # << >> /\ MessageText(Last(asked)) # None

(* A latched turn: nothing but the conversation decides.                    *)
Latched(r) ==
    /\ pc[r] # "idle" /\ route[r] # Refused
    /\ Ask(r).sticky /\ Ask(r).scope = "none"
    /\ Ask(r).field = "auto" /\ Ask(r).threshold = NoHeader
    /\ LatestHasText(Ask(r))

(* Where a request was routed; a model off the ladder is its lowest rung.   *)
Rung(r) == Max({1, RungOf(TierLadder(Setup.routing), route[r].chosen)})

LaterTurn(q, r) ==
    /\ Latched(q) /\ Latched(r)
    /\ SystemTexts(Ask(q)) = SystemTexts(Ask(r))
    /\ IsPrefix(UserTexts(Ask(r)), UserTexts(Ask(q)))

(* The latch: in a sticky conversation without system messages a later turn *)
(* is never routed below an earlier one.                                    *)
LatchHolds ==
    \A q, r \in Requests :
        LaterTurn(q, r) /\ SystemTexts(Ask(r)) = << >> => Rung(r) <= Rung(q)

(* The texts of a role in an Anthropic conversation, one for each message   *)
(* that has any.                                                            *)
Speech(messages, role) ==
    FlattenSeq([i \in DOMAIN messages |->
        LET texts == TextsIn(OfType(messages[i].blocks, "text"))
        IN  IF messages[i].role = role /\ texts # << >>
            THEN <<Joined(texts)>> ELSE << >>])

SystemParameter(a) ==
    IF FlattenText(a.system) = EmptyText THEN << >> ELSE <<FlattenText(a.system)>>

Merged(texts) == IF texts = << >> THEN None ELSE Some(Joined(texts))

(* What the operator and the user said, whichever protocol carried it.      *)
Said(a) ==
    IF a.client = "anthropic"
    THEN <<Merged(SystemParameter(a) \o Speech(a.messages, "system")),
           Speech(a.messages, "user")>>
    ELSE <<Merged(SystemTexts(a)), UserTexts(a)>>

SameKnobs(a, b) ==
    \A knob \in {"field", "threshold", "scope", "sticky"} : a[knob] = b[knob]

(* The same conversation through both protocols: in the scope `all` tool    *)
(* results count, which only the adapter turns into messages.               *)
Alike(a, b) ==
    /\ a.client = "anthropic" /\ b.client = "chat"
    /\ SameKnobs(a, b) /\ a.scope # "all"
    /\ LatestHasText(b) /\ Said(a) = Said(b)

(* It is routed alike, whatever tool calls and tool results lie between its *)
(* turns.                                                                   *)
AdapterRoutesAlike ==
    \A q, r \in Requests :
        /\ route[q] # Refused /\ route[r] # Refused
        /\ Alike(Asks[ask[q]], Asks[ask[r]])
        => route[q] = route[r]
=============================================================================
