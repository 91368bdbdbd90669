------------------------------ MODULE Delivery ------------------------------
(***************************************************************************)
(* Delivery of admitted requests to the upstream endpoints: the tail of     *)
(* chat_completions_response from the delivery plan on, forward_upstream,   *)
(* stream_upstream and StreamAccounting, for any number of requests running *)
(* on a multi-threaded runtime.                                             *)
(*                                                                         *)
(* Every component of GatewayRuntime has a mutex of its own and no guard is *)
(* held across an await, so one critical section is one action.  A request  *)
(* is a process with a program counter:                                     *)
(*                                                                         *)
(*   idle -> planning -> flight <-> backoff                                 *)
(*   flight -> exhausted -> (next target) flight | replied                  *)
(*   flight -> won -> charge -> bill -> observe -> publish -> replied       *)
(*   flight -> open -> charge -> bill -> observe -> publish -> won -> tail  *)
(*   flight -> refused -> replied                                           *)
(*   open, tail -> broken -> replied                                        *)
(*   flight, backoff, open, tail -> dropped   (the client went away)        *)
(***************************************************************************)
EXTENDS Reliability, FiniteSets

CONSTANTS
    Requests,     \* the requests of a behaviour
    Inputs,       \* what a request may ask for, see InputType
    Statuses,     \* the upstream answers that occur
    Retries,      \* extra attempts per target
    RecentLimit,  \* length of the recent-decisions ring
    MaxClock      \* bound: the clock stops here

InputType == [chosen : Names, policy : {"same-tier", "degrade", "escalate"},
              offline : BOOLEAN, stream : BOOLEAN, tokens : Nat]

ASSUME DeliveryAssumption ==
    /\ Inputs \subseteq InputType
    /\ Statuses \subseteq Nat
    /\ Retries \in Nat
    /\ RecentLimit \in Nat
    /\ MaxClock \in Nat

VARIABLES
    now,        \* the wall clock reliability_now reads
    fails,      \* CircuitBreaker.fails
    openedAt,   \* CircuitBreaker.opened_at
    pc,         \* where each request stands
    input,      \* what each request asked for
    stamp,      \* the clock value its plan was computed with
    plan,       \* positions of its target list that survived the filter
    at,         \* the position being tried, 0 before the first
    attempt,    \* the attempt on that position, from 0
    finished,   \* StreamAccounting.finished; the same point of the plain path
    ended,      \* the upstream body has been read to its end
    reply,      \* how the request was answered
    errors,     \* Metrics.upstream_errors
    charged,    \* turns whose tokens were added to the rate limiter
    ledger,     \* turns the savings ledger billed to each model
    decisions,  \* Metrics.requests, by chosen model
    failovers,  \* Metrics.failovers, by chosen model
    recent,     \* the recent ring, newest first: <<chosen, served_by>>
    calls,      \* history: POSTs of each request to each name
    verdicts    \* history: what each request told the breaker of each name

breakerVars == <<fails, openedAt, verdicts>>
walkVars == <<plan, at, attempt, calls>>
bookVars == <<charged, ledger, decisions, failovers, recent>>
inputVars == <<input, stamp>>
vars == <<now, breakerVars, walkVars, bookVars, inputVars,
          pc, finished, ended, reply, errors>>

-----------------------------------------------------------------------------
Targets(r) == TargetList(input[r])
Target(r) == Targets(r)[at[r]]

(* The positions of a plan that are still ahead.  The loops skip a name     *)
(* without an endpoint (`let Some(target) = ... else { continue }`).        *)
Ahead(r, positions, i) ==
    {j \in positions : j > i /\ Targets(r)[j] \in Configured}

(* Move on to the next target of the plan and POST to it, or give up with   *)
(* a 502 when there is none.                                                *)
MoveOn(r, positions, i) ==
    LET ahead == Ahead(r, positions, i)
    IN  \/ /\ ahead = {}
           /\ pc' = [pc EXCEPT ![r] = "replied"]
           /\ reply' = [reply EXCEPT ![r] = "exhausted"]
           /\ UNCHANGED <<at, attempt, calls>>
        \/ \E j \in ahead :
           /\ \A k \in ahead : j <= k
           /\ at' = [at EXCEPT ![r] = j]
           /\ attempt' = [attempt EXCEPT ![r] = 0]
           /\ calls' = [calls EXCEPT ![r][Targets(r)[j]] = @ + 1]
           /\ pc' = [pc EXCEPT ![r] = "flight"]
           /\ UNCHANGED reply

(* One critical section on the breaker: the clock is read under the lock.   *)
Record(r, ok) ==
    LET m == Target(r)
    IN  /\ fails' = FailsAfter(fails, m, ok)
        /\ openedAt' = OpenedAfter(fails, openedAt, m, ok, now)
        /\ verdicts' = [verdicts EXCEPT ![m] =
                          Append(@, [by |-> r, ok |-> ok, time |-> now])]

CountError(r) == errors' = [errors EXCEPT ![Target(r)] = @ + 1]

Goto(r, from, to) ==
    /\ pc[r] = from
    /\ pc' = [pc EXCEPT ![r] = to]

Answer(r, answer) == reply' = [reply EXCEPT ![r] = answer]

-----------------------------------------------------------------------------
Init ==
    /\ now = 0
    /\ fails = [m \in Names |-> 0]
    /\ openedAt = [m \in Names |-> Closed]
    /\ pc = [r \in Requests |-> "idle"]
    /\ input \in [Requests -> Inputs]
    /\ stamp = [r \in Requests |-> 0]
    /\ plan = [r \in Requests |-> {}]
    /\ at = [r \in Requests |-> 0]
    /\ attempt = [r \in Requests |-> 0]
    /\ finished = [r \in Requests |-> FALSE]
    /\ ended = [r \in Requests |-> FALSE]
    /\ reply = [r \in Requests |-> "none"]
    /\ errors = [m \in Names |-> 0]
    /\ charged = 0
    /\ ledger = [m \in Names |-> 0]
    /\ decisions = [m \in Names |-> 0]
    /\ failovers = [m \in Names |-> 0]
    /\ recent = << >>
    /\ calls = [r \in Requests |-> [m \in Names |-> 0]]
    /\ verdicts = [m \in Names |-> << >>]

Tick ==
    /\ now < MaxClock
    /\ now' = now + 1
    /\ UNCHANGED <<breakerVars, walkVars, bookVars, inputVars,
                   pc, finished, ended, reply, errors>>

(* A request reaches delivery.  delivery_plan_for reads the clock before it *)
(* takes the breaker's lock, so the stamp is a step of its own.             *)
Arrive(r) ==
    /\ pc[r] = "idle"
    /\ \/ /\ DeliverFrom(input[r]) \in Configured
          /\ stamp' = [stamp EXCEPT ![r] = now]
          /\ pc' = [pc EXCEPT ![r] = "planning"]
          /\ UNCHANGED reply
       \/ /\ DeliverFrom(input[r]) \notin Configured
          /\ pc' = [pc EXCEPT ![r] = "replied"]
          /\ Answer(r, "misconfigured")
          /\ UNCHANGED stamp
    /\ UNCHANGED <<now, breakerVars, walkVars, bookVars, input,
                   finished, ended, errors>>

(* Mutant of MakePlan: wait for a target instead of answering 503.          *)
MakePlanOrWait(r) ==
    LET positions == DeliveryPlan(input[r], openedAt, stamp[r])
    IN  /\ pc[r] = "planning"
        /\ positions # {}
        /\ plan' = [plan EXCEPT ![r] = positions]
        /\ MoveOn(r, positions, 0)
        /\ UNCHANGED <<now, breakerVars, bookVars, inputVars,
                       finished, ended, errors>>

MakePlan(r) ==
    LET positions == DeliveryPlan(input[r], openedAt, stamp[r])
    IN  /\ pc[r] = "planning"
        /\ plan' = [plan EXCEPT ![r] = positions]
        /\ \/ /\ positions = {}
              /\ pc' = [pc EXCEPT ![r] = "replied"]
              /\ Answer(r, "unavailable")
              /\ UNCHANGED <<at, attempt, calls>>
           \/ positions # {} /\ MoveOn(r, positions, 0)
        /\ UNCHANGED <<now, breakerVars, bookVars, inputVars,
                       finished, ended, errors>>

-----------------------------------------------------------------------------
(* Answers to a POST.                                                       *)

(* Mutant of FailAttempt: one attempt too many.                             *)
FailAttemptInclusive(r) ==
    /\ pc[r] = "flight"
    /\ \E s \in Statuses : IsRetryable(s)
    /\ CountError(r)
    /\ pc' = [pc EXCEPT ![r] = IF attempt[r] <= Retries THEN "backoff"
                                                        ELSE "exhausted"]
    /\ UNCHANGED <<now, breakerVars, walkVars, bookVars, inputVars,
                   finished, ended, reply>>

(* No answer, an unreadable body or a retryable status: count it, then      *)
(* sleep and retry, or give the target up.                                  *)
FailAttempt(r) ==
    /\ pc[r] = "flight"
    /\ \E s \in Statuses : IsRetryable(s)
    /\ CountError(r)
    /\ pc' = [pc EXCEPT ![r] = IF attempt[r] < Retries THEN "backoff"
                                                       ELSE "exhausted"]
    /\ UNCHANGED <<now, breakerVars, walkVars, bookVars, inputVars,
                   finished, ended, reply>>

WakeUp(r) ==
    /\ Goto(r, "backoff", "flight")
    /\ attempt' = [attempt EXCEPT ![r] = @ + 1]
    /\ calls' = [calls EXCEPT ![r][Target(r)] = @ + 1]
    /\ UNCHANGED <<now, breakerVars, plan, at, bookVars, inputVars,
                   finished, ended, reply, errors>>

Exhaust(r) ==
    /\ pc[r] = "exhausted"
    /\ Record(r, FALSE)
    /\ MoveOn(r, plan[r], at[r])
    /\ UNCHANGED <<now, plan, bookVars, inputVars, finished, ended, errors>>

(* A 2xx on the plain path: the response is settled section by section,     *)
(* without an await in between, so the client cannot cancel it any more.    *)
Win(r) ==
    /\ ~input[r].stream
    /\ \E s \in Statuses : IsSuccess(s)
    /\ Goto(r, "flight", "won")
    /\ finished' = [finished EXCEPT ![r] = TRUE]
    /\ ended' = [ended EXCEPT ![r] = TRUE]
    /\ UNCHANGED <<now, breakerVars, walkVars, bookVars, inputVars,
                   reply, errors>>

(* A 2xx on the streaming path: the response headers go out.                *)
OpenStream(r) ==
    /\ input[r].stream
    /\ \E s \in Statuses : IsSuccess(s)
    /\ Goto(r, "flight", "open")
    /\ Answer(r, "served")
    /\ UNCHANGED <<now, breakerVars, walkVars, bookVars, inputVars,
                   finished, ended, errors>>

(* 401, 403, 407: relayed, and counted against the target at once.          *)
Refuse(r) ==
    /\ Goto(r, "flight", "refused")
    /\ \E s \in Statuses : IsAuthFailure(s)
    /\ CountError(r)
    /\ UNCHANGED <<now, breakerVars, walkVars, bookVars, inputVars,
                   finished, ended, reply>>

RecordRefusal(r) ==
    /\ Goto(r, "refused", "replied")
    /\ Record(r, FALSE)
    /\ Answer(r, "relayed")
    /\ UNCHANGED <<now, walkVars, bookVars, inputVars,
                   finished, ended, errors>>

(* Any other status is the caller's fault: relayed, the target is healthy.  *)
Reject(r) ==
    /\ \E s \in Statuses :
          ~IsRetryable(s) /\ ~IsAuthFailure(s) /\ ~IsSuccess(s)
    /\ Goto(r, "flight", "replied")
    /\ Record(r, TRUE)
    /\ Answer(r, "relayed")
    /\ UNCHANGED <<now, walkVars, bookVars, inputVars,
                   finished, ended, errors>>

(* Streaming path only: the body of a non-retryable error cannot be read.   *)
(* Neither the metrics nor the breaker hear of it.                          *)
LoseBody(r) ==
    /\ input[r].stream
    /\ \E s \in Statuses : ~IsRetryable(s) /\ ~IsSuccess(s)
    /\ Goto(r, "flight", "replied")
    /\ Answer(r, "lost")
    /\ UNCHANGED <<now, breakerVars, walkVars, bookVars, inputVars,
                   finished, ended, errors>>

-----------------------------------------------------------------------------
(* Settling a delivered turn.                                               *)

(* record(.., true): first on the plain path, last in StreamAccounting.     *)
Credit(r) ==
    /\ pc[r] = "won"
    /\ Record(r, TRUE)
    /\ pc' = [pc EXCEPT ![r] = IF ~input[r].stream THEN "charge"
                               ELSE IF ended[r] THEN "replied" ELSE "tail"]
    /\ UNCHANGED <<now, walkVars, bookVars, inputVars,
                   finished, ended, reply, errors>>

(* RateLimiter::add_tokens.                                                 *)
Charge(r) ==
    /\ Goto(r, "charge", "bill")
    /\ charged' = charged + 1
    /\ UNCHANGED <<now, breakerVars, walkVars, inputVars, ledger, decisions,
                   failovers, recent, finished, ended, reply, errors>>

(* Mutant of Bill: the chosen model pays for whatever served it.            *)
BillChosen(r) ==
    /\ Goto(r, "bill", "observe")
    /\ ledger' = [ledger EXCEPT ![input[r].chosen] = @ + 1]
    /\ UNCHANGED <<now, breakerVars, walkVars, inputVars, charged, decisions,
                   failovers, recent, finished, ended, reply, errors>>

(* record_savings.                                                          *)
Bill(r) ==
    /\ Goto(r, "bill", "observe")
    /\ ledger' = [ledger EXCEPT ![Target(r)] = @ + 1]
    /\ UNCHANGED <<now, breakerVars, walkVars, inputVars, charged, decisions,
                   failovers, recent, finished, ended, reply, errors>>

(* The metrics section: observe_decision, observe_upstream, and             *)
(* observe_failover unless the request is offline.                          *)
Observe(r) ==
    LET m == input[r].chosen
    IN  /\ Goto(r, "observe", "publish")
        /\ decisions' = [decisions EXCEPT ![m] = @ + 1]
        /\ failovers' =
             IF Target(r) # m /\ ~input[r].offline
             THEN [failovers EXCEPT ![m] = @ + 1] ELSE failovers
        /\ UNCHANGED <<now, breakerVars, walkVars, inputVars, charged, ledger,
                       recent, finished, ended, reply, errors>>

(* push_recent; the plain path then answers the client.                     *)
Publish(r) ==
    LET longer == <<<<input[r].chosen, Target(r)>>>> \o recent
    IN  /\ pc[r] = "publish"
        /\ recent' = IF Len(longer) > RecentLimit
                     THEN SubSeq(longer, 1, RecentLimit) ELSE longer
        /\ pc' = [pc EXCEPT ![r] = IF input[r].stream THEN "won"
                                                      ELSE "replied"]
        /\ reply' = [reply EXCEPT ![r] = "served"]
        /\ UNCHANGED <<now, breakerVars, walkVars, inputVars, charged, ledger,
                       decisions, failovers, finished, ended, errors>>

-----------------------------------------------------------------------------
(* The body of a stream, polled chunk by chunk while the client reads.      *)
(* Chunks that carry no [DONE] only lengthen the completion.                *)

(* Mutant of Settle: finish() without its early return.                     *)
SettleAgain(r, done) ==
    /\ pc' = [pc EXCEPT ![r] = "charge"]
    /\ finished' = [finished EXCEPT ![r] = TRUE]

(* finish(): nothing to do once the stream was settled.                     *)
Settle(r, done) ==
    /\ pc' = [pc EXCEPT ![r] = IF finished[r] THEN done ELSE "charge"]
    /\ finished' = [finished EXCEPT ![r] = TRUE]

(* observe_chunk saw [DONE]; the stream stays open behind it.               *)
StreamDone(r) ==
    /\ pc[r] \in {"open", "tail"}
    /\ Settle(r, "tail")
    /\ UNCHANGED <<now, breakerVars, walkVars, bookVars, inputVars,
                   ended, reply, errors>>

(* The upstream closed the stream.                                          *)
StreamEnd(r) ==
    /\ pc[r] \in {"open", "tail"}
    /\ ended' = [ended EXCEPT ![r] = TRUE]
    /\ Settle(r, "replied")
    /\ UNCHANGED <<now, breakerVars, walkVars, bookVars, inputVars,
                   reply, errors>>

(* The connection failed or timed out: observe_error, which does not look   *)
(* at `finished`.  The server aborts the response.                          *)
StreamError(r) ==
    /\ pc[r] \in {"open", "tail"}
    /\ CountError(r)
    /\ pc' = [pc EXCEPT ![r] = "broken"]
    /\ UNCHANGED <<now, breakerVars, walkVars, bookVars, inputVars,
                   finished, ended, reply>>

RecordBroken(r) ==
    /\ Goto(r, "broken", "replied")
    /\ Record(r, FALSE)
    /\ UNCHANGED <<now, walkVars, bookVars, inputVars,
                   finished, ended, reply, errors>>

(* The client disconnects: the server drops the handler's future, or the    *)
(* body's stream, at the await it is suspended in.  Nothing is recorded.    *)
Drop(r) ==
    /\ pc[r] \in {"flight", "backoff", "open", "tail"}
    /\ pc' = [pc EXCEPT ![r] = "dropped"]
    /\ UNCHANGED <<now, breakerVars, walkVars, bookVars, inputVars,
                   finished, ended, reply, errors>>

-----------------------------------------------------------------------------
Done == {"replied", "dropped"}

(* What the gateway, or the upstream's timeout, does for a request.         *)
Progress(r) ==
    \/ MakePlan(r)
    \/ FailAttempt(r) \/ WakeUp(r) \/ Exhaust(r)
    \/ Win(r) \/ OpenStream(r)
    \/ Refuse(r) \/ RecordRefusal(r) \/ Reject(r) \/ LoseBody(r)
    \/ Credit(r) \/ Charge(r) \/ Bill(r) \/ Observe(r) \/ Publish(r)
    \/ StreamDone(r) \/ StreamEnd(r) \/ StreamError(r) \/ RecordBroken(r)

(* Every request answered and the clock at its bound.                       *)
AllDone ==
    /\ \A r \in Requests : pc[r] \in Done
    /\ now = MaxClock
    /\ UNCHANGED vars

Next ==
    \/ Tick
    \/ \E r \in Requests : Arrive(r) \/ Progress(r) \/ Drop(r)
    \/ AllDone

Spec == Init /\ [][Next]_vars

(* The runtime polls every ready task, a retry's sleep ends and every       *)
(* upstream call ends by the client's total timeout (default 60 s), which   *)
(* covers the body too.                                                     *)
FairSpec == Spec /\ \A r \in Requests : WF_vars(Progress(r))
-----------------------------------------------------------------------------
(* Properties.                                                              *)

PC == {"idle", "planning", "flight", "backoff", "exhausted", "won", "charge",
       "bill", "observe", "publish", "refused", "open", "tail", "broken",
       "replied", "dropped"}

Replies == {"none", "misconfigured", "unavailable", "exhausted", "served",
            "relayed", "lost"}

Verdict == [by : Requests, ok : BOOLEAN, time : Nat]

(* Types of the state: the breaker's maps, the walk and the books.          *)
TypeOK ==
    /\ now \in Nat
    /\ fails \in [Names -> Nat]
    /\ openedAt \in [Names -> Nat \cup {Closed}]
    /\ pc \in [Requests -> PC]
    /\ input \in [Requests -> Inputs]
    /\ stamp \in [Requests -> Nat]
    /\ plan \in [Requests -> SUBSET (Nat \ {0})]
    /\ at \in [Requests -> Nat]
    /\ attempt \in [Requests -> 0..Retries]
    /\ finished \in [Requests -> BOOLEAN]
    /\ ended \in [Requests -> BOOLEAN]
    /\ reply \in [Requests -> Replies]
    /\ errors \in [Names -> Nat]
    /\ charged \in Nat
    /\ ledger \in [Names -> Nat]
    /\ decisions \in [Names -> Nat]
    /\ failovers \in [Names -> Nat]
    /\ recent \in Seq(Names \X Names)
    /\ calls \in [Requests -> [Names -> Nat]]
    /\ verdicts \in [Names -> Seq(Verdict)]

(* A target's breaker is open exactly when its last TripAt verdicts, from   *)
(* whatever requests in whatever order, were failures, and it dates from    *)
(* the last of them (CircuitBreaker::record).                               *)
FailureStreak(m, n) ==
    LET s == verdicts[m]
    IN  /\ n <= Len(s)
        /\ \A i \in (Len(s) - n + 1)..Len(s) : ~s[i].ok
        /\ n < Len(s) => s[Len(s) - n].ok

BreakerTracksStreak ==
    \A m \in Names :
        /\ FailureStreak(m, fails[m])
        /\ openedAt[m] # Closed <=> fails[m] >= TripAt
        /\ openedAt[m] # Closed =>
              openedAt[m] = verdicts[m][Len(verdicts[m])].time

(* While a request still has an open target in its plan, that plan was made *)
(* before the breaker opened or after the cooldown: a stale plan is the only*)
(* way to reach a target that is cooling down (delivery_plan_for snapshots  *)
(* the breaker once, retries and failovers do not ask again).               *)
OpenOnlyBehindItsBack ==
    \A r \in Requests : \A i \in plan[r] :
        LET opened == openedAt[Targets(r)[i]]
        IN  \/ opened = Closed
            \/ stamp[r] <= opened
            \/ stamp[r] - opened >= Cooldown

(* The walk leaves a target for the next one, or for a 502, only after      *)
(* exactly Retries + 1 POSTs to it and a failing verdict on it; nothing is  *)
(* sent out of plan order.                                                  *)
GaveUp(r, m) ==
    /\ calls[r][m] = Retries + 1
    /\ \E i \in DOMAIN verdicts[m] : verdicts[m][i].by = r /\ ~verdicts[m][i].ok

FailoverDiscipline ==
    \A r \in Requests : \A i \in plan[r] :
        Targets(r)[i] \in Configured =>
            /\ i < at[r] \/ reply[r] = "exhausted" => GaveUp(r, Targets(r)[i])
            /\ i = at[r] => calls[r][Targets(r)[i]] = attempt[r] + 1
            /\ i > at[r] => calls[r][Targets(r)[i]] = 0

(* A request is sent to the model delivery starts at, to that model's       *)
(* fallbacks, or to the tiers on the side its policy names: degrade never   *)
(* climbs, escalate never descends, same-tier and offline do neither.  An   *)
(* offline request starts at the lowest tier that has an endpoint.          *)
Below(m, n) ==
    \E i, j \in DOMAIN Ladder : i < j /\ Ladder[i] = m /\ Ladder[j] = n

StaysOnItsSide ==
    \A r \in Requests : \A m \in Names :
        LET in == input[r]
            first == DeliverFrom(in)
        IN  calls[r][m] > 0 =>
              /\ \/ m = first
                 \/ \E i \in DOMAIN Fallbacks[first] : Fallbacks[first][i] = m
                 \/ ~in.offline /\ in.policy = "degrade" /\ Below(m, first)
                 \/ ~in.offline /\ in.policy = "escalate" /\ Below(first, m)
              /\ in.offline => \A n \in Configured : ~Below(n, first)

(* Past the fallbacks the walk takes the nearest tier first (ADR-0031 rule  *)
(* 3, "one step at a time"), on a ladder that names every tier once.        *)
NearestTierFirst ==
    \A r \in Requests : \A i, j \in plan[r] :
        LET first == DeliverFrom(input[r])
            list == Targets(r)
        IN  (1 + Len(Fallbacks[first]) < i /\ i < j) =>
              \/ input[r].policy = "degrade" /\ Below(list[j], list[i])
              \/ input[r].policy = "escalate" /\ Below(list[i], list[j])

(* A request gives the breaker of a target at most one verdict.  The one    *)
(* exception is a stream that breaks after it was settled: its success is   *)
(* followed by a failure (observe_error does not look at `finished`).       *)
OneVerdictPerTarget ==
    \A m \in Names : \A i, j \in DOMAIN verdicts[m] :
        LET v == verdicts[m][i]
            w == verdicts[m][j]
        IN  i < j /\ v.by = w.by => input[v.by].stream /\ v.ok /\ ~w.ok

(* Whenever no turn is half settled, the rate limiter, the savings ledger,  *)
(* the metrics and the recent ring agree on the delivered turns, each billed*)
(* to the target that served it and counted under the model that was chosen.*)
Settling == {"won", "charge", "bill", "observe", "publish"}

Delivered == {r \in Requests : finished[r]}

BooksAgree ==
    (\A r \in Requests : pc[r] \notin Settling) =>
        /\ charged = Cardinality(Delivered)
        /\ Len(recent) = IF charged < RecentLimit THEN charged ELSE RecentLimit
        /\ \A m \in Names :
            /\ ledger[m] = Cardinality({r \in Delivered : Target(r) = m})
            /\ decisions[m] =
                  Cardinality({r \in Delivered : input[r].chosen = m})
            /\ failovers[m] =
                  Cardinality({r \in Delivered :
                     /\ input[r].chosen = m
                     /\ Target(r) # m
                     /\ ~input[r].offline})

(* Every request is answered, or its client leaves (every await of the      *)
(* delivery code ends and every loop is bounded).                           *)
EveryRequestEnds ==
    \A r \in Requests : pc[r] = "planning" ~> pc[r] \in Done
=============================================================================
