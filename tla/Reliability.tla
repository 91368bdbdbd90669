---------------------------- MODULE Reliability ----------------------------
(***************************************************************************)
(* The pure part of the gateway's delivery layer (reliability.rs and the    *)
(* helpers of lib.rs that call it): which upstream answers are retried,     *)
(* the circuit breaker's two operations, and the list of targets one        *)
(* request may be sent to.                                                  *)
(*                                                                         *)
(* The breaker is a pair of maps over model names, as in the code: `fails`  *)
(* (0 stands for "no entry") and `openedAt` (Closed stands for "no entry"). *)
(***************************************************************************)
EXTENDS Integers, Sequences

CONSTANTS
    Names,       \* every model name a tier, a pin or a fallback may mention
    Configured,  \* the names that have a [gateway.models.<name>] endpoint
    Enabled,     \* the endpoints whose `enabled` flag is set
    Window,      \* context window of an endpoint, in estimated tokens
    Fallbacks,   \* endpoint -> its configured fallbacks, in order
    Ladder,      \* the models of the tiers, by ascending min_score
    Threshold,   \* breaker_threshold
    Cooldown     \* breaker_cooldown

ASSUME ReliabilityAssumption ==
    /\ Configured \subseteq Names
    /\ Enabled \subseteq Configured
    /\ Window \in [Configured -> Nat]
    /\ Fallbacks \in [Configured -> Seq(Configured)]
    /\ Ladder \in Seq(Names)
    /\ Threshold \in Nat
    /\ Cooldown \in Nat

-----------------------------------------------------------------------------
(* Upstream answers: an HTTP status, or NoStatus when there was none (the   *)
(* connection failed, timed out, or the body could not be read).            *)

NoStatus == 0

RetryableStatus == {429, 500, 502, 503, 504}
AuthFailureStatus == {401, 403, 407}

IsRetryable(status) == status \in RetryableStatus \cup {NoStatus}
IsAuthFailure(status) == status \in AuthFailureStatus
IsSuccess(status) == status \in 200..299

-----------------------------------------------------------------------------
(* The circuit breaker.                                                     *)

Closed == -1

(* CircuitBreaker::new clamps a zero threshold.                             *)
TripAt == IF Threshold < 1 THEN 1 ELSE Threshold

(* Mutant of Allow: any later reading of the clock ends the cooldown.       *)
AllowAtNextReading(openedAt, m, now) ==
    openedAt[m] = Closed \/ openedAt[m] < now

(* CircuitBreaker::allow: the difference is negative, hence below the       *)
(* cooldown, when `now` was read before the breaker opened (the code's      *)
(* checked_sub, which yields None).                                         *)
Allow(openedAt, m, now) ==
    \/ openedAt[m] = Closed
    \/ openedAt[m] <= now /\ now - openedAt[m] >= Cooldown

(* Mutant of FailsAfter: a success leaves the count of failures alone.      *)
FailsNeverReset(fails, m, ok) ==
    [fails EXCEPT ![m] = IF ok THEN @ ELSE @ + 1]

(* CircuitBreaker::record, one operator per map.                            *)
FailsAfter(fails, m, ok) ==
    [fails EXCEPT ![m] = IF ok THEN 0 ELSE @ + 1]

OpenedAfter(fails, openedAt, m, ok, now) ==
    [openedAt EXCEPT ![m] =
        IF ok THEN Closed
        ELSE IF fails[m] + 1 >= TripAt THEN now ELSE @]

-----------------------------------------------------------------------------
(* The targets of one request.  An input `in` is the record of what the     *)
(* request brings to delivery: the chosen model, the failover policy in     *)
(* force, the offline switch and the estimated prompt tokens.               *)

Positions(m) == {i \in DOMAIN Ladder : Ladder[i] = m}

FirstPosition(m) ==
    CHOOSE i \in Positions(m) : \A j \in Positions(m) : i <= j

(* Mutant of FailoverCandidates: the two directions are swapped.            *)
CandidatesSwapped(m, policy) ==
    IF Positions(m) = {} THEN << >>
    ELSE LET i == FirstPosition(m)
         IN  CASE policy = "degrade"  -> SubSeq(Ladder, i + 1, Len(Ladder))
               [] policy = "escalate" -> [k \in 1..(i - 1) |-> Ladder[i - k]]
               [] OTHER               -> << >>

(* Mutant of FailoverCandidates: degrade starts at the bottom of the ladder.*)
CandidatesNotReversed(m, policy) ==
    IF Positions(m) = {} THEN << >>
    ELSE LET i == FirstPosition(m)
         IN  CASE policy = "degrade"  -> SubSeq(Ladder, 1, i - 1)
               [] policy = "escalate" -> SubSeq(Ladder, i + 1, Len(Ladder))
               [] OTHER               -> << >>

FailoverCandidates(m, policy) ==
    IF Positions(m) = {} THEN << >>
    ELSE LET i == FirstPosition(m)
         IN  CASE policy = "degrade"  -> [k \in 1..(i - 1) |-> Ladder[i - k]]
               [] policy = "escalate" -> SubSeq(Ladder, i + 1, Len(Ladder))
               [] OTHER               -> << >>

(* deliver_from: offline delivery starts at the lowest configured tier.     *)
LocalTiers == {i \in DOMAIN Ladder : Ladder[i] \in Configured}

DeliverFrom(in) ==
    IF in.offline /\ LocalTiers # {}
    THEN Ladder[CHOOSE i \in LocalTiers : \A j \in LocalTiers : i <= j]
    ELSE in.chosen

(* The list delivery_plan_at walks: the primary target, its fallbacks and,  *)
(* unless the request is offline, the policy's candidates.                  *)
TargetList(in) ==
    LET m == DeliverFrom(in)
    IN  <<m>> \o Fallbacks[m]
              \o (IF in.offline THEN << >>
                                ELSE FailoverCandidates(m, in.policy))

(* The `allow` closure: disabled and too small endpoints are skipped, names *)
(* without an endpoint are not.                                             *)
Admissible(in, m) ==
    m \in Configured => m \in Enabled /\ in.tokens <= Window[m]

(* The plan as positions of the target list, which delivery visits in       *)
(* ascending order: first occurrences that the breaker and the filter let   *)
(* through.                                                                 *)
DeliveryPlan(in, openedAt, now) ==
    LET list == TargetList(in)
    IN  {i \in DOMAIN list :
            /\ \A j \in 1..(i - 1) : list[j] # list[i]
            /\ Allow(openedAt, list[i], now)
            /\ Admissible(in, list[i])}
=============================================================================
