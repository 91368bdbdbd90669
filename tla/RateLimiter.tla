---------------------------- MODULE RateLimiter ----------------------------
(***************************************************************************)
(* The gateway-wide request and token limiter (RateLimiter in lib.rs) and   *)
(* the handlers that share it.  Every operation runs under the limiter's    *)
(* mutex, so it is one action; between two operations of one request any    *)
(* number of other requests, and of window rolls, may come.                 *)
(*                                                                         *)
(* Time is the process's monotonic clock, in ticks of 1 / TicksPerSecond    *)
(* seconds.  An operation that reads the clock twice (roll_window, then     *)
(* retry_after) lets up to MaxLag ticks pass in between.                    *)
(***************************************************************************)
EXTENDS Integers, Sequences, FiniteSets

CONSTANTS
    Clients,         \* concurrent requests
    Rpm,             \* requests per window, or Unlimited
    Tpm,             \* tokens per window, or Unlimited
    Window,          \* length of a window, in ticks
    TicksPerSecond,
    Costs,           \* the token counts a delivered turn may have
    MaxCost,         \* the largest of them
    TokenCeiling,    \* u64::MAX
    MaxAdmissions,   \* bound: admissions of a behaviour
    MaxLag,          \* bound: ticks between two readings of one operation
    MaxTime          \* bound: the clock stops here

Unlimited == 0

ASSUME RateAssumption ==
    /\ IsFiniteSet(Clients)
    /\ Rpm \in Nat
    /\ Tpm \in Nat
    /\ Rpm # Unlimited \/ Tpm # Unlimited
    /\ Window \in Nat \ {0}
    /\ TicksPerSecond \in Nat \ {0}
    /\ MaxCost \in Nat
    /\ Costs \subseteq 0..MaxCost
    /\ TokenCeiling \in Nat
    /\ MaxAdmissions \in Nat
    /\ MaxLag \in Nat
    /\ MaxTime \in Nat

VARIABLES
    now,
    started,     \* window_started, or NotStarted
    requests,    \* admissions of the window
    tokens,      \* tokens charged to the window
    phase,       \* where each client's request stands
    promise,     \* history: when the last answer told the client to come back
    promisedFor, \* history: the window that answer was about
    log          \* history: the times of all admissions

vars == <<now, started, requests, tokens, phase, promise, promisedFor, log>>
windowVars == <<started, requests, tokens>>

NotStarted == -1

-----------------------------------------------------------------------------
(* Mutant of Running: the window is compared in seconds.                    *)
RunningInSeconds(t) ==
    started # NotStarted /\ t - started < Window \div TicksPerSecond

Running(t) == started # NotStarted /\ t - started < Window

(* Mutant of RollAndAdd: a plain addition.                                  *)
RollAndAddUnchecked(t, r, n) ==
    /\ started' = IF Running(t) THEN started ELSE t
    /\ requests' = r + IF Running(t) THEN requests ELSE 0
    /\ tokens' = n + IF Running(t) THEN tokens ELSE 0

(* roll_window, then `r` requests and `n` tokens more.                      *)
RollAndAdd(t, r, n) ==
    LET held == IF Running(t) THEN tokens ELSE 0
    IN  /\ started' = IF Running(t) THEN started ELSE t
        /\ requests' = r + IF Running(t) THEN requests ELSE 0
        /\ tokens' = IF held + n < TokenCeiling THEN held + n ELSE TokenCeiling

(* Mutants of the caps: one more is let in.                                 *)
RpmExceeded(t) == Rpm # Unlimited /\ Running(t) /\ requests > Rpm
TpmExceeded(t) == Tpm # Unlimited /\ Running(t) /\ tokens > Tpm

(* The two caps, looked at after roll_window.                               *)
RpmReached(t) == Rpm # Unlimited /\ Running(t) /\ requests >= Rpm
TpmReached(t) == Tpm # Unlimited /\ Running(t) /\ tokens >= Tpm

(* Mutant of Ceil: round down.                                              *)
Floor(n, d) == n \div d

Ceil(n, d) == (n + d - 1) \div d

(* Mutant of RetryAfter: always a second to be safe.                        *)
RetryAfterPadded(begun, t) == 1 + Ceil(Window - (t - begun), TicksPerSecond)

(* retry_after, in seconds, at the second reading t of the clock.           *)
RetryAfter(begun, t) ==
    LET elapsed == t - begun
        seconds == Ceil(Window - elapsed, TicksPerSecond)
    IN  IF elapsed >= Window \/ seconds < 1 THEN 1 ELSE seconds

(* What an answer promises: wait this long and the window will be over.     *)
PromiseAt(c, begun, t) ==
    /\ promise' = [promise EXCEPT ![c] = t + RetryAfter(begun, t) * TicksPerSecond]
    /\ promisedFor' = [promisedFor EXCEPT ![c] = begun]

-----------------------------------------------------------------------------
Init ==
    /\ now = 0
    /\ started = NotStarted
    /\ requests = 0
    /\ tokens = 0
    /\ phase = [c \in Clients |-> "idle"]
    /\ promise = [c \in Clients |-> 0]
    /\ promisedFor = [c \in Clients |-> NotStarted]
    /\ log = << >>

Tick ==
    /\ now < MaxTime
    /\ now' = now + 1
    /\ UNCHANGED <<windowVars, phase, promise, promisedFor, log>>

(* admit(), granted.                                                        *)
Admit(c) ==
    /\ phase[c] = "idle"
    /\ Len(log) < MaxAdmissions
    /\ ~RpmReached(now)
    /\ ~TpmReached(now)
    /\ RollAndAdd(now, 1, 0)
    /\ phase' = [phase EXCEPT ![c] = "admitted"]
    /\ log' = Append(log, now)
    /\ UNCHANGED <<now, promise, promisedFor>>

(* admit(), denied: the answer is 429 with Retry-After.  A cap can only be  *)
(* reached in a running window, which roll_window leaves alone.             *)
Refuse(c) ==
    /\ phase[c] = "idle"
    /\ RpmReached(now) \/ TpmReached(now)
    /\ \E later \in now..(now + MaxLag) :
          /\ later <= MaxTime
          /\ now' = later
          /\ PromiseAt(c, started, later)
    /\ phase' = [phase EXCEPT ![c] = "denied"]
    /\ UNCHANGED <<windowVars, log>>

(* add_rate_limit_headers, of the 429 too: snapshot() rolls the window, and *)
(* its reset is another promise.  Only an rpm limit has a snapshot.         *)
Headers(c) ==
    /\ phase[c] \in {"admitted", "denied"}
    /\ phase' = [phase EXCEPT ![c] = IF @ = "denied" THEN "idle" ELSE "serving"]
    /\ IF Rpm = Unlimited
       THEN UNCHANGED <<now, windowVars, promise, promisedFor>>
       ELSE /\ RollAndAdd(now, 0, 0)
            /\ \E later \in now..(now + MaxLag) :
                  /\ later <= MaxTime
                  /\ now' = later
                  /\ PromiseAt(c, started', later)
    /\ UNCHANGED log

(* A turn was delivered: add_tokens, into whatever window is running now.   *)
AddTokens(c) ==
    /\ phase[c] = "serving"
    /\ phase' = [phase EXCEPT ![c] = "idle"]
    /\ IF Tpm = Unlimited
       THEN UNCHANGED windowVars
       ELSE \E n \in Costs : RollAndAdd(now, 0, n)
    /\ UNCHANGED <<now, promise, promisedFor, log>>

(* The request ends without tokens: a bad override (400, before any header),*)
(* a cache hit, a dry run, no upstream, or the client left.                 *)
EndWithoutTokens(c) ==
    /\ phase[c] \in {"admitted", "serving"}
    /\ phase' = [phase EXCEPT ![c] = "idle"]
    /\ UNCHANGED <<now, windowVars, promise, promisedFor, log>>

(* The clock is at its bound and nothing is in progress.                    *)
AllDone ==
    /\ now = MaxTime
    /\ \A c \in Clients : phase[c] = "idle"
    /\ UNCHANGED vars

Next ==
    \/ Tick
    \/ \E c \in Clients :
          \/ Admit(c) \/ Refuse(c) \/ Headers(c)
          \/ AddTokens(c) \/ EndWithoutTokens(c)
    \/ AllDone

Spec == Init /\ [][Next]_vars

-----------------------------------------------------------------------------
(* Types of the limiter's state and of the clients.                         *)
TypeOK ==
    /\ now \in Nat
    /\ started \in Nat \cup {NotStarted}
    /\ requests \in Nat
    /\ tokens \in 0..TokenCeiling
    /\ phase \in [Clients -> {"idle", "admitted", "serving", "denied"}]
    /\ promise \in [Clients -> Nat]
    /\ promisedFor \in [Clients -> Nat \cup {NotStarted}]
    /\ log \in Seq(Nat)

(* The counter is the number of admissions since the window started, and    *)
(* there are never more than rpm of them (admit, snapshot and add_tokens    *)
(* may each have rolled the window in between).                             *)
WindowQuota ==
    /\ requests <= Len(log)
    /\ \A i \in 1..Len(log) :
          IF i <= Len(log) - requests THEN log[i] < started
                                      ELSE log[i] >= started
    /\ Rpm # Unlimited => requests <= Rpm

(* ADR-0034's accepted risk, and no more: fewer than 2 * rpm + 1 requests   *)
(* are admitted within any period as long as a window, wherever it starts.  *)
BurstBound ==
    Rpm # Unlimited =>
        \A i \in 1..Len(log) : i + 2 * Rpm <= Len(log) =>
            log[i + 2 * Rpm] - log[i] >= Window

(* Tokens are charged after the fact, so a window can exceed tpm, but only  *)
(* by what the requests in progress at its last admission can bring.        *)
InProgress == {c \in Clients : phase[c] \in {"admitted", "serving"}}

TokenOvershoot ==
    Tpm # Unlimited =>
        tokens + MaxCost * Cardinality(InProgress)
            <= (Tpm - 1) + MaxCost * Cardinality(Clients)

(* A client that waits as long as Retry-After, or X-RateLimit-Reset, says   *)
(* finds that window over; retry_after reads the clock again after          *)
(* roll_window did.                                                         *)
WaitingPaysOff ==
    \A c \in Clients :
        now >= promise[c] /\ promisedFor[c] # NotStarted =>
            now - promisedFor[c] >= Window

(* Nobody is told to wait a second longer than the rest of the window.      *)
NoOverWait ==
    \A c \in Clients : promisedFor[c] # NotStarted =>
        \/ promise[c] - promisedFor[c] < Window + TicksPerSecond
        \/ promise[c] <= now + TicksPerSecond
=============================================================================
