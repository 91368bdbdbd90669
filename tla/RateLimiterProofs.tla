------------------------- MODULE RateLimiterProofs -------------------------
(* Proofs about RateLimiter, for every choice of limits, window and clients.*)
EXTENDS RateLimiter, FiniteSetTheorems, TLAPS

-----------------------------------------------------------------------------
(* The limiter's counters and the clients keep their types: in particular   *)
(* the token counter saturates at its ceiling (add_tokens).                 *)
THEOREM TypeCorrect == Spec => []TypeOK
<1> USE RateAssumption
<1>1. Init => TypeOK
  BY DEF Init, TypeOK, NotStarted
<1>2. TypeOK /\ [Next]_vars => TypeOK'
  <2> SUFFICES ASSUME TypeOK, [Next]_vars PROVE TypeOK'
    OBVIOUS
  <2> USE DEF TypeOK
  <2>1. ASSUME NEW t \in Nat, NEW r \in {0, 1}, NEW n \in Nat, RollAndAdd(t, r, n)
        PROVE  /\ started' \in Nat
               /\ requests' \in Nat
               /\ tokens' \in 0..TokenCeiling
    BY <2>1 DEF RollAndAdd, Running, NotStarted
  <2>2. ASSUME NEW c \in Clients, NEW begun \in Nat, NEW t \in Nat,
               PromiseAt(c, begun, t)
        PROVE  /\ promise' \in [Clients -> Nat]
               /\ promisedFor' \in [Clients -> Nat \cup {NotStarted}]
    <3>1. RetryAfter(begun, t) \in Nat
      BY DEF RetryAfter, Ceil
    <3>2. RetryAfter(begun, t) * TicksPerSecond \in Nat
      BY <3>1
    <3>3. QED
      BY <2>2, <3>1, <3>2 DEF PromiseAt
  <2>3. CASE Tick
    BY <2>3 DEF Tick, windowVars
  <2>4. ASSUME NEW c \in Clients, Admit(c) PROVE TypeOK'
    BY <2>4, <2>1 DEF Admit
  <2>5. ASSUME NEW c \in Clients, Refuse(c) PROVE TypeOK'
    <3>1. started \in Nat
      BY <2>5 DEF Refuse, RpmReached, TpmReached, Running, NotStarted
    <3>2. QED
      BY <2>5, <2>2, <3>1 DEF Refuse, windowVars
  <2>6. ASSUME NEW c \in Clients, Headers(c) PROVE TypeOK'
    <3>1. phase' \in [Clients -> {"idle", "admitted", "serving", "denied"}]
      BY <2>6 DEF Headers
    <3>2. log' \in Seq(Nat)
      BY <2>6 DEF Headers
    <3>3. CASE Rpm = Unlimited
      BY <2>6, <3>1, <3>2, <3>3 DEF Headers, windowVars
    <3>4. CASE Rpm # Unlimited
      <4>1. RollAndAdd(now, 0, 0)
        BY <2>6, <3>4 DEF Headers
      <4>2. PICK later \in now..(now + MaxLag) :
               now' = later /\ PromiseAt(c, started', later)
        BY <2>6, <3>4 DEF Headers
      <4>3. /\ started' \in Nat
            /\ requests' \in Nat
            /\ tokens' \in 0..TokenCeiling
        BY <4>1, <2>1
      <4>4. later \in Nat
        BY <4>2
      <4>5. /\ promise' \in [Clients -> Nat]
            /\ promisedFor' \in [Clients -> Nat \cup {NotStarted}]
        BY <4>2, <4>3, <4>4, <2>2
      <4>6. QED
        BY <3>1, <3>2, <4>2, <4>3, <4>4, <4>5
    <3>5. QED
      BY <3>3, <3>4
  <2>7. ASSUME NEW c \in Clients, AddTokens(c) PROVE TypeOK'
    BY <2>7, <2>1 DEF AddTokens, windowVars
  <2>8. ASSUME NEW c \in Clients, EndWithoutTokens(c) PROVE TypeOK'
    BY <2>8 DEF EndWithoutTokens, windowVars
  <2>9. CASE AllDone \/ UNCHANGED vars
    BY <2>9 DEF AllDone, vars
  <2>10. QED
    BY <2>3, <2>4, <2>5, <2>6, <2>7, <2>8, <2>9 DEF Next
<1>3. QED
  BY <1>1, <1>2, PTL DEF Spec

-----------------------------------------------------------------------------
(* The inductive invariant behind the quota and the burst bound.  Beyond    *)
(* WindowQuota it says that a full quota before the running window's own    *)
(* admissions lies at least one window back.                                *)
InTime ==
    /\ started <= now
    /\ \A i \in 1..Len(log) : log[i] <= now /\ log[i] < started + Window
    /\ started = NotStarted => Len(log) = 0

SpentQuotaIsOld ==
    Rpm # Unlimited =>
        \A i \in 1..Len(log) :
            i + requests + Rpm <= Len(log) => log[i] + Window <= started

QuotaInv == InTime /\ WindowQuota /\ SpentQuotaIsOld /\ BurstBound

(* An operation that only rolls the window keeps the invariant: the window  *)
(* that ends becomes old, and it had at most rpm admissions.                *)
LEMMA RollKeepsQuota ==
    ASSUME TypeOK, QuotaInv, NEW n \in Nat, RollAndAdd(now, 0, n),
           log' = log, now' \in Nat, now <= now'
    PROVE  QuotaInv'
<1> USE RateAssumption DEF TypeOK, QuotaInv, Unlimited, NotStarted
<1>1. CASE Running(now)
  <2>1. started' = started /\ requests' = requests
    BY <1>1 DEF RollAndAdd
  <2>2. QED
    BY <2>1 DEF InTime, WindowQuota, SpentQuotaIsOld, BurstBound
<1>2. CASE ~Running(now)
  <2>1. started' = now /\ requests' = 0
    BY <1>2 DEF RollAndAdd
  <2>2. started = NotStarted \/ started + Window <= now
    BY <1>2 DEF Running
  <2>3. InTime'
    BY <2>1, <2>2 DEF InTime
  <2>4. \A i \in 1..Len(log) : log[i] < now
    BY <2>2 DEF InTime
  <2>5. WindowQuota'
    BY <2>1, <2>4 DEF WindowQuota
  <2>6. SpentQuotaIsOld'
    <3> SUFFICES ASSUME Rpm # Unlimited, NEW i \in 1..Len(log),
                        i + Rpm <= Len(log)
                 PROVE  log[i] + Window <= now
      BY <2>1 DEF SpentQuotaIsOld
    <3>1. i <= Len(log) - requests
      BY DEF WindowQuota
    <3>2. log[i] < started
      BY <3>1 DEF WindowQuota
    <3>3. started # NotStarted
      BY DEF InTime
    <3>4. QED
      BY <2>2, <3>2, <3>3
  <2>7. BurstBound'
    BY DEF BurstBound
  <2>8. QED
    BY <2>3, <2>5, <2>6, <2>7
<1>3. QED
  BY <1>1, <1>2
(* An admission keeps it: either the window has room, and the admission     *)
(* 2 * rpm earlier is behind a spent quota, or it opens a window, and that  *)
(* admission belongs to a window that ended.                                *)
LEMMA AdmitKeepsQuota ==
    ASSUME TypeOK, QuotaInv, NEW c \in Clients, Admit(c)
    PROVE  QuotaInv'
<1> DEFINE size == Len(log)
<1>0. /\ size \in Nat /\ requests \in Nat /\ now \in Nat
      /\ started \in Nat \cup {-1}
      /\ \A i \in 1..size : log[i] \in Nat
      /\ Rpm \in Nat /\ Window \in Nat \ {0}
      /\ InTime /\ WindowQuota /\ SpentQuotaIsOld /\ BurstBound
  BY RateAssumption DEF TypeOK, QuotaInv, NotStarted
<1>1. /\ now' = now
      /\ Len(log') = size + 1
      /\ \A i \in 1..size : log'[i] = log[i]
      /\ log'[size + 1] = now
  BY DEF Admit, TypeOK
<1> HIDE DEF size
<1> USE <1>0 DEF Unlimited, NotStarted
<1>2. CASE Running(now)
  <2>1. started' = started /\ requests' = requests + 1
    BY <1>2 DEF Admit, RollAndAdd
  <2>2. Rpm # Unlimited => requests < Rpm
    BY <1>2 DEF Admit, RpmReached
  <2>3. started # NotStarted /\ now < started + Window
    BY <1>2 DEF Running
  <2>4. InTime'
    BY <1>1, <2>1, <2>3 DEF InTime, size
  <2>5. WindowQuota'
    <3>1. requests' <= size + 1 /\ (Rpm # Unlimited => requests' <= Rpm)
      BY <2>1, <2>2 DEF WindowQuota, size
    <3>2. ASSUME NEW i \in 1..(size + 1)
          PROVE  IF i <= (size + 1) - (requests + 1) THEN log'[i] < started
                                                     ELSE log'[i] >= started
      <4>1. CASE i = size + 1
        BY <4>1, <1>1 DEF InTime, WindowQuota, size
      <4>2. CASE i \in 1..size
        <5>1. log'[i] = log[i] /\ i - size <= 0
          BY <4>2, <1>1
        <5>2. IF i <= size - requests THEN log[i] < started
                                      ELSE log[i] >= started
          BY <4>2 DEF WindowQuota, size
        <5>3. QED
          BY <5>1, <5>2
      <4>3. QED
        BY <4>1, <4>2
    <3>3. QED
      BY <1>1, <2>1, <3>1, <3>2 DEF WindowQuota, size
  <2>6. SpentQuotaIsOld'
    BY <1>1, <2>1 DEF SpentQuotaIsOld, size
  <2>7. BurstBound'
    <3> SUFFICES ASSUME Rpm # Unlimited, NEW i \in 1..(size + 1),
                        i + 2 * Rpm <= size + 1
                 PROVE  log'[i + 2 * Rpm] - log'[i] >= Window
      BY <1>1 DEF BurstBound, size
    <3>1. CASE i + 2 * Rpm <= size
      BY <3>1, <1>1 DEF BurstBound, size
    <3>2. CASE i + 2 * Rpm = size + 1
      <4>1. i \in 1..size /\ i + requests + Rpm <= size
        BY <3>2, <2>2
      <4>2. log[i] + Window <= started
        BY <4>1 DEF SpentQuotaIsOld, size
      <4>3. log'[i] = log[i] /\ log'[i + 2 * Rpm] = now
        BY <4>1, <3>2, <1>1
      <4>4. started <= now /\ log[i] \in Nat
        BY <4>1 DEF InTime, size
      <4>5. QED
        BY <4>2, <4>3, <4>4
    <3>3. QED
      BY <3>1, <3>2
  <2>8. QED
    BY <2>4, <2>5, <2>6, <2>7 DEF QuotaInv
<1>3. CASE ~Running(now)
  <2>1. started' = now /\ requests' = 1
    BY <1>3 DEF Admit, RollAndAdd
  <2>2. started = NotStarted \/ started + Window <= now
    BY <1>3 DEF Running
  <2>3. InTime'
    BY <1>1, <2>1, <2>2 DEF InTime, size
  <2>4. \A i \in 1..size : log[i] < now
    BY <2>2 DEF InTime, size
  <2>5. WindowQuota'
    <3>1. requests' <= size + 1 /\ (Rpm # Unlimited => requests' <= Rpm)
      BY <2>1
    <3>2. ASSUME NEW i \in 1..(size + 1)
          PROVE  IF i <= (size + 1) - 1 THEN log'[i] < now ELSE log'[i] >= now
      <4>1. CASE i = size + 1
        BY <4>1, <1>1
      <4>2. CASE i \in 1..size
        BY <4>2, <1>1, <2>4
      <4>3. QED
        BY <4>1, <4>2
    <3>3. QED
      BY <1>1, <2>1, <3>1, <3>2 DEF WindowQuota, size
  <2>6. ASSUME NEW i \in 1..size, i <= size - requests
        PROVE  log[i] + Window <= now
    <3>1. log[i] < started
      BY <2>6 DEF WindowQuota, size
    <3>2. started # NotStarted
      BY DEF InTime, size
    <3>3. QED
      BY <2>2, <3>1, <3>2
  <2>7. SpentQuotaIsOld'
    <3> SUFFICES ASSUME Rpm # Unlimited, NEW i \in 1..(size + 1),
                        i + 1 + Rpm <= size + 1
                 PROVE  log'[i] + Window <= now
      BY <1>1, <2>1 DEF SpentQuotaIsOld, size
    <3>1. i \in 1..size /\ i <= size - requests
      BY DEF WindowQuota, size
    <3>2. QED
      BY <3>1, <2>6, <1>1
  <2>8. BurstBound'
    <3> SUFFICES ASSUME Rpm # Unlimited, NEW i \in 1..(size + 1),
                        i + 2 * Rpm <= size + 1
                 PROVE  log'[i + 2 * Rpm] - log'[i] >= Window
      BY <1>1 DEF BurstBound, size
    <3>1. CASE i + 2 * Rpm <= size
      BY <3>1, <1>1 DEF BurstBound, size
    <3>2. CASE i + 2 * Rpm = size + 1
      <4>1. i \in 1..size /\ i <= size - requests
        BY <3>2 DEF WindowQuota, size
      <4>2. log'[i] = log[i] /\ log'[i + 2 * Rpm] = now
        BY <4>1, <3>2, <1>1
      <4>3. QED
        BY <2>6, <4>1, <4>2
    <3>3. QED
      BY <3>1, <3>2
  <2>9. QED
    BY <2>3, <2>5, <2>7, <2>8 DEF QuotaInv
<1>4. QED
  BY <1>2, <1>3

LEMMA QuotaInvariant == Spec => []QuotaInv
<1> USE RateAssumption
<1>1. Init => QuotaInv
  BY DEF Init, QuotaInv, InTime, WindowQuota, SpentQuotaIsOld, BurstBound,
         NotStarted
<1>2. TypeOK /\ QuotaInv /\ [Next]_vars => QuotaInv'
  <2> SUFFICES ASSUME TypeOK, QuotaInv, [Next]_vars PROVE QuotaInv'
    OBVIOUS
  <2>1. ASSUME UNCHANGED <<windowVars, log>>, now' \in Nat, now <= now'
        PROVE  QuotaInv'
    <3>1. started' = started /\ requests' = requests /\ log' = log
      BY <2>1 DEF windowVars
    <3>2. InTime'
      <4>1. /\ now \in Nat /\ now' \in Nat /\ started \in Nat \cup {-1}
            /\ \A i \in 1..Len(log) : log[i] \in Nat
        BY <2>1 DEF TypeOK, NotStarted
      <4>2. QED
        BY <2>1, <3>1, <4>1 DEF QuotaInv, InTime, NotStarted
    <3>3. WindowQuota' /\ SpentQuotaIsOld' /\ BurstBound'
      BY <3>1 DEF QuotaInv, WindowQuota, SpentQuotaIsOld, BurstBound
    <3>4. QED
      BY <3>2, <3>3 DEF QuotaInv
  <2>2. CASE Tick
    BY <2>1, <2>2 DEF Tick, TypeOK
  <2>3. ASSUME NEW c \in Clients, Admit(c) PROVE QuotaInv'
    BY <2>3, AdmitKeepsQuota
  <2>4. ASSUME NEW c \in Clients, Refuse(c) PROVE QuotaInv'
    BY <2>4, <2>1 DEF Refuse, TypeOK
  <2>5. ASSUME NEW c \in Clients, Headers(c) PROVE QuotaInv'
    <3>1. CASE Rpm # Unlimited
      <4>1. RollAndAdd(now, 0, 0) /\ log' = log
        BY <2>5, <3>1 DEF Headers
      <4>2. now' \in Nat /\ now <= now'
        BY <2>5, <3>1 DEF Headers, TypeOK
      <4>3. QED
        BY <4>1, <4>2, RollKeepsQuota
    <3>2. CASE Rpm = Unlimited
      BY <2>5, <3>2, <2>1 DEF Headers, TypeOK, windowVars
    <3>3. QED
      BY <3>1, <3>2
  <2>6. ASSUME NEW c \in Clients, AddTokens(c) PROVE QuotaInv'
    <3>1. CASE Tpm # Unlimited
      <4>1. PICK n \in Costs : RollAndAdd(now, 0, n)
        BY <2>6, <3>1 DEF AddTokens
      <4>2. n \in Nat /\ log' = log /\ now' = now
        BY <2>6 DEF AddTokens
      <4>3. QED
        BY <4>1, <4>2, RollKeepsQuota DEF TypeOK
    <3>2. CASE Tpm = Unlimited
      BY <2>6, <3>2, <2>1 DEF AddTokens, TypeOK, windowVars
    <3>3. QED
      BY <3>1, <3>2
  <2>7. ASSUME NEW c \in Clients, EndWithoutTokens(c) PROVE QuotaInv'
    BY <2>7, <2>1 DEF EndWithoutTokens, TypeOK
  <2>8. CASE AllDone \/ UNCHANGED vars
    BY <2>8, <2>1 DEF AllDone, vars, windowVars, TypeOK
  <2>9. QED
    BY <2>2, <2>3, <2>4, <2>5, <2>6, <2>7, <2>8 DEF Next
<1>3. QED
  BY <1>1, <1>2, TypeCorrect, PTL DEF Spec

(* A window never holds more than rpm admissions, and its counter is exact. *)
THEOREM QuotaHolds == Spec => []WindowQuota
<1>1. QuotaInv => WindowQuota
  BY DEF QuotaInv
<1>2. QED
  BY <1>1, QuotaInvariant, PTL

(* No period as long as a window sees more than 2 * rpm admissions.         *)
THEOREM BurstIsBounded == Spec => []BurstBound
<1>1. QuotaInv => BurstBound
  BY DEF QuotaInv
<1>2. QED
  BY <1>1, QuotaInvariant, PTL

-----------------------------------------------------------------------------
(* What a window may be charged beyond tpm is bounded by the requests that  *)
(* can be in progress at once, each worth at most MaxCost tokens.           *)
LEMMA InProgressCount ==
    ASSUME TypeOK
    PROVE  /\ IsFiniteSet(InProgress)
           /\ Cardinality(InProgress) \in Nat
           /\ Cardinality(Clients) \in Nat
           /\ Cardinality(InProgress) <= Cardinality(Clients)
BY RateAssumption, FS_Subset, FS_CardinalityType DEF InProgress

LEMMA ProgressStep ==
    ASSUME TypeOK, NEW c \in Clients,
           c \in InProgress, InProgress' = InProgress \ {c}
    PROVE  Cardinality(InProgress') = Cardinality(InProgress) - 1
BY InProgressCount, FS_RemoveElement

(* Multiplication by a natural number is monotonic.                         *)
LEMMA Scaled ==
    ASSUME NEW a \in Nat, NEW x \in Nat, NEW y \in Nat, x <= y
    PROVE  /\ a * x \in Nat
           /\ a * y \in Nat
           /\ a * x <= a * y
<1>1. PICK d \in Nat : y = x + d
  BY y - x \in Nat
<1>2. a * d \in Nat /\ a * x \in Nat
  OBVIOUS
<1>3. a * y = a * x + a * d
  BY <1>1
<1>4. QED
  BY <1>2, <1>3

(* ... and so is addition.                                                  *)
LEMMA AddedUp ==
    ASSUME NEW a \in Int, NEW b \in Int, NEW x \in Int, NEW y \in Int,
           a <= b, x <= y
    PROVE  a + x <= b + y
OBVIOUS

(* A window is charged less than tpm plus what the requests in progress at  *)
(* its last admission can bring (admit looks at tokens, add_tokens does not *)
(* look at the cap).                                                        *)
THEOREM OvershootIsBounded == Spec => []TokenOvershoot
<1> USE RateAssumption
<1>1. Init => TokenOvershoot
  <2> SUFFICES ASSUME Init, Tpm # Unlimited PROVE TokenOvershoot
    BY DEF TokenOvershoot
  <2>1. InProgress = {}
    BY DEF Init, InProgress
  <2>2. Cardinality(InProgress) = 0 /\ Cardinality(Clients) \in Nat
    BY <2>1, FS_EmptySet, FS_CardinalityType
  <2>3. MaxCost * Cardinality(Clients) \in Nat
    BY <2>2
  <2>4. QED
    BY <2>2, <2>3 DEF Init, TokenOvershoot, Unlimited
<1>2. TypeOK /\ TypeOK' /\ TokenOvershoot /\ [Next]_vars => TokenOvershoot'
  <2> SUFFICES ASSUME TypeOK, TypeOK', TokenOvershoot, [Next]_vars,
                      Tpm # Unlimited
               PROVE  TokenOvershoot'
    BY DEF TokenOvershoot
  <2> DEFINE N == Cardinality(Clients)
             P == Cardinality(InProgress)
  <2>1. /\ N \in Nat /\ P \in Nat /\ P <= N
        /\ P' \in Nat /\ P' <= N
        /\ tokens \in Nat /\ tokens' \in Nat
        /\ Tpm \in Nat \ {0} /\ MaxCost \in Nat
        /\ IsFiniteSet(InProgress)
    <3>1. P' \in Nat /\ P' <= N
      BY FS_Subset, FS_CardinalityType DEF InProgress
    <3>2. QED
      BY <3>1, InProgressCount DEF TypeOK, Unlimited
  <2>2. tokens + MaxCost * P <= (Tpm - 1) + MaxCost * N
    BY DEF TokenOvershoot
  <2> HIDE DEF N, P
  <2>3. ASSUME tokens' <= Tpm - 1 PROVE TokenOvershoot'
    <3>1. /\ MaxCost * P' <= MaxCost * N
          /\ MaxCost * P' \in Nat /\ MaxCost * N \in Nat
      BY <2>1, Scaled
    <3>2. /\ tokens' \in Int /\ Tpm - 1 \in Int
          /\ MaxCost * P' \in Int /\ MaxCost * N \in Int
      BY <2>1, <3>1
    <3>3. tokens' + MaxCost * P' <= (Tpm - 1) + MaxCost * N
      BY <2>3, <3>1, <3>2, AddedUp, Zenon
    <3>4. QED
      BY <3>3 DEF TokenOvershoot, N, P
  <2>4. ASSUME tokens' <= tokens, P' <= P PROVE TokenOvershoot'
    <3>1. /\ MaxCost * P' <= MaxCost * P /\ MaxCost * P <= MaxCost * N
          /\ MaxCost * P' \in Nat /\ MaxCost * P \in Nat
          /\ MaxCost * N \in Nat
      BY <2>1, <2>4, Scaled
    <3>2. /\ tokens' \in Int /\ tokens \in Int
          /\ MaxCost * P' \in Int /\ MaxCost * P \in Int
      BY <2>1, <3>1
    <3>3. tokens' + MaxCost * P' <= tokens + MaxCost * P
      BY <2>4, <3>1, <3>2, AddedUp, Zenon
    <3>4. ASSUME NEW s \in Int, NEW m \in Int, NEW r \in Int, s <= m, m <= r
          PROVE  s <= r
      BY <3>4
    <3>5. /\ tokens' + MaxCost * P' \in Int /\ tokens + MaxCost * P \in Int
          /\ (Tpm - 1) + MaxCost * N \in Int
      BY <2>1, <3>1
    <3>6. tokens' + MaxCost * P' <= (Tpm - 1) + MaxCost * N
      BY <2>2, <3>3, <3>4, <3>5, Zenon
    <3>7. QED
      BY <3>6 DEF TokenOvershoot, N, P
  <2>5. CASE Tick
    BY <2>5, <2>4, <2>1 DEF Tick, windowVars, P, InProgress
  <2>6. ASSUME NEW c \in Clients, Admit(c) PROVE TokenOvershoot'
    <3>1. tokens' <= Tpm - 1
      BY <2>6, <2>1 DEF Admit, RollAndAdd, TpmReached, TypeOK
    <3>2. QED
      BY <3>1, <2>3
  <2>7. ASSUME NEW c \in Clients, Refuse(c) PROVE TokenOvershoot'
    <3>1. InProgress' = InProgress
      BY <2>7 DEF Refuse, InProgress, TypeOK
    <3>2. QED
      BY <3>1, <2>7, <2>4, <2>1 DEF Refuse, windowVars, P
  <2>8. ASSUME NEW c \in Clients, Headers(c) PROVE TokenOvershoot'
    <3>1. InProgress' = InProgress
      BY <2>8 DEF Headers, InProgress, TypeOK
    <3>2. tokens' <= tokens
      BY <2>8, <2>1 DEF Headers, RollAndAdd, windowVars, TypeOK
    <3>3. QED
      BY <3>1, <3>2, <2>4, <2>1 DEF P
  <2>9. ASSUME NEW c \in Clients, AddTokens(c) PROVE TokenOvershoot'
    <3>1. c \in InProgress /\ InProgress' = InProgress \ {c}
      BY <2>9 DEF AddTokens, InProgress, TypeOK
    <3>2. P' = P - 1
      BY <3>1, ProgressStep DEF P
    <3>3. PICK n \in Costs : RollAndAdd(now, 0, n)
      BY <2>9 DEF AddTokens
    <3>4. tokens' <= tokens + MaxCost
      BY <3>3, <2>1 DEF RollAndAdd, TypeOK
    <3>5. MaxCost * P' = MaxCost * P - MaxCost
      BY <3>2, <2>1
    <3>6. QED
      BY <2>1, <2>2, <3>4, <3>5 DEF TokenOvershoot, N, P
  <2>10. ASSUME NEW c \in Clients, EndWithoutTokens(c) PROVE TokenOvershoot'
    <3>1. c \in InProgress /\ InProgress' = InProgress \ {c}
      BY <2>10 DEF EndWithoutTokens, InProgress, TypeOK
    <3>2. P' = P - 1
      BY <3>1, ProgressStep DEF P
    <3>3. QED
      BY <3>2, <2>10, <2>4, <2>1 DEF EndWithoutTokens, windowVars
  <2>11. CASE AllDone \/ UNCHANGED vars
    BY <2>11, <2>4, <2>1 DEF AllDone, vars, P, InProgress
  <2>12. QED
    BY <2>5, <2>6, <2>7, <2>8, <2>9, <2>10, <2>11 DEF Next
<1>3. QED
  BY <1>1, <1>2, TypeCorrect, PTL DEF Spec

-----------------------------------------------------------------------------
(* retry_after.  Rounding up in whole seconds reaches the end and passes it *)
(* by less than a second.                                                   *)
LEMMA CeilBounds ==
    ASSUME NEW n \in Nat, NEW d \in Nat \ {0}
    PROVE  /\ Ceil(n, d) \in Nat
           /\ n <= Ceil(n, d) * d /\ Ceil(n, d) * d < n + d
<1> DEFINE a == n + d - 1
           q == a \div d
<1>1. a \in Nat /\ d > 0
  OBVIOUS
<1> HIDE DEF a
<1>2. /\ q \in Nat /\ a % d \in 0..(d - 1)
      /\ a = d * q + (a % d)
  BY <1>1
<1> HIDE DEF q
<1>3. q * d = d * q /\ d * q \in Nat
  BY <1>2
<1>4. Ceil(n, d) = q
  BY DEF Ceil, a, q
<1> DEFINE prod == d * q
           rest == a % d
<1> HIDE DEF prod, rest
<1>5. prod \in Nat /\ rest \in 0..(d - 1) /\ n + d - 1 = prod + rest
  BY <1>2, <1>3 DEF prod, rest, a
<1>6. n <= prod /\ prod < n + d
  BY <1>5
<1>7. QED
  BY <1>2, <1>3, <1>4, <1>6 DEF prod

LEMMA RetryBounds ==
    ASSUME NEW begun \in Nat, NEW t \in Nat, begun <= t
    PROVE  LET wait == RetryAfter(begun, t) * TicksPerSecond
           IN  /\ wait \in Nat
               /\ t + wait - begun >= Window
               /\ t + wait - begun < Window + TicksPerSecond \/ wait = TicksPerSecond
<1> DEFINE left == Window - (t - begun)
           seconds == Ceil(left, TicksPerSecond)
<1>1. Window \in Nat /\ TicksPerSecond \in Nat \ {0} /\ left \in Int
  BY RateAssumption
<1>2. CASE left <= 0
  <2>1. t - begun >= Window
    BY <1>1, <1>2
  <2>2. RetryAfter(begun, t) = 1
    BY <2>1 DEF RetryAfter
  <2>3. QED
    BY <1>1, <2>1, <2>2
<1>3. CASE left > 0
  <2>1. left \in Nat
    BY <1>1, <1>3
  <2> HIDE DEF left
  <2>2. /\ seconds \in Nat /\ left <= seconds * TicksPerSecond
        /\ seconds * TicksPerSecond < left + TicksPerSecond
    BY <1>1, <2>1, CeilBounds
  <2> HIDE DEF seconds
  <2>3. seconds # 0
    BY <1>1, <1>3, <2>1, <2>2
  <2>4. ~(t - begun >= Window) /\ ~(seconds < 1)
    BY <1>1, <1>3, <2>2, <2>3 DEF left
  <2>5. RetryAfter(begun, t) = seconds
    BY <2>4 DEF RetryAfter, seconds, left
  <2> DEFINE wait == seconds * TicksPerSecond
  <2>6. wait \in Nat /\ left <= wait /\ wait < left + TicksPerSecond
    BY <1>1, <2>2
  <2> HIDE DEF wait
  <2>7. t + wait - begun >= Window /\ t + wait - begun < Window + TicksPerSecond
    BY <1>1, <2>6 DEF left
  <2>8. QED
    BY <2>5, <2>6, <2>7 DEF wait
<1>4. QED
  BY <1>1, <1>2, <1>3

(* What was promised reaches the end of the window it was about, and not a  *)
(* second further, unless that window was over when the promise was made.   *)
PromisesKept ==
    \A c \in Clients : promisedFor[c] # NotStarted =>
        /\ promise[c] - promisedFor[c] >= Window
        /\ \/ promise[c] - promisedFor[c] < Window + TicksPerSecond
           \/ promise[c] <= now + TicksPerSecond

StartedInTime == started <= now

LEMMA PromiseInvariant == Spec => [](StartedInTime /\ PromisesKept)
<1>1. Init => StartedInTime /\ PromisesKept
  BY DEF Init, StartedInTime, PromisesKept, NotStarted
<1>2. TypeOK /\ StartedInTime /\ PromisesKept /\ [Next]_vars
      => StartedInTime' /\ PromisesKept'
  <2> SUFFICES ASSUME TypeOK, StartedInTime, PromisesKept, [Next]_vars
               PROVE  StartedInTime' /\ PromisesKept'
    OBVIOUS
  <2>1. /\ now \in Nat /\ started \in Nat \cup {NotStarted} /\ NotStarted = -1
        /\ promise \in [Clients -> Nat]
        /\ promisedFor \in [Clients -> Nat \cup {NotStarted}]
        /\ TicksPerSecond \in Nat /\ Window \in Nat
    BY RateAssumption DEF TypeOK, NotStarted
  <2>2. ASSUME now' \in Nat, now' >= now, UNCHANGED <<promise, promisedFor>>,
               started' = started \/ started' = now
        PROVE  StartedInTime' /\ PromisesKept'
    <3>1. StartedInTime'
      BY <2>1, <2>2 DEF StartedInTime
    <3>2. PromisesKept'
      BY <2>1, <2>2 DEF PromisesKept
    <3>3. QED
      BY <3>1, <3>2
  <2>3. ASSUME NEW c \in Clients, NEW begun \in Nat, begun <= now,
               started' = begun, now' \in Nat, now' >= now,
               PromiseAt(c, begun, now')
        PROVE  StartedInTime' /\ PromisesKept'
    <3>1. begun <= now'
      BY <2>1, <2>3
    <3>2. PICK wait \in Nat :
             /\ wait = RetryAfter(begun, now') * TicksPerSecond
             /\ now' + wait - begun >= Window
             /\ now' + wait - begun < Window + TicksPerSecond \/ wait = TicksPerSecond
      BY <2>3, <3>1, RetryBounds
    <3>3. /\ promise' = [promise EXCEPT ![c] = now' + wait]
          /\ promisedFor' = [promisedFor EXCEPT ![c] = begun]
      BY <2>3, <3>2 DEF PromiseAt
    <3>4. ASSUME NEW d \in Clients, promisedFor'[d] # NotStarted
          PROVE  /\ promise'[d] - promisedFor'[d] >= Window
                 /\ \/ promise'[d] - promisedFor'[d] < Window + TicksPerSecond
                    \/ promise'[d] <= now' + TicksPerSecond
      <4>1. CASE d = c
        <5>1. promise'[d] = now' + wait /\ promisedFor'[d] = begun
          BY <2>1, <3>3, <4>1
        <5>2. QED
          BY <2>1, <2>3, <3>2, <5>1
      <4>2. CASE d # c
        <5>1. promise'[d] = promise[d] /\ promisedFor'[d] = promisedFor[d]
          BY <2>1, <3>3, <4>2
        <5>2. QED
          BY <2>1, <2>3, <3>4, <5>1 DEF PromisesKept
      <4>3. QED
        BY <4>1, <4>2
    <3>5. PromisesKept'
      BY <3>4 DEF PromisesKept
    <3>6. StartedInTime'
      BY <2>3, <3>1 DEF StartedInTime
    <3>7. QED
      BY <3>5, <3>6
  <2>4. ASSUME NEW n, NEW r, RollAndAdd(now, r, n)
        PROVE  started' = started \/ started' = now
    BY <2>4 DEF RollAndAdd
  <2>5. CASE Tick \/ AllDone \/ UNCHANGED vars
    BY <2>1, <2>2, <2>5 DEF Tick, AllDone, vars, windowVars
  <2>6. ASSUME NEW c \in Clients, Admit(c) \/ AddTokens(c) \/ EndWithoutTokens(c)
        PROVE  StartedInTime' /\ PromisesKept'
    BY <2>1, <2>2, <2>4, <2>6 DEF Admit, AddTokens, EndWithoutTokens, windowVars
  <2>7. ASSUME NEW c \in Clients, Refuse(c)
        PROVE  StartedInTime' /\ PromisesKept'
    <3>1. started \in Nat /\ started <= now
      BY <2>1, <2>7 DEF Refuse, RpmReached, TpmReached, Running, StartedInTime
    <3>2. PICK later \in now..(now + MaxLag) : now' = later /\ PromiseAt(c, started, later)
      BY <2>7 DEF Refuse
    <3>3. now' \in Nat /\ now' >= now /\ started' = started
      BY <2>1, <2>7, <3>2, RateAssumption DEF Refuse, windowVars
    <3>4. QED
      BY <2>3, <3>1, <3>2, <3>3
  <2>8. ASSUME NEW c \in Clients, Headers(c)
        PROVE  StartedInTime' /\ PromisesKept'
    <3>1. CASE Rpm = Unlimited
      BY <2>1, <2>2, <2>8, <3>1 DEF Headers, windowVars
    <3>2. CASE Rpm # Unlimited
      <4>1. /\ RollAndAdd(now, 0, 0)
            /\ \E later \in now..(now + MaxLag) :
                  now' = later /\ PromiseAt(c, started', later)
        BY <2>8, <3>2 DEF Headers
      <4>2. started' \in Nat /\ started' <= now
        <5>1. started' = IF Running(now) THEN started ELSE now
          BY <4>1 DEF RollAndAdd
        <5>2. Running(now) => started # NotStarted
          BY DEF Running
        <5>3. started <= now
          BY DEF StartedInTime
        <5>4. QED
          BY <2>1, <5>1, <5>2, <5>3
      <4>3. now' \in Nat /\ now' >= now /\ PromiseAt(c, started', now')
        BY <2>1, <4>1, RateAssumption
      <4>4. QED
        BY <2>3, <4>2, <4>3
    <3>3. QED
      BY <3>1, <3>2
  <2>9. QED
    BY <2>5, <2>6, <2>7, <2>8 DEF Next
<1>3. QED
  BY <1>1, <1>2, TypeCorrect, PTL DEF Spec

(* retry_after and X-RateLimit-Reset: a client that waits as long as it was *)
(* told finds that window over, however long the limiter took between its   *)
(* two readings of the clock.                                               *)
THEOREM WaitingIsEnough == Spec => []WaitingPaysOff
<1>1. TypeOK /\ PromisesKept => WaitingPaysOff
  <2> SUFFICES ASSUME TypeOK, PromisesKept, NEW c \in Clients,
                      now >= promise[c], promisedFor[c] # NotStarted
               PROVE  now - promisedFor[c] >= Window
    BY DEF WaitingPaysOff
  <2>1. now \in Nat /\ promise[c] \in Nat /\ promisedFor[c] \in Int /\ Window \in Nat
    BY RateAssumption DEF TypeOK, NotStarted
  <2>2. promise[c] - promisedFor[c] >= Window
    BY DEF PromisesKept
  <2>3. QED
    BY <2>1, <2>2
<1>2. QED
  BY <1>1, PromiseInvariant, TypeCorrect, PTL

(* retry_after: nobody is told to wait a second longer than the rest of the *)
(* window.                                                                  *)
THEOREM NobodyWaitsLonger == Spec => []NoOverWait
<1>1. PromisesKept => NoOverWait
  BY DEF PromisesKept, NoOverWait
<1>2. QED
  BY <1>1, PromiseInvariant, PTL
=============================================================================
