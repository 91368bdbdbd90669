--------------------------- MODULE DeliveryProofs ---------------------------
(***************************************************************************)
(* Proofs about Delivery, for any number of requests, targets and retries: *)
(* its types and the breaker, then the walk along the plan, then the books.*)
(***************************************************************************)
EXTENDS Delivery, FiniteSetTheorems, WellFoundedInduction, SequenceTheorems,
        TLAPS

-----------------------------------------------------------------------------
(* The target list of a request whose delivery starts at an endpoint.       *)

LEMMA LeastExists ==
    ASSUME NEW S \in SUBSET Nat, S # {}
    PROVE  \E i \in S : \A j \in S : i <= j
<1>1. PICK i \in S : \A j \in S : <<j, i>> \notin OpToRel(<, Nat)
  BY NatLessThanWellFounded, WFMin, Zenon
<1>2. \A j \in S : ~(j < i)
  BY <1>1 DEF OpToRel
<1>3. QED
  BY <1>2

LEMMA CandidatesAreNames ==
    ASSUME NEW m, NEW policy
    PROVE  FailoverCandidates(m, policy) \in Seq(Names)
<1> DEFINE i == FirstPosition(m)
<1>1. CASE Positions(m) = {}
  BY <1>1, EmptySeq DEF FailoverCandidates
<1>2. CASE Positions(m) # {}
  <2>1. Positions(m) \in SUBSET Nat /\ Positions(m) \subseteq 1..Len(Ladder)
    BY ReliabilityAssumption, LenProperties DEF Positions
  <2>2. i \in 1..Len(Ladder)
    BY <1>2, <2>1, LeastExists DEF FirstPosition
  <2>3. Ladder \in [1..Len(Ladder) -> Names] /\ Len(Ladder) \in Nat
    BY ReliabilityAssumption, LenProperties
  <2>4. SubSeq(Ladder, i + 1, Len(Ladder)) \in Seq(Names)
    <3>1. \A k \in (i + 1)..Len(Ladder) : Ladder[k] \in Names
      BY <2>2, <2>3
    <3>2. QED
      BY <2>2, <2>3, <3>1, SubSeqProperties
  <2>5. [k \in 1..(i - 1) |-> Ladder[i - k]] \in Seq(Names)
    <3>1. [k \in 1..(i - 1) |-> Ladder[i - k]] \in [1..(i - 1) -> Names]
      BY <2>2, <2>3
    <3>2. i - 1 \in Nat
      BY <2>2
    <3>3. QED
      BY <3>1, <3>2, SeqDef
  <2>6. << >> \in Seq(Names)
    BY EmptySeq
  <2>7. QED
    BY <1>2, <2>4, <2>5, <2>6 DEF FailoverCandidates
<1>3. QED
  BY <1>1, <1>2

LEMMA TargetsAreNames ==
    ASSUME NEW in \in InputType, DeliverFrom(in) \in Configured
    PROVE  TargetList(in) \in Seq(Names)
<1> DEFINE m == DeliverFrom(in)
<1>1. m \in Names
  BY ReliabilityAssumption
<1>2. <<m>> \in Seq(Names)
  BY <1>1
<1>3. Fallbacks[m] \in Seq(Names)
  BY ReliabilityAssumption, SeqMonotonic
<1>4. (IF in.offline THEN << >> ELSE FailoverCandidates(m, in.policy)) \in Seq(Names)
  BY CandidatesAreNames, EmptySeq
<1>5. <<m>> \o Fallbacks[m] \in Seq(Names)
  BY <1>2, <1>3, ConcatProperties
<1>6. QED
  BY <1>4, <1>5, ConcatProperties DEF TargetList

-----------------------------------------------------------------------------
(* The walk: a request that moves stands at a position of its plan, and     *)
(* delivery started at an endpoint.                                         *)
Moving == PC \ {"idle", "planning", "replied", "dropped"}

WalkOf(r) ==
    /\ pc[r] \in {"idle", "planning"} => plan[r] = {}
    /\ pc[r] = "planning" \/ plan[r] # {} => DeliverFrom(input[r]) \in Configured
    /\ plan[r] \subseteq DOMAIN Targets(r)
    /\ pc[r] \in Moving => at[r] \in plan[r]
    /\ pc[r] = "backoff" => attempt[r] < Retries

WalkInv == \A r \in Requests : WalkOf(r)

LEMMA TargetIsName ==
    ASSUME TypeOK, NEW r \in Requests, WalkOf(r), NEW i \in plan[r]
    PROVE  Targets(r)[i] \in Names
<1>1. input[r] \in InputType
  BY DeliveryAssumption DEF TypeOK
<1>2. Targets(r) \in Seq(Names)
  BY <1>1, TargetsAreNames DEF WalkOf, Targets
<1>3. QED
  BY <1>2, LenProperties DEF WalkOf

(* MoveOn stays inside the positions it is given.                           *)
LEMMA MoveOnWithin ==
    ASSUME TypeOK, NEW r \in Requests, NEW positions \in SUBSET (DOMAIN Targets(r)),
           Targets(r) \in Seq(Names), NEW i \in Nat,
           MoveOn(r, positions, i)
    PROVE  /\ \A q \in Requests \ {r} :
                 /\ pc'[q] = pc[q] /\ at'[q] = at[q] /\ attempt'[q] = attempt[q]
           /\ pc'[r] \in {"flight", "replied"}
           /\ pc'[r] = "flight" => at'[r] \in positions
           /\ at' \in [Requests -> Nat]
           /\ pc' \in [Requests -> PC]
           /\ attempt' \in [Requests -> 0..Retries]
           /\ reply' \in [Requests -> Replies]
           /\ calls' \in [Requests -> [Names -> Nat]]
<1>1. DOMAIN Targets(r) \subseteq Nat
  BY LenProperties
<1>2. /\ pc \in [Requests -> PC]
      /\ at \in [Requests -> Nat]
      /\ attempt \in [Requests -> 0..Retries]
      /\ reply \in [Requests -> Replies]
      /\ calls \in [Requests -> [Names -> Nat]]
  BY DEF TypeOK
<1>3. CASE /\ pc' = [pc EXCEPT ![r] = "replied"]
           /\ reply' = [reply EXCEPT ![r] = "exhausted"]
           /\ UNCHANGED <<at, attempt, calls>>
  <2>1. "replied" \in PC /\ "exhausted" \in Replies
    BY DEF PC, Replies
  <2>2. QED
    BY <1>2, <1>3, <2>1
<1>4. ASSUME NEW j \in Ahead(r, positions, i),
             at' = [at EXCEPT ![r] = j],
             attempt' = [attempt EXCEPT ![r] = 0],
             calls' = [calls EXCEPT ![r][Targets(r)[j]] = @ + 1],
             pc' = [pc EXCEPT ![r] = "flight"],
             UNCHANGED reply
      PROVE  /\ at' \in [Requests -> Nat]
             /\ pc' \in [Requests -> PC]
             /\ attempt' \in [Requests -> 0..Retries]
             /\ calls' \in [Requests -> [Names -> Nat]]
             /\ pc'[r] = "flight"
             /\ at'[r] \in positions
  <2>1. j \in positions /\ j \in Nat /\ Targets(r)[j] \in Names
    BY <1>1, <1>4, ElementOfSeq, LenProperties DEF Ahead
  <2>2. "flight" \in PC /\ 0 \in 0..Retries
    BY DeliveryAssumption DEF PC
  <2>3. calls' \in [Requests -> [Names -> Nat]]
    BY <1>2, <1>4, <2>1
  <2>4. QED
    BY <1>2, <1>4, <2>1, <2>2, <2>3
<1>5. QED
  BY <1>2, <1>3, <1>4 DEF MoveOn

LEMMA RecordType ==
    ASSUME TypeOK, NEW r \in Requests, NEW ok \in BOOLEAN,
           Target(r) \in Names, Record(r, ok)
    PROVE  /\ fails' \in [Names -> Nat]
           /\ openedAt' \in [Names -> Nat \cup {Closed}]
           /\ verdicts' \in [Names -> Seq(Verdict)]
<1> USE DEF TypeOK
<1> DEFINE m == Target(r)
           v == [by |-> r, ok |-> ok, time |-> now]
<1>1. v \in Verdict
  BY DEF Verdict
<1> HIDE DEF v
<1>2. Append(verdicts[m], v) \in Seq(Verdict)
  BY <1>1, AppendProperties
<1>3. /\ fails' = FailsAfter(fails, m, ok)
      /\ openedAt' = OpenedAfter(fails, openedAt, m, ok, now)
      /\ verdicts' = [verdicts EXCEPT ![m] = Append(@, v)]
  BY Zenon DEF Record, v
<1>4. /\ m \in Names /\ now \in Nat
      /\ fails \in [Names -> Nat]
      /\ openedAt \in [Names -> Nat \cup {Closed}]
  OBVIOUS
<1> HIDE DEF m
<1>5. fails' \in [Names -> Nat]
  BY ONLY <1>3, <1>4 DEF FailsAfter
<1>6. openedAt' \in [Names -> Nat \cup {Closed}]
  BY ONLY <1>3, <1>4 DEF OpenedAfter
<1>7. verdicts' \in [Names -> Seq(Verdict)]
  <2>1. verdicts \in [Names -> Seq(Verdict)]
    OBVIOUS
  <2>2. QED
    BY ONLY <1>2, <1>3, <1>4, <2>1
<1>8. QED
  BY <1>5, <1>6, <1>7

(* A step of r that leaves its position alone.                              *)
LEMMA StandsStill ==
    ASSUME WalkInv, NEW r \in Requests,
           input' = input, plan' = plan, at' = at, attempt' = attempt,
           \A q \in Requests \ {r} : pc'[q] = pc[q],
           pc'[r] \notin {"idle", "planning"},
           pc'[r] \in Moving => pc[r] \in Moving,
           pc'[r] = "backoff" => attempt[r] < Retries
    PROVE  WalkInv'
<1> SUFFICES ASSUME NEW q \in Requests PROVE WalkOf(q)'
  BY DEF WalkInv
<1>1. WalkOf(q)
  BY DEF WalkInv
<1>2. CASE q # r
  BY <1>1, <1>2 DEF WalkOf, Targets
<1>3. CASE q = r
  BY <1>1, <1>3 DEF WalkOf, Targets
<1>4. QED
  BY <1>2, <1>3

(* A step of r that only moves its program counter on.                      *)
LEMMA PcStep ==
    ASSUME TypeOK, WalkInv, NEW r \in Requests, pc[r] \in Moving,
           NEW to \in PC \ {"idle", "planning", "backoff"},
           pc' = [pc EXCEPT ![r] = to],
           UNCHANGED <<input, plan, at, attempt>>
    PROVE  pc' \in [Requests -> PC] /\ WalkInv'
<1>1. pc \in [Requests -> PC]
  BY DEF TypeOK
<1>2. pc' \in [Requests -> PC]
  BY <1>1
<1>3. WalkInv'
  BY <1>1, StandsStill
<1>4. QED
  BY <1>2, <1>3

LEMMA TypeAndWalk == Spec => [](TypeOK /\ WalkInv)
<1>1. Init => TypeOK /\ WalkInv
  <2> SUFFICES ASSUME Init PROVE TypeOK /\ WalkInv
    OBVIOUS
  <2>1. TypeOK
    <3>1. << >> \in Seq(Names \X Names) /\ << >> \in Seq(Verdict)
      BY EmptySeq
    <3>2. QED
      BY <3>1, DeliveryAssumption DEF Init, TypeOK, PC, Replies
  <2>2. WalkInv
    BY DEF Init, WalkInv, WalkOf, Moving
  <2>3. QED
    BY <2>1, <2>2
<1>2. (TypeOK /\ WalkInv) /\ [Next]_vars => (TypeOK /\ WalkInv)'
  <2> SUFFICES ASSUME TypeOK, WalkInv, [Next]_vars PROVE TypeOK' /\ WalkInv'
    OBVIOUS
  <2> USE DEF breakerVars, walkVars, bookVars, inputVars
  <2>1. CASE Tick
    <3>1. TypeOK'
      BY <2>1 DEF Tick, TypeOK
    <3>2. WalkInv'
      BY <2>1 DEF Tick, WalkInv, WalkOf, Targets
    <3>3. QED
      BY <3>1, <3>2
  <2>2. CASE AllDone \/ UNCHANGED vars
    <3>1. UNCHANGED vars
      BY <2>2 DEF AllDone
    <3>2. TypeOK'
      BY <3>1 DEF vars, TypeOK
    <3>3. WalkInv'
      BY <3>1 DEF vars, WalkInv, WalkOf, Targets
    <3>4. QED
      BY <3>2, <3>3
  <2>3. ASSUME NEW r \in Requests, Arrive(r) PROVE TypeOK' /\ WalkInv'
    <3>1. TypeOK'
      <4> "planning" \in PC /\ "replied" \in PC /\ "misconfigured" \in Replies
        BY DEF PC, Replies
      <4>1. pc' \in [Requests -> PC] /\ reply' \in [Requests -> Replies]
            /\ stamp' \in [Requests -> Nat]
        <5>1. /\ pc \in [Requests -> PC] /\ reply \in [Requests -> Replies]
              /\ stamp \in [Requests -> Nat] /\ now \in Nat
          BY DEF TypeOK
        <5>2. CASE /\ stamp' = [stamp EXCEPT ![r] = now]
                   /\ pc' = [pc EXCEPT ![r] = "planning"]
                   /\ UNCHANGED reply
          BY <5>1, <5>2
        <5>3. CASE /\ pc' = [pc EXCEPT ![r] = "replied"]
                   /\ reply' = [reply EXCEPT ![r] = "misconfigured"]
                   /\ UNCHANGED stamp
          BY <5>1, <5>3
        <5>4. QED
          BY <2>3, <5>2, <5>3 DEF Arrive, Answer
      <4>2. UNCHANGED <<now, breakerVars, walkVars, bookVars, input,
                        finished, ended, errors>>
        BY <2>3 DEF Arrive
      <4>3. QED
        BY <4>1, <4>2 DEF TypeOK
    <3>2. WalkInv'
      <4> SUFFICES ASSUME NEW q \in Requests PROVE WalkOf(q)'
        BY DEF WalkInv
      <4>1. WalkOf(q) /\ pc \in [Requests -> PC]
        BY DEF WalkInv, TypeOK
      <4>2. QED
        BY <2>3, <4>1 DEF Arrive, WalkOf, Targets, Moving
    <3>3. QED
      BY <3>1, <3>2
  <2>4. ASSUME NEW r \in Requests, MakePlan(r) PROVE TypeOK' /\ WalkInv'
    <3> DEFINE positions == DeliveryPlan(input[r], openedAt, stamp[r])
    <3>1. DeliverFrom(input[r]) \in Configured /\ pc[r] = "planning"
      BY <2>4 DEF MakePlan, WalkInv, WalkOf
    <3>2. input[r] \in InputType
      BY DeliveryAssumption DEF TypeOK
    <3>3. Targets(r) \in Seq(Names)
      BY <3>1, <3>2, TargetsAreNames DEF Targets
    <3>4. positions \in SUBSET (DOMAIN Targets(r))
      BY DEF DeliveryPlan, Targets
    <3>5. positions \in SUBSET (Nat \ {0})
      BY <3>3, <3>4, LenProperties
    <3>6. pc \in [Requests -> PC] /\ reply \in [Requests -> Replies]
          /\ plan \in [Requests -> SUBSET (Nat \ {0})]
      BY DEF TypeOK
    <3>7. /\ \A q \in Requests \ {r} :
               /\ pc'[q] = pc[q] /\ at'[q] = at[q] /\ attempt'[q] = attempt[q]
          /\ pc'[r] \in {"flight", "replied"}
          /\ pc'[r] = "flight" => at'[r] \in positions
          /\ at' \in [Requests -> Nat]
          /\ pc' \in [Requests -> PC]
          /\ attempt' \in [Requests -> 0..Retries]
          /\ reply' \in [Requests -> Replies]
          /\ calls' \in [Requests -> [Names -> Nat]]
      <4>1. CASE MoveOn(r, positions, 0)
        BY <3>3, <3>4, <4>1, MoveOnWithin
      <4>2. CASE /\ pc' = [pc EXCEPT ![r] = "replied"]
                 /\ Answer(r, "unavailable")
                 /\ UNCHANGED <<at, attempt, calls>>
        BY <4>2, <3>6 DEF Answer, PC, Replies, TypeOK
      <4>3. QED
        BY <4>1, <4>2, <2>4 DEF MakePlan
    <3>8. plan' = [plan EXCEPT ![r] = positions]
          /\ UNCHANGED <<now, breakerVars, bookVars, inputVars, finished, ended, errors>>
      BY <2>4 DEF MakePlan
    <3>9. TypeOK'
      BY <3>5, <3>6, <3>7, <3>8 DEF TypeOK
    <3>10. WalkInv'
      <4> SUFFICES ASSUME NEW q \in Requests PROVE WalkOf(q)'
        BY DEF WalkInv
      <4>1. WalkOf(q)
        BY DEF WalkInv
      <4>2. CASE q # r
        BY <3>6, <3>7, <3>8, <4>1, <4>2 DEF WalkOf, Targets
      <4>3. CASE q = r
        <5>1. plan'[r] = positions /\ input' = input
          BY <3>6, <3>8
        <5>2. QED
          BY <3>1, <3>4, <3>7, <4>3, <5>1 DEF WalkOf, Targets, Moving
      <4>4. QED
        BY <4>2, <4>3
    <3>11. QED
      BY <3>9, <3>10
  <2>5. ASSUME NEW r \in Requests, pc[r] \in Moving
        PROVE  /\ Target(r) \in Names
               /\ Targets(r) \in Seq(Names)
               /\ plan[r] \in SUBSET (DOMAIN Targets(r))
               /\ DeliverFrom(input[r]) \in Configured
    <3>1. WalkOf(r) /\ at[r] \in plan[r]
      BY <2>5 DEF WalkInv, WalkOf
    <3>2. input[r] \in InputType
      BY DeliveryAssumption DEF TypeOK
    <3>3. QED
      BY <3>1, <3>2, TargetIsName, TargetsAreNames DEF Target, Targets, WalkOf
  <2>6. ASSUME NEW r \in Requests, FailAttempt(r) PROVE TypeOK' /\ WalkInv'
    <3>1. pc[r] \in Moving /\ pc \in [Requests -> PC]
      BY <2>6 DEF FailAttempt, Moving, PC, TypeOK
    <3>2. TypeOK'
      <4>1. errors' \in [Names -> Nat]
        BY <2>5, <2>6, <3>1 DEF FailAttempt, CountError, TypeOK
      <4>2. pc' \in [Requests -> PC]
        BY <2>6 DEF FailAttempt, TypeOK, PC
      <4>3. UNCHANGED <<now, breakerVars, walkVars, bookVars, inputVars,
                        finished, ended, reply>>
        BY <2>6 DEF FailAttempt
      <4>4. QED
        BY <4>1, <4>2, <4>3 DEF TypeOK
    <3>3. WalkInv'
      BY <2>6, <3>1, StandsStill DEF FailAttempt, Moving, PC
    <3>4. QED
      BY <3>2, <3>3
  <2>7. ASSUME NEW r \in Requests, WakeUp(r) PROVE TypeOK' /\ WalkInv'
    <3>1. WalkOf(r) /\ pc[r] = "backoff" /\ pc[r] \in Moving
      BY <2>7 DEF WakeUp, Goto, WalkInv, Moving, PC
    <3>2. attempt' \in [Requests -> 0..Retries]
      BY <2>7, <3>1, DeliveryAssumption DEF WakeUp, TypeOK, WalkOf
    <3>3. calls' \in [Requests -> [Names -> Nat]]
      BY <2>7, <3>1, <2>5 DEF WakeUp, TypeOK
    <3>4. pc' \in [Requests -> PC]
      BY <2>7 DEF WakeUp, Goto, TypeOK, PC
    <3>5. TypeOK'
      BY <2>7, <3>2, <3>3, <3>4 DEF WakeUp, TypeOK
    <3>6. WalkInv'
      <4> SUFFICES ASSUME NEW q \in Requests PROVE WalkOf(q)'
        BY DEF WalkInv
      <4>1. WalkOf(q) /\ pc \in [Requests -> PC] /\ attempt \in [Requests -> 0..Retries]
        BY DEF WalkInv, TypeOK
      <4>2. QED
        BY <2>7, <3>1, <4>1 DEF WakeUp, Goto, WalkOf, Targets
    <3>7. QED
      BY <3>5, <3>6
  <2>8. ASSUME NEW r \in Requests, Exhaust(r) PROVE TypeOK' /\ WalkInv'
    <3>1. /\ Target(r) \in Names
          /\ Targets(r) \in Seq(Names)
          /\ plan[r] \in SUBSET (DOMAIN Targets(r))
          /\ DeliverFrom(input[r]) \in Configured
      BY <2>8, <2>5 DEF Exhaust, Moving, PC
    <3>2. at[r] \in Nat
      BY DEF TypeOK
    <3>3. Record(r, FALSE) /\ MoveOn(r, plan[r], at[r])
          /\ UNCHANGED <<now, plan, bookVars, inputVars, finished, ended, errors>>
      BY <2>8 DEF Exhaust
    <3>4. /\ \A q \in Requests \ {r} :
               /\ pc'[q] = pc[q] /\ at'[q] = at[q] /\ attempt'[q] = attempt[q]
          /\ pc'[r] \in {"flight", "replied"}
          /\ pc'[r] = "flight" => at'[r] \in plan[r]
          /\ at' \in [Requests -> Nat]
          /\ pc' \in [Requests -> PC]
          /\ attempt' \in [Requests -> 0..Retries]
          /\ reply' \in [Requests -> Replies]
          /\ calls' \in [Requests -> [Names -> Nat]]
      BY <3>1, <3>2, <3>3, MoveOnWithin
    <3>5. /\ fails' \in [Names -> Nat]
          /\ openedAt' \in [Names -> Nat \cup {Closed}]
          /\ verdicts' \in [Names -> Seq(Verdict)]
      BY <3>1, <3>3, RecordType
    <3>6. TypeOK'
      BY <3>3, <3>4, <3>5 DEF TypeOK
    <3>7. WalkInv'
      <4> SUFFICES ASSUME NEW q \in Requests PROVE WalkOf(q)'
        BY DEF WalkInv
      <4>1. WalkOf(q)
        BY DEF WalkInv
      <4>2. CASE q # r
        BY <3>3, <3>4, <4>1, <4>2 DEF WalkOf, Targets
      <4>3. CASE q = r
        BY <3>1, <3>3, <3>4, <4>1, <4>3 DEF WalkOf, Targets, Moving
      <4>4. QED
        BY <4>2, <4>3
    <3>8. QED
      BY <3>6, <3>7
  <2>9. ASSUME NEW r \in Requests, Win(r) PROVE TypeOK' /\ WalkInv'
    <3>1. pc[r] \in Moving
      BY <2>9 DEF Win, Goto, Moving, PC
    <3>2. UNCHANGED <<input, plan, at, attempt>>
      BY <2>9 DEF Win
    <3>3. pc' \in [Requests -> PC] /\ WalkInv'
      <4>1. pc' = [pc EXCEPT ![r] = "won"]
        BY <2>9 DEF Win, Goto
      <4>2. QED
        BY <3>1, <3>2, <4>1, PcStep DEF PC
    <3>4. finished' \in [Requests -> BOOLEAN] /\ ended' \in [Requests -> BOOLEAN]
      BY <2>9, <3>1, <2>5 DEF Win, TypeOK
    <3>5. TypeOK'
      BY <2>9, <3>3, <3>4 DEF Win, TypeOK
    <3>6. QED
      BY <3>3, <3>5
  <2>10. ASSUME NEW r \in Requests, OpenStream(r) PROVE TypeOK' /\ WalkInv'
    <3>1. pc[r] \in Moving
      BY <2>10 DEF OpenStream, Goto, Moving, PC
    <3>2. UNCHANGED <<input, plan, at, attempt>>
      BY <2>10 DEF OpenStream
    <3>3. pc' \in [Requests -> PC] /\ WalkInv'
      <4>1. pc' = [pc EXCEPT ![r] = "open"]
        BY <2>10 DEF OpenStream, Goto
      <4>2. QED
        BY <3>1, <3>2, <4>1, PcStep DEF PC
    <3>4. reply' \in [Requests -> Replies]
      BY <2>10, <3>1, <2>5 DEF OpenStream, TypeOK, Answer, Replies
    <3>5. TypeOK'
      BY <2>10, <3>3, <3>4 DEF OpenStream, TypeOK
    <3>6. QED
      BY <3>3, <3>5
  <2>11. ASSUME NEW r \in Requests, Refuse(r) PROVE TypeOK' /\ WalkInv'
    <3>1. pc[r] \in Moving
      BY <2>11 DEF Refuse, Goto, Moving, PC
    <3>2. UNCHANGED <<input, plan, at, attempt>>
      BY <2>11 DEF Refuse
    <3>3. pc' \in [Requests -> PC] /\ WalkInv'
      <4>1. pc' = [pc EXCEPT ![r] = "refused"]
        BY <2>11 DEF Refuse, Goto
      <4>2. QED
        BY <3>1, <3>2, <4>1, PcStep DEF PC
    <3>4. errors' \in [Names -> Nat]
      BY <2>11, <3>1, <2>5 DEF Refuse, TypeOK, CountError
    <3>5. TypeOK'
      BY <2>11, <3>3, <3>4 DEF Refuse, TypeOK
    <3>6. QED
      BY <3>3, <3>5
  <2>12. ASSUME NEW r \in Requests, RecordRefusal(r) PROVE TypeOK' /\ WalkInv'
    <3>1. pc[r] \in Moving
      BY <2>12 DEF RecordRefusal, Goto, Moving, PC
    <3>2. UNCHANGED <<input, plan, at, attempt>>
      BY <2>12 DEF RecordRefusal
    <3>3. pc' \in [Requests -> PC] /\ WalkInv'
      <4>1. pc' = [pc EXCEPT ![r] = "replied"]
        BY <2>12 DEF RecordRefusal, Goto
      <4>2. QED
        BY <3>1, <3>2, <4>1, PcStep DEF PC
    <3>4. /\ fails' \in [Names -> Nat]
          /\ openedAt' \in [Names -> Nat \cup {Closed}]
          /\ verdicts' \in [Names -> Seq(Verdict)]
          /\ reply' \in [Requests -> Replies]
      BY <2>12, <3>1, <2>5, RecordType DEF RecordRefusal, TypeOK, Answer, Replies
    <3>5. TypeOK'
      BY <2>12, <3>3, <3>4 DEF RecordRefusal, TypeOK
    <3>6. QED
      BY <3>3, <3>5
  <2>13. ASSUME NEW r \in Requests, Reject(r) PROVE TypeOK' /\ WalkInv'
    <3>1. pc[r] \in Moving
      BY <2>13 DEF Reject, Goto, Moving, PC
    <3>2. UNCHANGED <<input, plan, at, attempt>>
      BY <2>13 DEF Reject
    <3>3. pc' \in [Requests -> PC] /\ WalkInv'
      <4>1. pc' = [pc EXCEPT ![r] = "replied"]
        BY <2>13 DEF Reject, Goto
      <4>2. QED
        BY <3>1, <3>2, <4>1, PcStep DEF PC
    <3>4. /\ fails' \in [Names -> Nat]
          /\ openedAt' \in [Names -> Nat \cup {Closed}]
          /\ verdicts' \in [Names -> Seq(Verdict)]
          /\ reply' \in [Requests -> Replies]
      BY <2>13, <3>1, <2>5, RecordType DEF Reject, TypeOK, Answer, Replies
    <3>5. TypeOK'
      BY <2>13, <3>3, <3>4 DEF Reject, TypeOK
    <3>6. QED
      BY <3>3, <3>5
  <2>14. ASSUME NEW r \in Requests, LoseBody(r) PROVE TypeOK' /\ WalkInv'
    <3>1. pc[r] \in Moving
      BY <2>14 DEF LoseBody, Goto, Moving, PC
    <3>2. UNCHANGED <<input, plan, at, attempt>>
      BY <2>14 DEF LoseBody
    <3>3. pc' \in [Requests -> PC] /\ WalkInv'
      <4>1. pc' = [pc EXCEPT ![r] = "replied"]
        BY <2>14 DEF LoseBody, Goto
      <4>2. QED
        BY <3>1, <3>2, <4>1, PcStep DEF PC
    <3>4. reply' \in [Requests -> Replies]
      BY <2>14, <3>1, <2>5 DEF LoseBody, TypeOK, Answer, Replies
    <3>5. TypeOK'
      BY <2>14, <3>3, <3>4 DEF LoseBody, TypeOK
    <3>6. QED
      BY <3>3, <3>5
  <2>15. ASSUME NEW r \in Requests, Credit(r) PROVE TypeOK' /\ WalkInv'
    <3>1. pc[r] \in Moving
      BY <2>15 DEF Credit, Goto, Moving, PC
    <3>2. UNCHANGED <<input, plan, at, attempt>>
      BY <2>15 DEF Credit
    <3>3. pc' \in [Requests -> PC] /\ WalkInv'
      <4>1. \E to \in {"charge", "replied", "tail"} : pc' = [pc EXCEPT ![r] = to]
        BY <2>15 DEF Credit, Goto, Settle
      <4>2. QED
        BY <3>1, <3>2, <4>1, PcStep DEF PC
    <3>4. /\ fails' \in [Names -> Nat]
          /\ openedAt' \in [Names -> Nat \cup {Closed}]
          /\ verdicts' \in [Names -> Seq(Verdict)]
      BY <2>15, <3>1, <2>5, RecordType DEF Credit, TypeOK
    <3>5. TypeOK'
      BY <2>15, <3>3, <3>4 DEF Credit, TypeOK
    <3>6. QED
      BY <3>3, <3>5
  <2>16. ASSUME NEW r \in Requests, Charge(r) PROVE TypeOK' /\ WalkInv'
    <3>1. pc[r] \in Moving
      BY <2>16 DEF Charge, Goto, Moving, PC
    <3>2. UNCHANGED <<input, plan, at, attempt>>
      BY <2>16 DEF Charge
    <3>3. pc' \in [Requests -> PC] /\ WalkInv'
      <4>1. pc' = [pc EXCEPT ![r] = "bill"]
        BY <2>16 DEF Charge, Goto
      <4>2. QED
        BY <3>1, <3>2, <4>1, PcStep DEF PC
    <3>4. charged' \in Nat
      BY <2>16, <3>1, <2>5 DEF Charge, TypeOK
    <3>5. TypeOK'
      BY <2>16, <3>3, <3>4 DEF Charge, TypeOK
    <3>6. QED
      BY <3>3, <3>5
  <2>17. ASSUME NEW r \in Requests, Bill(r) PROVE TypeOK' /\ WalkInv'
    <3>1. pc[r] \in Moving
      BY <2>17 DEF Bill, Goto, Moving, PC
    <3>2. UNCHANGED <<input, plan, at, attempt>>
      BY <2>17 DEF Bill
    <3>3. pc' \in [Requests -> PC] /\ WalkInv'
      <4>1. pc' = [pc EXCEPT ![r] = "observe"]
        BY <2>17 DEF Bill, Goto
      <4>2. QED
        BY <3>1, <3>2, <4>1, PcStep DEF PC
    <3>4. ledger' \in [Names -> Nat]
      BY <2>17, <3>1, <2>5 DEF Bill, TypeOK
    <3>5. TypeOK'
      BY <2>17, <3>3, <3>4 DEF Bill, TypeOK
    <3>6. QED
      BY <3>3, <3>5
  <2>18. ASSUME NEW r \in Requests, Observe(r) PROVE TypeOK' /\ WalkInv'
    <3>1. pc[r] \in Moving
      BY <2>18 DEF Observe, Goto, Moving, PC
    <3>2. UNCHANGED <<input, plan, at, attempt>>
      BY <2>18 DEF Observe
    <3>3. pc' \in [Requests -> PC] /\ WalkInv'
      <4>1. pc' = [pc EXCEPT ![r] = "publish"]
        BY <2>18 DEF Observe, Goto
      <4>2. QED
        BY <3>1, <3>2, <4>1, PcStep DEF PC
    <3>4. decisions' \in [Names -> Nat] /\ failovers' \in [Names -> Nat]
      <4>1. input[r].chosen \in Names
        BY DeliveryAssumption DEF TypeOK, InputType
      <4>2. decisions \in [Names -> Nat] /\ failovers \in [Names -> Nat]
        BY DEF TypeOK
      <4>3. decisions' \in [Names -> Nat]
        BY <2>18, <4>1, <4>2 DEF Observe
      <4>4. failovers' = [failovers EXCEPT ![input[r].chosen] = @ + 1]
            \/ failovers' = failovers
        BY <2>18 DEF Observe
      <4>5. QED
        BY <4>1, <4>2, <4>3, <4>4
    <3>5. TypeOK'
      BY <2>18, <3>3, <3>4 DEF Observe, TypeOK
    <3>6. QED
      BY <3>3, <3>5
  <2>19. ASSUME NEW r \in Requests, Publish(r) PROVE TypeOK' /\ WalkInv'
    <3>1. pc[r] \in Moving
      BY <2>19 DEF Publish, Goto, Moving, PC
    <3>2. UNCHANGED <<input, plan, at, attempt>>
      BY <2>19 DEF Publish
    <3>3. pc' \in [Requests -> PC] /\ WalkInv'
      <4>1. \E to \in {"won", "replied"} : pc' = [pc EXCEPT ![r] = to]
        BY <2>19 DEF Publish, Goto, Settle
      <4>2. QED
        BY <3>1, <3>2, <4>1, PcStep DEF PC
    <3>4. recent' \in Seq(Names \X Names) /\ reply' \in [Requests -> Replies]
      <4> DEFINE turn == <<input[r].chosen, Target(r)>>
                 longer == <<turn>> \o recent
      <4>1. turn \in Names \X Names
        <5>1. input[r].chosen \in Names
          BY DeliveryAssumption DEF TypeOK, InputType
        <5>2. QED
          BY <2>5, <3>1, <5>1
      <4>2. longer \in Seq(Names \X Names)
        <5>1. recent \in Seq(Names \X Names)
          BY DEF TypeOK
        <5>2. <<turn>> \in Seq(Names \X Names)
          BY <4>1
        <5> HIDE DEF turn
        <5>3. QED
          BY <5>1, <5>2, ConcatProperties
      <4>3. recent' = IF Len(longer) > RecentLimit
                      THEN SubSeq(longer, 1, RecentLimit) ELSE longer
        BY <2>19 DEF Publish
      <4>4. recent' \in Seq(Names \X Names)
        <5> HIDE DEF longer
        <5>1. \A i \in 1..Len(longer) : longer[i] \in Names \X Names
          BY <4>2, ElementOfSeq
        <5>2. Len(longer) \in Nat /\ RecentLimit \in Nat
          BY <4>2, LenProperties, DeliveryAssumption
        <5>3. Len(longer) > RecentLimit =>
                 SubSeq(longer, 1, RecentLimit) \in Seq(Names \X Names)
          BY <5>1, <5>2, SubSeqProperties
        <5>4. QED
          BY <4>2, <4>3, <5>3
      <4>5. reply' \in [Requests -> Replies]
        BY <2>19 DEF Publish, TypeOK, Replies
      <4>6. QED
        BY <4>4, <4>5
    <3>5. TypeOK'
      BY <2>19, <3>3, <3>4 DEF Publish, TypeOK
    <3>6. QED
      BY <3>3, <3>5
  <2>20. ASSUME NEW r \in Requests, StreamDone(r) PROVE TypeOK' /\ WalkInv'
    <3>1. pc[r] \in Moving
      BY <2>20 DEF StreamDone, Goto, Moving, PC
    <3>2. UNCHANGED <<input, plan, at, attempt>>
      BY <2>20 DEF StreamDone
    <3>3. pc' \in [Requests -> PC] /\ WalkInv'
      <4>1. \E to \in {"tail", "charge"} : pc' = [pc EXCEPT ![r] = to]
        BY <2>20 DEF StreamDone, Goto, Settle
      <4>2. QED
        BY <3>1, <3>2, <4>1, PcStep DEF PC
    <3>4. finished' \in [Requests -> BOOLEAN]
      BY <2>20, <3>1, <2>5 DEF StreamDone, TypeOK, Settle
    <3>5. TypeOK'
      BY <2>20, <3>3, <3>4 DEF StreamDone, TypeOK
    <3>6. QED
      BY <3>3, <3>5
  <2>21. ASSUME NEW r \in Requests, StreamEnd(r) PROVE TypeOK' /\ WalkInv'
    <3>1. pc[r] \in Moving
      BY <2>21 DEF StreamEnd, Goto, Moving, PC
    <3>2. UNCHANGED <<input, plan, at, attempt>>
      BY <2>21 DEF StreamEnd
    <3>3. pc' \in [Requests -> PC] /\ WalkInv'
      <4>1. \E to \in {"replied", "charge"} : pc' = [pc EXCEPT ![r] = to]
        BY <2>21 DEF StreamEnd, Goto, Settle
      <4>2. QED
        BY <3>1, <3>2, <4>1, PcStep DEF PC
    <3>4. finished' \in [Requests -> BOOLEAN] /\ ended' \in [Requests -> BOOLEAN]
      BY <2>21, <3>1, <2>5 DEF StreamEnd, TypeOK, Settle
    <3>5. TypeOK'
      BY <2>21, <3>3, <3>4 DEF StreamEnd, TypeOK
    <3>6. QED
      BY <3>3, <3>5
  <2>22. ASSUME NEW r \in Requests, StreamError(r) PROVE TypeOK' /\ WalkInv'
    <3>1. pc[r] \in Moving
      BY <2>22 DEF StreamError, Goto, Moving, PC
    <3>2. UNCHANGED <<input, plan, at, attempt>>
      BY <2>22 DEF StreamError
    <3>3. pc' \in [Requests -> PC] /\ WalkInv'
      <4>1. pc' = [pc EXCEPT ![r] = "broken"]
        BY <2>22 DEF StreamError, Goto
      <4>2. QED
        BY <3>1, <3>2, <4>1, PcStep DEF PC
    <3>4. errors' \in [Names -> Nat]
      BY <2>22, <3>1, <2>5 DEF StreamError, TypeOK, CountError
    <3>5. TypeOK'
      BY <2>22, <3>3, <3>4 DEF StreamError, TypeOK
    <3>6. QED
      BY <3>3, <3>5
  <2>23. ASSUME NEW r \in Requests, RecordBroken(r) PROVE TypeOK' /\ WalkInv'
    <3>1. pc[r] \in Moving
      BY <2>23 DEF RecordBroken, Goto, Moving, PC
    <3>2. UNCHANGED <<input, plan, at, attempt>>
      BY <2>23 DEF RecordBroken
    <3>3. pc' \in [Requests -> PC] /\ WalkInv'
      <4>1. pc' = [pc EXCEPT ![r] = "replied"]
        BY <2>23 DEF RecordBroken, Goto
      <4>2. QED
        BY <3>1, <3>2, <4>1, PcStep DEF PC
    <3>4. /\ fails' \in [Names -> Nat]
          /\ openedAt' \in [Names -> Nat \cup {Closed}]
          /\ verdicts' \in [Names -> Seq(Verdict)]
      BY <2>23, <3>1, <2>5, RecordType DEF RecordBroken, TypeOK
    <3>5. TypeOK'
      BY <2>23, <3>3, <3>4 DEF RecordBroken, TypeOK
    <3>6. QED
      BY <3>3, <3>5
  <2>24. ASSUME NEW r \in Requests, Drop(r) PROVE TypeOK' /\ WalkInv'
    <3>1. pc[r] \in Moving
      BY <2>24 DEF Drop, Goto, Moving, PC
    <3>2. UNCHANGED <<input, plan, at, attempt>>
      BY <2>24 DEF Drop
    <3>3. pc' \in [Requests -> PC] /\ WalkInv'
      <4>1. pc' = [pc EXCEPT ![r] = "dropped"]
        BY <2>24 DEF Drop, Goto
      <4>2. QED
        BY <3>1, <3>2, <4>1, PcStep DEF PC
    <3>5. TypeOK'
      BY <2>24, <3>3 DEF Drop, TypeOK
    <3>6. QED
      BY <3>3, <3>5
  <2>25. QED
    BY <2>1, <2>2, <2>3, <2>4, <2>6, <2>7, <2>8, <2>9, <2>10, <2>11, <2>12, <2>13, <2>14, <2>15, <2>16, <2>17, <2>18, <2>19, <2>20, <2>21, <2>22, <2>23, <2>24 DEF Next, Progress
<1>3. QED
  BY <1>1, <1>2, PTL DEF Spec

(* The state of every reachable delivery keeps its types: every position,   *)
(* target and verdict the handlers write is one of the request's own.       *)
THEOREM TypeCorrect == Spec => []TypeOK
BY TypeAndWalk, PTL

-----------------------------------------------------------------------------
(* The breaker.                                                             *)

(* Every step leaves the breaker alone or is one verdict on the target of a *)
(* request.                                                                 *)
LEMMA BreakerStep ==
    ASSUME TypeOK, WalkInv, [Next]_vars
    PROVE  \/ UNCHANGED breakerVars
           \/ \E r \in Requests, ok \in BOOLEAN :
                 /\ Target(r) \in Names
                 /\ Record(r, ok)
                 /\ now' = now
<1>1. ASSUME NEW r \in Requests, pc[r] \in Moving PROVE Target(r) \in Names
  BY <1>1, TargetIsName DEF Target, WalkInv, WalkOf
<1>2. CASE Tick \/ AllDone \/ UNCHANGED vars
  BY <1>2 DEF Tick, AllDone, vars
<1>3. ASSUME NEW r \in Requests, Arrive(r) \/ Progress(r) \/ Drop(r)
      PROVE  \/ UNCHANGED breakerVars
             \/ /\ pc[r] \in Moving
                /\ now' = now
                /\ \E ok \in BOOLEAN : Record(r, ok)
  <2>1. CASE Exhaust(r)
    BY <2>1 DEF Exhaust, Moving, PC
  <2>2. CASE RecordRefusal(r)
    BY <2>2 DEF RecordRefusal, Goto, Moving, PC
  <2>3. CASE Reject(r)
    BY <2>3 DEF Reject, Goto, Moving, PC
  <2>4. CASE Credit(r)
    BY <2>4 DEF Credit, Moving, PC
  <2>5. CASE RecordBroken(r)
    BY <2>5 DEF RecordBroken, Goto, Moving, PC
  <2>6. CASE Arrive(r) \/ Drop(r) \/ MakePlan(r) \/ FailAttempt(r) \/ WakeUp(r)
    BY <2>6 DEF Arrive, Drop, MakePlan, FailAttempt, WakeUp
  <2>7. CASE Win(r) \/ OpenStream(r) \/ Refuse(r) \/ LoseBody(r) \/ Charge(r)
    BY <2>7 DEF Win, OpenStream, Refuse, LoseBody, Charge
  <2>8. CASE Bill(r) \/ Observe(r) \/ Publish(r)
             \/ StreamDone(r) \/ StreamEnd(r) \/ StreamError(r)
    BY <2>8 DEF Bill, Observe, Publish, StreamDone, StreamEnd, StreamError
  <2>9. QED
    BY <1>3, <2>1, <2>2, <2>3, <2>4, <2>5, <2>6, <2>7, <2>8 DEF Progress
<1>4. QED
  BY <1>1, <1>2, <1>3 DEF Next

(* The last n entries of a list of verdicts are failures, and no more.      *)
StreakIn(s, n) ==
    /\ n <= Len(s)
    /\ \A i \in (Len(s) - n + 1)..Len(s) : ~s[i].ok
    /\ n < Len(s) => s[Len(s) - n].ok

LEMMA StreakGrows ==
    ASSUME NEW s \in Seq(Verdict), NEW v \in Verdict, NEW n \in Nat, StreakIn(s, n)
    PROVE  StreakIn(Append(s, v), IF v.ok THEN 0 ELSE n + 1)
<1>1. /\ Append(s, v) \in Seq(Verdict)
      /\ Len(Append(s, v)) = Len(s) + 1
      /\ \A i \in 1..Len(s) : Append(s, v)[i] = s[i]
      /\ Append(s, v)[Len(s) + 1] = v
  BY AppendProperties
<1>2. Len(s) \in Nat
  BY LenProperties
<1> DEFINE t == Append(s, v)
<1> HIDE DEF t
<1>3. CASE v.ok
  BY <1>1, <1>2, <1>3 DEF StreakIn, t
<1>4. CASE ~v.ok
  <2>1. n + 1 <= Len(t)
    BY <1>1, <1>2 DEF StreakIn, t
  <2>2. ASSUME NEW i \in (Len(t) - (n + 1) + 1)..Len(t) PROVE ~t[i].ok
    <3>1. CASE i = Len(s) + 1
      BY <1>1, <1>4, <3>1 DEF t
    <3>2. CASE i # Len(s) + 1
      <4>1. i \in (Len(s) - n + 1)..Len(s) /\ i \in 1..Len(s)
        BY <1>1, <1>2, <3>2 DEF t, StreakIn
      <4>2. QED
        BY <1>1, <4>1 DEF StreakIn, t
    <3>3. QED
      BY <3>1, <3>2
  <2>3. n + 1 < Len(t) => t[Len(t) - (n + 1)].ok
    <3>1. SUFFICES ASSUME n + 1 < Len(t) PROVE t[Len(t) - (n + 1)].ok
      OBVIOUS
    <3>2. Len(t) - (n + 1) = Len(s) - n /\ n < Len(s) /\ Len(s) - n \in 1..Len(s)
      BY <1>1, <1>2, <3>1 DEF t
    <3>3. QED
      BY <1>1, <3>2 DEF StreakIn, t
  <2>4. QED
    BY <1>4, <2>1, <2>2, <2>3 DEF StreakIn, t
<1>5. QED
  BY <1>3, <1>4

LEMMA BreakerInvariant == Spec => [](TypeOK /\ WalkInv /\ BreakerTracksStreak)
<1>1. Init => BreakerTracksStreak
  <2> SUFFICES ASSUME Init, NEW m \in Names
               PROVE  /\ FailureStreak(m, fails[m])
                      /\ openedAt[m] = Closed
                      /\ ~(fails[m] >= TripAt)
    BY DEF BreakerTracksStreak
  <2>1. fails[m] = 0 /\ openedAt[m] = Closed /\ verdicts[m] = << >>
    BY DEF Init
  <2>2. Len(verdicts[m]) = 0
    BY <2>1, EmptySeq
  <2>3. FailureStreak(m, fails[m])
    BY <2>1, <2>2 DEF FailureStreak
  <2>4. TripAt \in Nat \ {0}
    BY ReliabilityAssumption DEF TripAt
  <2>5. QED
    BY <2>1, <2>3, <2>4
<1>2. TypeOK /\ WalkInv /\ [Next]_vars /\ BreakerTracksStreak => BreakerTracksStreak'
  <2> SUFFICES ASSUME TypeOK, WalkInv, [Next]_vars, BreakerTracksStreak,
                      NEW m \in Names
               PROVE  /\ FailureStreak(m, fails[m])'
                      /\ (openedAt[m] # Closed <=> fails[m] >= TripAt)'
                      /\ (openedAt[m] # Closed =>
                            openedAt[m] = verdicts[m][Len(verdicts[m])].time)'
    BY DEF BreakerTracksStreak
  <2>1. /\ FailureStreak(m, fails[m])
        /\ openedAt[m] # Closed <=> fails[m] >= TripAt
        /\ openedAt[m] # Closed => openedAt[m] = verdicts[m][Len(verdicts[m])].time
    BY DEF BreakerTracksStreak
  <2>2. CASE UNCHANGED <<fails[m], openedAt[m], verdicts[m]>>
    BY <2>1, <2>2 DEF FailureStreak
  <2>3. ASSUME NEW r \in Requests, NEW ok \in BOOLEAN,
               m = Target(r), Record(r, ok)
        PROVE  /\ FailureStreak(m, fails[m])'
               /\ (openedAt[m] # Closed <=> fails[m] >= TripAt)'
               /\ (openedAt[m] # Closed =>
                     openedAt[m] = verdicts[m][Len(verdicts[m])].time)'
    <3> DEFINE v == [by |-> r, ok |-> ok, time |-> now]
    <3>1. v \in Verdict /\ v.ok = ok /\ v.time = now /\ now \in Nat
      BY DEF Verdict, TypeOK
    <3>2. verdicts[m] \in Seq(Verdict) /\ fails[m] \in Nat
      BY DEF TypeOK
    <3>3. /\ verdicts'[m] = Append(verdicts[m], v)
          /\ fails'[m] = IF ok THEN 0 ELSE fails[m] + 1
          /\ openedAt'[m] = IF ok THEN Closed
                            ELSE IF fails[m] + 1 >= TripAt THEN now ELSE openedAt[m]
      BY <2>3 DEF Record, FailsAfter, OpenedAfter, TypeOK
    <3> HIDE DEF v
    <3>4. StreakIn(verdicts[m], fails[m])
      BY <2>1 DEF FailureStreak, StreakIn
    <3>5. StreakIn(verdicts'[m], fails'[m])
      BY <3>1, <3>2, <3>3, <3>4, StreakGrows
    <3>6. FailureStreak(m, fails[m])'
      BY <3>5 DEF FailureStreak, StreakIn
    <3>7. TripAt \in Nat \ {0} /\ now # Closed
      BY <3>1, ReliabilityAssumption DEF TripAt, Closed
    <3>8. (openedAt[m] # Closed <=> fails[m] >= TripAt)'
      BY <2>1, <3>2, <3>3, <3>7
    <3>9. verdicts'[m][Len(verdicts'[m])] = v
      BY <3>1, <3>2, <3>3, AppendProperties, LenProperties
    <3>10. (openedAt[m] # Closed =>
              openedAt[m] = verdicts[m][Len(verdicts[m])].time)'
      BY <2>1, <3>1, <3>2, <3>3, <3>7, <3>9
    <3>11. QED
      BY <3>6, <3>8, <3>10
  <2>4. ASSUME NEW r \in Requests, NEW ok \in BOOLEAN,
               m # Target(r), Record(r, ok)
        PROVE  UNCHANGED <<fails[m], openedAt[m], verdicts[m]>>
    BY <2>4 DEF Record, FailsAfter, OpenedAfter, TypeOK
  <2>5. UNCHANGED breakerVars => UNCHANGED <<fails[m], openedAt[m], verdicts[m]>>
    BY DEF breakerVars
  <2>6. QED
    BY <2>2, <2>3, <2>4, <2>5, BreakerStep
<1>3. QED
  BY <1>1, <1>2, TypeAndWalk, PTL DEF Spec

(* CircuitBreaker::record: whatever requests report in whatever order, a    *)
(* target's breaker is open exactly when its last verdicts were failures, as*)
(* many as it takes, and it dates from the last of them.                    *)
THEOREM BreakerFollowsTheStreak == Spec => []BreakerTracksStreak
BY BreakerInvariant, PTL

-----------------------------------------------------------------------------
(* Plans are snapshots.                                                     *)

(* What a step may do to the plan of a request: nothing, take the stamp of  *)
(* one not yet made, or make it from the breaker as it stands.              *)
LEMMA PlanStep ==
    ASSUME TypeOK, WalkInv, [Next]_vars
    PROVE  /\ input' = input
           /\ now' >= now
           /\ \A q \in Requests :
                 \/ plan'[q] = plan[q] /\ stamp'[q] = stamp[q]
                 \/ plan'[q] = {} /\ stamp'[q] = now
                 \/ /\ plan'[q] = DeliveryPlan(input[q], openedAt, stamp[q])
                    /\ stamp'[q] = stamp[q]
                    /\ UNCHANGED breakerVars
<1> USE DEF walkVars, inputVars
<1>1. /\ now \in Nat
      /\ plan \in [Requests -> SUBSET (Nat \ {0})]
      /\ stamp \in [Requests -> Nat]
  BY DEF TypeOK
<1>2. CASE Tick
  BY <1>1, <1>2 DEF Tick
<1>3. CASE AllDone \/ UNCHANGED vars
  BY <1>1, <1>3 DEF AllDone, vars
<1>4. ASSUME NEW r \in Requests, Arrive(r)
      PROVE  /\ input' = input /\ now' = now /\ plan' = plan
             /\ plan[r] = {}
             /\ \/ stamp' = stamp
                \/ stamp' = [stamp EXCEPT ![r] = now]
  <2>1. plan[r] = {}
    BY <1>4 DEF Arrive, WalkInv, WalkOf
  <2>2. QED
    BY <1>4, <2>1 DEF Arrive
<1>5. ASSUME NEW r \in Requests, MakePlan(r)
      PROVE  /\ input' = input /\ now' = now /\ stamp' = stamp
             /\ UNCHANGED breakerVars
             /\ plan' = [plan EXCEPT ![r] =
                           DeliveryPlan(input[r], openedAt, stamp[r])]
  BY <1>5 DEF MakePlan
<1>6. ASSUME NEW r \in Requests, Progress(r) \/ Drop(r), ~MakePlan(r)
      PROVE  input' = input /\ now' = now /\ stamp' = stamp /\ plan' = plan
  <2>1. CASE FailAttempt(r) \/ WakeUp(r) \/ Exhaust(r) \/ Win(r) \/ OpenStream(r)
    BY <2>1 DEF FailAttempt, WakeUp, Exhaust, Win, OpenStream
  <2>2. CASE Refuse(r) \/ RecordRefusal(r) \/ Reject(r) \/ LoseBody(r) \/ Drop(r)
    BY <2>2 DEF Refuse, RecordRefusal, Reject, LoseBody, Drop
  <2>3. CASE Credit(r) \/ Charge(r) \/ Bill(r) \/ Observe(r) \/ Publish(r)
    BY <2>3 DEF Credit, Charge, Bill, Observe, Publish
  <2>4. CASE StreamDone(r) \/ StreamEnd(r) \/ StreamError(r) \/ RecordBroken(r)
    BY <2>4 DEF StreamDone, StreamEnd, StreamError, RecordBroken
  <2>5. QED
    BY <1>6, <2>1, <2>2, <2>3, <2>4 DEF Progress
<1>7. CASE \E r \in Requests : Arrive(r)
  BY <1>1, <1>4, <1>7
<1>8. CASE \E r \in Requests : MakePlan(r)
  BY <1>1, <1>5, <1>8
<1>9. CASE \E r \in Requests : (Progress(r) \/ Drop(r)) /\ ~MakePlan(r)
  BY <1>1, <1>6, <1>9
<1>10. QED
  BY <1>2, <1>3, <1>7, <1>8, <1>9 DEF Next, Progress

(* A stamp is never ahead of the clock.                                     *)
StampsArePast == \A r \in Requests : stamp[r] <= now

LEMMA SnapshotInvariant ==
    Spec => [](TypeOK /\ WalkInv /\ StampsArePast /\ OpenOnlyBehindItsBack)
<1>1. Init => StampsArePast /\ OpenOnlyBehindItsBack
  BY DEF Init, StampsArePast, OpenOnlyBehindItsBack
<1>2. ASSUME TypeOK, TypeOK', WalkInv, StampsArePast, OpenOnlyBehindItsBack, [Next]_vars
      PROVE  StampsArePast' /\ OpenOnlyBehindItsBack'
  <2>1. /\ now \in Nat /\ now' \in Nat
        /\ stamp \in [Requests -> Nat] /\ stamp' \in [Requests -> Nat]
        /\ \A m \in Names : openedAt[m] \in Nat \cup {Closed}
    BY <1>2 DEF TypeOK
  <2>2. /\ input' = input
        /\ now' >= now
        /\ \A q \in Requests :
              \/ plan'[q] = plan[q] /\ stamp'[q] = stamp[q]
              \/ plan'[q] = {} /\ stamp'[q] = now
              \/ /\ plan'[q] = DeliveryPlan(input[q], openedAt, stamp[q])
                 /\ stamp'[q] = stamp[q]
                 /\ UNCHANGED breakerVars
    BY <1>2, PlanStep
  <2>3. StampsArePast'
    <3> SUFFICES ASSUME NEW q \in Requests PROVE stamp'[q] <= now'
      BY DEF StampsArePast
    <3>1. stamp[q] <= now /\ stamp[q] \in Nat
      BY <1>2, <2>1 DEF StampsArePast
    <3>2. stamp'[q] = stamp[q] \/ stamp'[q] = now
      BY <2>2
    <3>3. QED
      BY <2>1, <2>2, <3>1, <3>2
  <2>4. ASSUME NEW m \in Names
        PROVE  openedAt'[m] = openedAt[m] \/ openedAt'[m] = Closed \/ openedAt'[m] = now
    <3>1. openedAt \in [Names -> Nat \cup {Closed}]
      BY <1>2 DEF TypeOK
    <3>2. ASSUME NEW r \in Requests, NEW ok \in BOOLEAN, Record(r, ok)
          PROVE  openedAt'[m] = openedAt[m] \/ openedAt'[m] = Closed \/ openedAt'[m] = now
      BY <3>1, <3>2 DEF Record, OpenedAfter
    <3>3. QED
      BY <1>2, <3>2, BreakerStep DEF breakerVars
  <2>5. ASSUME NEW q \in Requests, NEW i \in plan'[q]
        PROVE  \/ openedAt'[Targets(q)[i]] = Closed
               \/ stamp'[q] <= openedAt'[Targets(q)[i]]
               \/ stamp'[q] - openedAt'[Targets(q)[i]] >= Cooldown
    <3> DEFINE m == Targets(q)[i]
    <3>1. CASE plan'[q] = plan[q] /\ stamp'[q] = stamp[q]
      <4>1. m \in Names
        BY <1>2, <2>5, <3>1, TargetIsName DEF WalkInv
      <4>2. \/ openedAt[m] = Closed
            \/ stamp[q] <= openedAt[m]
            \/ stamp[q] - openedAt[m] >= Cooldown
        BY <1>2, <2>5, <3>1 DEF OpenOnlyBehindItsBack
      <4>3. openedAt'[m] = openedAt[m] \/ openedAt'[m] = Closed \/ openedAt'[m] = now
        BY <2>4, <4>1
      <4>4. stamp[q] <= now
        BY <1>2 DEF StampsArePast
      <4>5. QED
        BY <3>1, <4>2, <4>3, <4>4
    <3>2. CASE plan'[q] = {}
      BY <2>5, <3>2
    <3>3. CASE /\ plan'[q] = DeliveryPlan(input[q], openedAt, stamp[q])
               /\ stamp'[q] = stamp[q]
               /\ UNCHANGED breakerVars
      <4>1. Allow(openedAt, m, stamp[q])
        BY <2>5, <3>3 DEF DeliveryPlan, Targets
      <4>2. openedAt' = openedAt
        BY <3>3 DEF breakerVars
      <4>3. QED
        BY <3>3, <4>1, <4>2 DEF Allow
    <3>4. QED
      BY <2>2, <3>1, <3>2, <3>3
  <2>6. OpenOnlyBehindItsBack'
    BY <2>2, <2>5 DEF OpenOnlyBehindItsBack, Targets
  <2>7. QED
    BY <2>3, <2>6
<1>3. QED
  BY <1>1, <1>2, TypeAndWalk, PTL DEF Spec

(* delivery_plan_for: a request that still means to visit an open target    *)
(* made its plan before the breaker opened or after the cooldown.           *)
THEOREM OpenTargetsNeedAnOldPlan == Spec => []OpenOnlyBehindItsBack
BY SnapshotInvariant, PTL

-----------------------------------------------------------------------------
(* Verdicts.                                                                *)

(* The plan of a request names no target twice.                             *)
PlansAreDistinct ==
    \A r \in Requests : \A i, j \in plan[r] :
        Targets(r)[i] = Targets(r)[j] => i = j

(* A turn that is being settled, or a stream behind it, is finished.        *)
SettledIsFinished ==
    \A r \in Requests : pc[r] \in Settling \cup {"tail"} => finished[r]

(* The target a request stands at has had its success reported.             *)
Credited(r) ==
    \/ ~input[r].stream /\ pc[r] \in {"charge", "bill", "observe", "publish"}
    \/ input[r].stream /\ pc[r] \in {"tail", "broken"}

(* Where a request that moves stands when a verdict of its own exists: it   *)
(* has passed that target, or stands at it and credited it.                 *)
Placed(m, v) ==
    LET r == v.by
    IN  /\ pc[r] \notin {"idle", "planning"}
        /\ pc[r] \in Moving =>
              \/ \E k \in plan[r] : k < at[r] /\ Targets(r)[k] = m
              \/ m = Target(r) /\ v.ok /\ Credited(r)

VerdictsPlaced ==
    \A m \in Names : \A i \in DOMAIN verdicts[m] : Placed(m, verdicts[m][i])

(* A request that has not set out yet takes a step.                         *)
SetsOut(r) ==
    /\ pc[r] \in {"idle", "planning"}
    /\ UNCHANGED breakerVars

(* A request moves without a verdict.                                       *)
StaysQuiet(r) ==
    /\ pc[r] \in Moving
    /\ pc'[r] \notin {"idle", "planning"}
    /\ UNCHANGED <<plan, at, breakerVars>>
    /\ Credited(r) /\ pc'[r] \in Moving => Credited(r)'

(* A request reports on its target.                                         *)
Reports(r, ok) ==
    /\ pc[r] \in Moving
    /\ pc'[r] \notin {"idle", "planning"}
    /\ plan' = plan
    /\ Record(r, ok)
    /\ Credited(r) => ~ok /\ input[r].stream
    /\ \/ pc'[r] \notin Moving /\ at' = at
       \/ ok /\ Credited(r)' /\ at' = at
       \/ at'[r] > at[r]

(* Where the walk goes on, it goes on at a later position.                  *)
LEMMA MoveOnForward ==
    ASSUME TypeOK, NEW r \in Requests, NEW positions \in SUBSET (DOMAIN Targets(r)),
           NEW i \in Nat, MoveOn(r, positions, i)
    PROVE  \/ pc'[r] = "replied" /\ at' = at
           \/ at'[r] > i
<1>1. pc \in [Requests -> PC] /\ at \in [Requests -> Nat]
  BY DEF TypeOK
<1>2. CASE pc' = [pc EXCEPT ![r] = "replied"] /\ UNCHANGED <<at, attempt, calls>>
  BY <1>1, <1>2
<1>3. ASSUME NEW j \in Ahead(r, positions, i), at' = [at EXCEPT ![r] = j]
      PROVE  at'[r] > i
  BY <1>1, <1>3 DEF Ahead
<1>4. QED
  BY <1>2, <1>3 DEF MoveOn

(* Every step of a request is of one of the three kinds.                    *)
LEMMA StepKinds ==
    ASSUME TypeOK, WalkInv, SettledIsFinished, NEW r \in Requests,
           Arrive(r) \/ Progress(r) \/ Drop(r)
    PROVE  /\ \A q \in Requests \ {r} :
                 pc'[q] = pc[q] /\ at'[q] = at[q] /\ plan'[q] = plan[q]
           /\ \/ SetsOut(r)
              \/ StaysQuiet(r)
              \/ \E ok \in BOOLEAN : Reports(r, ok)
<1> USE DEF walkVars, inputVars
<1> DEFINE OthersStay == \A q \in Requests \ {r} :
                            pc'[q] = pc[q] /\ at'[q] = at[q] /\ plan'[q] = plan[q]
<1>1. pc \in [Requests -> PC] /\ plan \in [Requests -> SUBSET (Nat \ {0})]
      /\ at \in [Requests -> Nat]
  BY DEF TypeOK
<1>2. input[r] \in InputType
  BY DeliveryAssumption DEF TypeOK
<1>3. ASSUME pc[r] = "planning" \/ pc[r] \in Moving
      PROVE  Targets(r) \in Seq(Names) /\ plan[r] \in SUBSET (DOMAIN Targets(r))
  <2>1. WalkOf(r)
    BY DEF WalkInv
  <2>2. DeliverFrom(input[r]) \in Configured
    BY <1>3, <2>1 DEF WalkOf
  <2>3. QED
    BY <1>2, <2>1, <2>2, TargetsAreNames DEF WalkOf, Targets
<1>4. CASE Arrive(r)
  <2>1. OthersStay
    BY <1>1, <1>4 DEF Arrive
  <2>2. SetsOut(r)
    BY <1>4 DEF Arrive, SetsOut
  <2>3. QED
    BY <2>1, <2>2
<1>5. CASE MakePlan(r)
  <2> DEFINE positions == DeliveryPlan(input[r], openedAt, stamp[r])
  <2>1. pc[r] = "planning" /\ UNCHANGED breakerVars
        /\ plan' = [plan EXCEPT ![r] = positions]
    BY <1>5 DEF MakePlan
  <2>2. positions \in SUBSET (DOMAIN Targets(r))
    BY DEF DeliveryPlan, Targets
  <2>3. \A q \in Requests \ {r} : pc'[q] = pc[q] /\ at'[q] = at[q]
    <3>1. CASE MoveOn(r, positions, 0)
      BY <1>3, <2>1, <2>2, <3>1, MoveOnWithin
    <3>2. CASE pc' = [pc EXCEPT ![r] = "replied"] /\ UNCHANGED <<at, attempt, calls>>
      BY <1>1, <3>2
    <3>3. QED
      BY <1>5, <3>1, <3>2 DEF MakePlan
  <2>4. QED
    BY <1>1, <2>1, <2>3 DEF SetsOut
<1>6. CASE Exhaust(r)
  <2>1. pc[r] = "exhausted" /\ plan' = plan /\ Record(r, FALSE)
        /\ MoveOn(r, plan[r], at[r])
    BY <1>6 DEF Exhaust
  <2>2. pc[r] \in Moving /\ ~Credited(r)
    BY <2>1 DEF Moving, PC, Credited
  <2>3. /\ \A q \in Requests \ {r} : pc'[q] = pc[q] /\ at'[q] = at[q]
        /\ pc'[r] \in {"flight", "replied"}
    BY <1>1, <1>3, <2>1, <2>2, MoveOnWithin
  <2>4. \/ pc'[r] = "replied" /\ at' = at
        \/ at'[r] > at[r]
    BY <1>1, <1>3, <2>1, <2>2, MoveOnForward
  <2>5. Reports(r, FALSE)
    BY <2>1, <2>2, <2>3, <2>4 DEF Reports, Moving
  <2>6. QED
    BY <2>1, <2>3, <2>5
<1>7. CASE FailAttempt(r) \/ WakeUp(r) \/ Win(r) \/ OpenStream(r) \/ Refuse(r) \/ LoseBody(r)
  <2>1. /\ pc[r] \in {"flight", "backoff"}
        /\ UNCHANGED <<plan, at, breakerVars>>
        /\ \E to \in PC \ {"idle", "planning"} : pc' = [pc EXCEPT ![r] = to]
    <3> "flight" \in PC /\ "backoff" \in PC /\ "exhausted" \in PC /\ "won" \in PC
        /\ "open" \in PC /\ "refused" \in PC /\ "replied" \in PC
      BY DEF PC
    <3>1. CASE FailAttempt(r)
      BY <3>1 DEF FailAttempt
    <3>2. CASE WakeUp(r) \/ Win(r) \/ OpenStream(r)
      BY <3>2 DEF WakeUp, Win, OpenStream, Goto
    <3>3. CASE Refuse(r) \/ LoseBody(r)
      BY <3>3 DEF Refuse, LoseBody, Goto
    <3>4. QED
      BY <1>7, <3>1, <3>2, <3>3
  <2>2. OthersStay
    BY <1>1, <2>1
  <2>3. StaysQuiet(r)
    BY <1>1, <2>1 DEF StaysQuiet, Moving, PC, Credited
  <2>4. QED
    BY <2>2, <2>3
<1>8. CASE RecordRefusal(r) \/ Reject(r) \/ RecordBroken(r)
  <2>1. /\ pc' = [pc EXCEPT ![r] = "replied"]
        /\ UNCHANGED <<plan, at>>
        /\ \E ok \in BOOLEAN :
              /\ Record(r, ok)
              /\ pc[r] \in {"refused", "flight"} \/ (pc[r] = "broken" /\ ~ok)
    <3>1. CASE RecordRefusal(r)
      BY <3>1 DEF RecordRefusal, Goto
    <3>2. CASE Reject(r)
      BY <3>2 DEF Reject, Goto
    <3>3. CASE RecordBroken(r)
      BY <3>3 DEF RecordBroken, Goto
    <3>4. QED
      BY <1>8, <3>1, <3>2, <3>3
  <2>2. OthersStay
    BY <1>1, <2>1
  <2>3. PICK ok \in BOOLEAN :
              /\ Record(r, ok)
              /\ pc[r] \in {"refused", "flight"} \/ (pc[r] = "broken" /\ ~ok)
    BY <2>1
  <2>4. Credited(r) => ~ok /\ input[r].stream
    BY <2>3 DEF Credited
  <2>5. Reports(r, ok)
    BY <1>1, <2>1, <2>3, <2>4 DEF Reports, Moving, PC
  <2>6. QED
    BY <2>2, <2>5
<1>9. CASE Credit(r)
  <2>1. /\ pc[r] = "won" /\ Record(r, TRUE) /\ UNCHANGED <<plan, at, input>>
        /\ pc' = [pc EXCEPT ![r] = IF ~input[r].stream THEN "charge"
                                   ELSE IF ended[r] THEN "replied" ELSE "tail"]
    BY <1>9 DEF Credit
  <2>2. OthersStay
    BY <1>1, <2>1
  <2>3. ~Credited(r)
    BY <2>1 DEF Credited
  <2>4. pc'[r] = "replied" \/ Credited(r)'
    BY <1>1, <2>1 DEF Credited
  <2>5. pc[r] \in Moving /\ pc'[r] \notin {"idle", "planning"}
    BY <1>1, <2>1 DEF Moving, PC
  <2>6. Reports(r, TRUE)
    BY <2>1, <2>3, <2>4, <2>5 DEF Reports, Moving
  <2>7. QED
    BY <2>2, <2>6
<1>10. CASE Charge(r) \/ Bill(r) \/ Observe(r) \/ Publish(r)
  <2>1. /\ UNCHANGED <<plan, at, input, breakerVars>>
        /\ \/ pc[r] = "charge" /\ pc' = [pc EXCEPT ![r] = "bill"]
           \/ pc[r] = "bill" /\ pc' = [pc EXCEPT ![r] = "observe"]
           \/ pc[r] = "observe" /\ pc' = [pc EXCEPT ![r] = "publish"]
           \/ /\ pc[r] = "publish"
              /\ pc' = [pc EXCEPT ![r] = IF input[r].stream THEN "won" ELSE "replied"]
    BY <1>10 DEF Charge, Bill, Observe, Publish, Goto
  <2>2. OthersStay
    BY <1>1, <2>1
  <2>3. StaysQuiet(r)
    BY <1>1, <2>1 DEF StaysQuiet, Moving, PC, Credited
  <2>4. QED
    BY <2>2, <2>3
<1>11. CASE StreamDone(r) \/ StreamEnd(r) \/ StreamError(r) \/ Drop(r)
  <2>1. /\ UNCHANGED <<plan, at, input, breakerVars>>
        /\ pc[r] \in {"open", "tail", "flight", "backoff"}
        /\ \/ pc' = [pc EXCEPT ![r] = IF finished[r] THEN "tail" ELSE "charge"]
           \/ pc' = [pc EXCEPT ![r] = IF finished[r] THEN "replied" ELSE "charge"]
           \/ pc' = [pc EXCEPT ![r] = "broken"]
           \/ pc' = [pc EXCEPT ![r] = "dropped"]
    BY <1>11 DEF StreamDone, StreamEnd, StreamError, Drop, Settle
  <2>2. OthersStay
    BY <1>1, <2>1
  <2>3. pc[r] = "tail" => finished[r]
    BY DEF SettledIsFinished
  <2>4. Credited(r) => pc[r] = "tail" /\ input[r].stream
    BY <2>1 DEF Credited
  <2>5. Credited(r) => pc'[r] \in {"tail", "replied", "broken", "dropped"}
    BY <1>1, <2>1, <2>3, <2>4
  <2>6. Credited(r) /\ pc'[r] \in Moving => Credited(r)'
    BY <2>1, <2>4, <2>5 DEF Credited, Moving
  <2>7. pc[r] \in Moving /\ pc'[r] \notin {"idle", "planning"}
    BY <1>1, <2>1 DEF Moving, PC
  <2>8. QED
    BY <2>1, <2>2, <2>6, <2>7 DEF StaysQuiet
<1>12. QED
  BY <1>4, <1>5, <1>6, <1>7, <1>8, <1>9, <1>10, <1>11 DEF Progress

LEMMA PlacedStays ==
    ASSUME TypeOK, TypeOK', WalkInv, NEW r \in Requests, input' = input,
           \A q \in Requests \ {r} :
              pc'[q] = pc[q] /\ at'[q] = at[q] /\ plan'[q] = plan[q],
           \/ SetsOut(r)
           \/ StaysQuiet(r)
           \/ \E ok \in BOOLEAN : Reports(r, ok),
           NEW m \in Names, NEW v \in Verdict, Placed(m, v)
    PROVE  Placed(m, v)'
<1>1. v.by \in Requests
  BY DEF Verdict
<1>2. CASE v.by # r
  BY <1>1, <1>2 DEF Placed, Target, Targets, Credited
<1>3. CASE v.by = r /\ SetsOut(r)
  BY <1>3 DEF Placed, SetsOut
<1>4. CASE v.by = r /\ StaysQuiet(r)
  BY <1>4 DEF Placed, StaysQuiet, Target, Targets
<1>5. ASSUME v.by = r, NEW ok \in BOOLEAN, Reports(r, ok)
      PROVE  Placed(m, v)'
  <2>1. /\ pc[r] \in Moving /\ pc'[r] \notin {"idle", "planning"} /\ plan' = plan
        /\ Credited(r) => ~ok
        /\ \/ pc'[r] \notin Moving /\ at' = at
           \/ ok /\ Credited(r)' /\ at' = at
           \/ at'[r] > at[r]
    BY <1>5 DEF Reports
  <2>2. at[r] \in plan[r] /\ plan[r] \in SUBSET (Nat \ {0})
    BY <2>1 DEF WalkInv, WalkOf, TypeOK
  <2>3. CASE pc'[r] \notin Moving
    BY <1>5, <2>1, <2>3 DEF Placed
  <2>4. CASE pc'[r] \in Moving /\ m = Target(r) /\ v.ok /\ Credited(r)
    <3>1. at'[r] > at[r]
      BY <2>1, <2>4
    <3>2. at[r] \in plan'[r] /\ at[r] < at'[r] /\ Targets(r)'[at[r]] = m
      BY <2>1, <2>2, <2>4, <3>1 DEF Target, Targets
    <3>3. QED
      BY <1>5, <2>1, <3>2 DEF Placed
  <2>5. CASE pc'[r] \in Moving /\ \E k \in plan[r] : k < at[r] /\ Targets(r)[k] = m
    <3>1. PICK k \in plan[r] : k < at[r] /\ Targets(r)[k] = m
      BY <2>5
    <3>2. k \in Nat /\ at[r] \in Nat /\ at'[r] \in Nat
      BY <2>2 DEF TypeOK
    <3>3. k < at'[r] \/ (at' = at /\ k < at[r])
      BY <2>1, <2>5, <3>1, <3>2
    <3>4. QED
      BY <1>5, <2>1, <3>1, <3>3 DEF Placed, Targets
  <2>6. QED
    BY <1>5, <2>1, <2>3, <2>4, <2>5 DEF Placed
<1>6. QED
  BY <1>2, <1>3, <1>4, <1>5

(* The position a request stands at after a verdict has been passed, or the *)
(* verdict was a success it goes on from.                                   *)
LEMMA PlacedNew ==
    ASSUME TypeOK, TypeOK', WalkInv, input' = input, NEW r \in Requests, NEW ok \in BOOLEAN,
           Reports(r, ok), NEW v \in Verdict, v.by = r, v.ok = ok,
           NEW m \in Names, m = Target(r)
    PROVE  Placed(m, v)'
<1>1. /\ pc[r] \in Moving /\ pc'[r] \notin {"idle", "planning"} /\ plan' = plan
      /\ \/ pc'[r] \notin Moving /\ at' = at
         \/ ok /\ Credited(r)' /\ at' = at
         \/ at'[r] > at[r]
  BY DEF Reports
<1>2. at[r] \in plan[r]
  BY <1>1 DEF WalkInv, WalkOf
<1>3. CASE pc'[r] \notin Moving
  BY <1>1, <1>3 DEF Placed
<1>4. CASE ok /\ Credited(r)' /\ at' = at
  BY <1>1, <1>4 DEF Placed, Target, Targets
<1>5. CASE at'[r] > at[r]
  <2>1. at[r] \in plan'[r] /\ Targets(r)'[at[r]] = m
    BY <1>1, <1>2 DEF Target, Targets
  <2>2. at[r] \in Nat /\ at'[r] \in Nat
    BY DEF TypeOK
  <2>3. at[r] < at'[r]
    BY <1>5, <2>2
  <2>4. \E k \in plan'[r] : k < at'[r] /\ Targets(r)'[k] = m
    BY <2>1, <2>3
  <2>5. QED
    BY <1>1, <2>4 DEF Placed
<1>6. QED
  BY <1>1, <1>3, <1>4, <1>5

LEMMA FinishedStep ==
    ASSUME TypeOK, SettledIsFinished, [Next]_vars
    PROVE  SettledIsFinished'
<1> SUFFICES ASSUME NEW q \in Requests, pc'[q] \in Settling \cup {"tail"}
             PROVE  finished'[q]
  BY DEF SettledIsFinished
<1>1. pc \in [Requests -> PC] /\ finished \in [Requests -> BOOLEAN]
  BY DEF TypeOK
<1>2. pc[q] \in Settling \cup {"tail"} => finished[q]
  BY DEF SettledIsFinished
<1>3. CASE pc'[q] = pc[q] /\ finished'[q] = finished[q]
  BY <1>2, <1>3
<1>4. CASE Tick \/ AllDone \/ UNCHANGED vars
  BY <1>2, <1>4 DEF Tick, AllDone, vars
<1>5. ASSUME NEW r \in Requests, Arrive(r) \/ MakePlan(r)
      PROVE  finished'[q]
  <2>1. finished' = finished
    BY <1>5 DEF Arrive, MakePlan
  <2>2. pc'[q] = pc[q] \/ pc'[q] \in {"planning", "replied", "flight"}
    <3>1. CASE Arrive(r)
      BY <1>1, <3>1 DEF Arrive
    <3>2. CASE MakePlan(r)
      BY <1>1, <3>2 DEF MakePlan, MoveOn
    <3>3. QED
      BY <1>5, <3>1, <3>2
  <2>3. QED
    BY <1>2, <2>1, <2>2 DEF Settling
<1>6. ASSUME NEW r \in Requests, Exhaust(r)
      PROVE  finished'[q]
  <2>1. finished' = finished
    BY <1>6 DEF Exhaust
  <2>2. pc'[q] = pc[q] \/ pc'[q] \in {"replied", "flight"}
    BY <1>1, <1>6 DEF Exhaust, MoveOn
  <2>3. QED
    BY <1>2, <2>1, <2>2 DEF Settling
<1>7. ASSUME NEW r \in Requests,
             \/ FailAttempt(r) \/ WakeUp(r) \/ OpenStream(r)
             \/ Refuse(r) \/ RecordRefusal(r) \/ Reject(r) \/ LoseBody(r)
             \/ StreamError(r) \/ RecordBroken(r) \/ Drop(r)
      PROVE  finished'[q]
  <2>1. /\ finished' = finished
        /\ \E to \in {"backoff", "exhausted", "flight", "open", "refused",
                      "replied", "broken", "dropped"} : pc' = [pc EXCEPT ![r] = to]
    <3>1. CASE FailAttempt(r) \/ WakeUp(r) \/ OpenStream(r)
      BY <3>1 DEF FailAttempt, WakeUp, OpenStream, Goto
    <3>2. CASE Refuse(r) \/ RecordRefusal(r) \/ Reject(r) \/ LoseBody(r)
      BY <3>2 DEF Refuse, RecordRefusal, Reject, LoseBody, Goto
    <3>3. CASE StreamError(r) \/ RecordBroken(r) \/ Drop(r)
      BY <3>3 DEF StreamError, RecordBroken, Drop, Goto
    <3>4. QED
      BY <1>7, <3>1, <3>2, <3>3
  <2>2. QED
    BY <1>1, <1>2, <2>1 DEF Settling
<1>8. ASSUME NEW r \in Requests, Win(r) \/ StreamDone(r) \/ StreamEnd(r)
      PROVE  finished'[q]
  <2>1. finished' = [finished EXCEPT ![r] = TRUE]
    BY <1>8 DEF Win, StreamDone, StreamEnd, Settle
  <2>2. q # r => pc'[q] = pc[q]
    BY <1>1, <1>8 DEF Win, StreamDone, StreamEnd, Settle, Goto
  <2>3. QED
    BY <1>1, <1>2, <2>1, <2>2
<1>9. ASSUME NEW r \in Requests,
             Credit(r) \/ Charge(r) \/ Bill(r) \/ Observe(r) \/ Publish(r)
      PROVE  finished'[q]
  <2>1. /\ finished' = finished
        /\ pc[r] \in Settling
        /\ q # r => pc'[q] = pc[q]
    <3>1. CASE Credit(r)
      BY <1>1, <3>1 DEF Credit, Settling
    <3>2. CASE Charge(r) \/ Bill(r) \/ Observe(r)
      BY <1>1, <3>2 DEF Charge, Bill, Observe, Goto, Settling
    <3>3. CASE Publish(r)
      BY <1>1, <3>3 DEF Publish, Settling
    <3>4. QED
      BY <1>9, <3>1, <3>2, <3>3
  <2>2. QED
    BY <1>2, <2>1
<1>10. QED
  BY <1>4, <1>5, <1>6, <1>7, <1>8, <1>9 DEF Next, Progress

LEMMA DistinctStep ==
    ASSUME TypeOK, TypeOK', WalkInv, PlansAreDistinct, [Next]_vars
    PROVE  PlansAreDistinct'
<1> SUFFICES ASSUME NEW q \in Requests, NEW i \in plan'[q], NEW j \in plan'[q],
                    Targets(q)'[i] = Targets(q)'[j]
             PROVE  i = j
  BY DEF PlansAreDistinct
<1>1. Targets(q)[i] = Targets(q)[j]
  BY PlanStep DEF Targets
<1>2. CASE plan'[q] = plan[q]
  BY <1>1, <1>2 DEF PlansAreDistinct
<1>3. CASE plan'[q] = {}
  BY <1>3
<1>4. CASE plan'[q] = DeliveryPlan(input[q], openedAt, stamp[q])
  <2>1. i \in Nat /\ j \in Nat /\ i >= 1 /\ j >= 1
    BY DEF TypeOK
  <2>2. \A k \in 1..(i - 1) : Targets(q)[k] # Targets(q)[i]
    BY <1>4 DEF DeliveryPlan, Targets
  <2>3. \A k \in 1..(j - 1) : Targets(q)[k] # Targets(q)[j]
    BY <1>4 DEF DeliveryPlan, Targets
  <2>4. ~(i < j) /\ ~(j < i)
    BY <1>1, <2>1, <2>2, <2>3
  <2>5. QED
    BY <2>1, <2>4
<1>5. QED
  BY <1>2, <1>3, <1>4, PlanStep

(* The verdicts of one request on one target, in pairs.                     *)
LEMMA VerdictsStep ==
    ASSUME TypeOK, TypeOK', WalkInv, SettledIsFinished, PlansAreDistinct,
           VerdictsPlaced, OneVerdictPerTarget, [Next]_vars
    PROVE  VerdictsPlaced' /\ OneVerdictPerTarget'
<1>1. input' = input
  BY PlanStep
<1>2. verdicts \in [Names -> Seq(Verdict)] /\ verdicts' \in [Names -> Seq(Verdict)]
  BY DEF TypeOK
<1>3. CASE Tick \/ AllDone \/ UNCHANGED vars
  <2>1. UNCHANGED <<pc, plan, at, input, breakerVars>>
    BY <1>3 DEF Tick, AllDone, vars, walkVars, inputVars
  <2>2. QED
    BY <2>1 DEF breakerVars, VerdictsPlaced, OneVerdictPerTarget, Placed,
                Target, Targets, Credited
<1>4. ASSUME NEW r \in Requests, Arrive(r) \/ Progress(r) \/ Drop(r)
      PROVE  VerdictsPlaced' /\ OneVerdictPerTarget'
  <2>1. /\ \A q \in Requests \ {r} :
              pc'[q] = pc[q] /\ at'[q] = at[q] /\ plan'[q] = plan[q]
        /\ \/ SetsOut(r)
           \/ StaysQuiet(r)
           \/ \E ok \in BOOLEAN : Reports(r, ok)
    BY <1>4, StepKinds
  <2>2. ASSUME NEW m \in Names, NEW w \in Verdict,
               NEW i \in DOMAIN verdicts[m], verdicts[m][i] = w
        PROVE  Placed(m, w) /\ Placed(m, w)'
    <3>1. Placed(m, w)
      BY <2>2 DEF VerdictsPlaced
    <3>2. QED
      BY <1>1, <2>1, <3>1, PlacedStays
  <2>3. CASE SetsOut(r) \/ StaysQuiet(r)
    <3>1. verdicts' = verdicts
      BY <2>3 DEF SetsOut, StaysQuiet, breakerVars
    <3>2. ASSUME NEW m \in Names, NEW i \in DOMAIN verdicts'[m]
          PROVE  Placed(m, verdicts[m][i])'
      <4>1. PICK w \in Verdict : w = verdicts'[m][i]
        BY <1>2, LenProperties
      <4>2. Placed(m, w)'
        BY <2>2, <3>1, <4>1
      <4>3. QED
        BY <4>1, <4>2
    <3>3. VerdictsPlaced'
      BY <3>2 DEF VerdictsPlaced
    <3>4. OneVerdictPerTarget'
      BY <1>1, <3>1 DEF OneVerdictPerTarget
    <3>5. QED
      BY <3>3, <3>4
  <2>4. ASSUME NEW ok \in BOOLEAN, Reports(r, ok)
        PROVE  VerdictsPlaced' /\ OneVerdictPerTarget'
    <3>1. PICK v \in Verdict : v = [by |-> r, ok |-> ok, time |-> now]
      BY DEF Verdict, TypeOK
    <3>2. /\ pc[r] \in Moving /\ at[r] \in plan[r] /\ Target(r) \in Names
          /\ Credited(r) => ~ok /\ input[r].stream
      BY <2>4, TargetIsName DEF Reports, WalkInv, WalkOf, Target
    <3>3. /\ verdicts'[Target(r)] = Append(verdicts[Target(r)], v)
          /\ \A m \in Names \ {Target(r)} : verdicts'[m] = verdicts[m]
      BY <1>2, <2>4, <3>1, <3>2 DEF Reports, Record
    <3>4. ASSUME NEW m \in Names, NEW i \in DOMAIN verdicts'[m]
          PROVE  \/ i \in DOMAIN verdicts[m] /\ verdicts'[m][i] = verdicts[m][i]
                 \/ /\ m = Target(r)
                    /\ i = Len(verdicts[m]) + 1
                    /\ verdicts'[m][i] = v
      <4>1. CASE m # Target(r)
        BY <3>3, <3>4, <4>1
      <4>2. CASE m = Target(r)
        BY <1>2, <3>3, <3>4, <4>2, AppendProperties, LenProperties
      <4>3. QED
        BY <4>1, <4>2
    <3>5. ASSUME NEW m \in Names, NEW i \in DOMAIN verdicts'[m]
          PROVE  Placed(m, verdicts[m][i])'
      <4>1. PICK w \in Verdict : w = verdicts'[m][i]
        BY <1>2, LenProperties
      <4>2. CASE i \in DOMAIN verdicts[m] /\ verdicts'[m][i] = verdicts[m][i]
        <5>1. Placed(m, w)'
          BY <2>2, <4>1, <4>2
        <5>2. QED
          BY <4>1, <5>1
      <4>3. CASE m = Target(r) /\ w = v
        <5>1. w.by = r /\ w.ok = ok
          BY <3>1, <4>3
        <5>2. Placed(m, w)'
          BY <1>1, <2>4, <4>3, <5>1, PlacedNew
        <5>3. QED
          BY <4>1, <5>2
      <4>4. QED
        BY <3>4, <4>1, <4>2, <4>3
    <3>6. VerdictsPlaced'
      BY <3>5 DEF VerdictsPlaced
    <3>7. ASSUME NEW m \in Names, NEW i \in DOMAIN verdicts'[m],
                 NEW j \in DOMAIN verdicts'[m], i < j,
                 verdicts'[m][i].by = verdicts'[m][j].by
          PROVE  /\ input'[verdicts'[m][i].by].stream
                 /\ verdicts'[m][i].ok
                 /\ ~verdicts'[m][j].ok
      <4>1. DOMAIN verdicts[m] = 1..Len(verdicts[m]) /\ Len(verdicts[m]) \in Nat
        BY <1>2, LenProperties
      <4>2. i \in Int /\ j \in Int
        BY <1>2, LenProperties
      <4>3. i \in DOMAIN verdicts[m] /\ verdicts'[m][i] = verdicts[m][i]
        <5>1. CASE i = Len(verdicts[m]) + 1
          <6>1. j \notin DOMAIN verdicts[m] /\ j # Len(verdicts[m]) + 1
            BY <3>7, <4>1, <4>2, <5>1
          <6>2. QED
            BY <3>4, <6>1
        <5>2. QED
          BY <3>4, <5>1
      <4>4. CASE j \in DOMAIN verdicts[m] /\ verdicts'[m][j] = verdicts[m][j]
        BY <1>1, <3>7, <4>3, <4>4 DEF OneVerdictPerTarget
      <4>5. CASE m = Target(r) /\ verdicts'[m][j] = v
        <5>1. PICK u \in Verdict : u = verdicts[m][i]
          BY <1>2, <4>3, LenProperties
        <5>2. Placed(m, u) /\ u.by = r
          BY <2>2, <3>1, <3>7, <4>3, <4>5, <5>1
        <5>3. ASSUME NEW k \in plan[r], k < at[r], Targets(r)[k] = m
              PROVE  FALSE
          <6>1. k = at[r]
            BY <3>2, <4>5, <5>3 DEF PlansAreDistinct, Target
          <6>2. at[r] \in Nat
            BY DEF TypeOK
          <6>3. QED
            BY <5>3, <6>1, <6>2
        <5>4. u.ok /\ Credited(r)
          BY <3>2, <5>2, <5>3 DEF Placed
        <5>5. QED
          BY <1>1, <3>1, <3>2, <4>3, <4>5, <5>1, <5>2, <5>4
      <4>6. QED
        BY <3>4, <4>4, <4>5
    <3>8. OneVerdictPerTarget'
      BY <3>7 DEF OneVerdictPerTarget
    <3>9. QED
      BY <3>6, <3>8
  <2>5. QED
    BY <2>1, <2>3, <2>4
<1>5. QED
  BY <1>3, <1>4 DEF Next

LEMMA VerdictInvariant ==
    Spec => [](/\ TypeOK /\ WalkInv /\ SettledIsFinished /\ PlansAreDistinct
               /\ VerdictsPlaced /\ OneVerdictPerTarget)
<1>1. Init => SettledIsFinished /\ PlansAreDistinct
  BY DEF Init, SettledIsFinished, PlansAreDistinct, Settling
<1>2. Init => VerdictsPlaced /\ OneVerdictPerTarget
  <2> SUFFICES ASSUME Init, NEW m \in Names PROVE DOMAIN verdicts[m] = {}
    BY DEF VerdictsPlaced, OneVerdictPerTarget
  <2>1. verdicts[m] = << >>
    BY DEF Init
  <2>2. QED
    BY <2>1, EmptySeq
<1>3. TypeOK /\ TypeOK' /\ WalkInv /\ SettledIsFinished /\ PlansAreDistinct
      /\ VerdictsPlaced /\ OneVerdictPerTarget /\ [Next]_vars
      => SettledIsFinished' /\ PlansAreDistinct' /\ VerdictsPlaced' /\ OneVerdictPerTarget'
  BY FinishedStep, DistinctStep, VerdictsStep
<1>4. QED
  BY <1>1, <1>2, <1>3, TypeAndWalk, PTL DEF Spec

(* forward_upstream, stream_upstream and StreamAccounting report to the     *)
(* breaker of a target at most once for a request, but for a stream that    *)
(* breaks after it was settled.                                             *)
THEOREM OneVerdictEach == Spec => []OneVerdictPerTarget
BY VerdictInvariant, PTL

(***************************************************************************)
(* The walk: in which order, how often and to which side a request is sent.*)
(***************************************************************************)
-----------------------------------------------------------------------------
(* Invariants.                                                              *)

DisciplineOf(r) ==
    \A i \in plan[r] :
        Targets(r)[i] \in Configured =>
            /\ i < at[r] \/ reply[r] = "exhausted" => GaveUp(r, Targets(r)[i])
            /\ i = at[r] => calls[r][Targets(r)[i]] = attempt[r] + 1
            /\ i > at[r] => calls[r][Targets(r)[i]] = 0

(* Nothing is sent before there is a plan, nor to a target out of it; a     *)
(* target is given up after its last retry, the request after its last      *)
(* target.                                                                  *)
SentOf(r) ==
    /\ pc[r] \in {"idle", "planning"} =>
          at[r] = 0 /\ \A m \in Names : calls[r][m] = 0
    /\ \A m \in Names : calls[r][m] > 0 => \E i \in plan[r] : Targets(r)[i] = m
    /\ pc[r] = "exhausted" => attempt[r] = Retries
    /\ reply[r] = "exhausted" => pc[r] = "replied"

SentInv == \A r \in Requests : SentOf(r)

Failed(r, m) == \E i \in DOMAIN verdicts[m] : verdicts[m][i].by = r /\ ~verdicts[m][i].ok

(* A failing verdict stays.                                                 *)
FailuresStay ==
    \A r \in Requests, m \in Names : Failed(r, m) => Failed(r, m)'

-----------------------------------------------------------------------------
(* The kinds of steps of a request.                                         *)

(* It moves without a POST and without leaving its target.                  *)
Rests(r) ==
    /\ pc[r] \notin {"planning", "replied"}
    /\ UNCHANGED walkVars
    /\ pc[r] = "idle" => pc'[r] \in {"planning", "replied"}
    /\ pc[r] # "idle" => pc'[r] \notin {"idle", "planning"}
    /\ pc'[r] = "exhausted" => attempt[r] = Retries
    /\ reply'[r] = "exhausted" => reply[r] = "exhausted"

(* It POSTs again to the target it stands at.                               *)
PostsAgain(r) ==
    /\ pc[r] = "backoff" /\ pc'[r] = "flight"
    /\ reply' = reply /\ UNCHANGED <<plan, at>>
    /\ attempt' = [attempt EXCEPT ![r] = @ + 1]
    /\ calls' = [calls EXCEPT ![r][Target(r)] = @ + 1]

(* It goes on through positions behind i.                                   *)
GoesOn(r, positions, i) ==
    /\ plan' = [plan EXCEPT ![r] = positions]
    /\ MoveOn(r, positions, i)

PlansNothing(r) ==
    /\ pc[r] = "planning" /\ pc'[r] = "replied" /\ reply'[r] # "exhausted"
    /\ plan' = [plan EXCEPT ![r] = {}]
    /\ UNCHANGED <<at, attempt, calls>>

OthersRest(r) ==
    \A q \in Requests \ {r} :
        /\ pc'[q] = pc[q] /\ plan'[q] = plan[q] /\ at'[q] = at[q]
        /\ attempt'[q] = attempt[q] /\ calls'[q] = calls[q] /\ reply'[q] = reply[q]

WalkStep(r) ==
    \/ Rests(r)
    \/ PostsAgain(r)
    \/ PlansNothing(r)
    \/ pc[r] = "planning" /\ \E positions \in SUBSET (DOMAIN Targets(r)) :
                                GoesOn(r, positions, 0)
    \/ /\ pc[r] = "exhausted" /\ GoesOn(r, plan[r], at[r])
       /\ \E m \in Names : m = Target(r) /\ Failed(r, m)'

(* A verdict appended to those of a target.                                 *)
LEMMA RecordAppends ==
    ASSUME TypeOK, NEW r \in Requests, NEW ok \in BOOLEAN, Target(r) \in Names,
           Record(r, ok)
    PROVE  FailuresStay /\ (~ok => \E m \in Names : m = Target(r) /\ Failed(r, m)')
<1> DEFINE v == [by |-> r, ok |-> ok, time |-> now]
<1>1. /\ verdicts \in [Names -> Seq(Verdict)]
      /\ v \in Verdict /\ v.by = r /\ v.ok = ok
  BY DEF TypeOK, Verdict
<1>2. \A m \in Names :
         verdicts'[m] = IF m = Target(r) THEN Append(verdicts[m], v) ELSE verdicts[m]
  BY <1>1 DEF Record
<1> HIDE DEF v
<1>3. \A m \in Names :
         /\ verdicts[m] \in Seq(Verdict) /\ Len(verdicts[m]) \in Nat
         /\ DOMAIN verdicts[m] = 1..Len(verdicts[m])
  BY <1>1, LenProperties
<1>4. ASSUME NEW m \in Names, m = Target(r)
      PROVE  /\ DOMAIN verdicts'[m] = 1..(Len(verdicts[m]) + 1)
             /\ \A i \in 1..Len(verdicts[m]) : verdicts'[m][i] = verdicts[m][i]
             /\ verdicts'[m][Len(verdicts[m]) + 1] = v
  <2>1. verdicts'[m] = Append(verdicts[m], v)
    BY <1>2, <1>4
  <2>2. QED
    BY <1>1, <1>3, <2>1, AppendProperties, LenProperties
<1>5. ASSUME NEW q \in Requests, NEW m \in Names, Failed(q, m)
      PROVE  Failed(q, m)'
  <2>1. PICK i \in DOMAIN verdicts[m] : verdicts[m][i].by = q /\ ~verdicts[m][i].ok
    BY <1>5 DEF Failed
  <2>2. i \in DOMAIN verdicts'[m] /\ verdicts'[m][i] = verdicts[m][i]
    BY <1>2, <1>3, <1>4
  <2>3. QED
    BY <2>1, <2>2 DEF Failed
<1>6. ASSUME ~ok
      PROVE  \E m \in Names : m = Target(r) /\ Failed(r, m)'
  <2> DEFINE n == Len(verdicts[Target(r)]) + 1
  <2>1. n \in DOMAIN verdicts'[Target(r)] /\ verdicts'[Target(r)][n] = v
    BY <1>3, <1>4
  <2> HIDE DEF n
  <2>2. ASSUME NEW m \in Names, m = Target(r)
        PROVE  Failed(r, m)'
    BY <1>1, <1>6, <2>1, <2>2 DEF Failed
  <2>3. QED
    BY <2>2
<1>7. QED
  BY <1>5, <1>6 DEF FailuresStay

LEMMA MoveOnAlone ==
    ASSUME TypeOK, NEW r \in Requests, NEW positions, NEW i, MoveOn(r, positions, i)
    PROVE  \A q \in Requests \ {r} :
              /\ pc'[q] = pc[q] /\ at'[q] = at[q] /\ attempt'[q] = attempt[q]
              /\ calls'[q] = calls[q] /\ reply'[q] = reply[q]
<1>1. /\ pc \in [Requests -> PC] /\ at \in [Requests -> Nat]
      /\ attempt \in [Requests -> 0..Retries] /\ reply \in [Requests -> Replies]
      /\ calls \in [Requests -> [Names -> Nat]]
  BY DEF TypeOK
<1>2. CASE /\ pc' = [pc EXCEPT ![r] = "replied"]
           /\ reply' = [reply EXCEPT ![r] = "exhausted"]
           /\ UNCHANGED <<at, attempt, calls>>
  BY <1>1, <1>2
<1>3. ASSUME NEW j,
             at' = [at EXCEPT ![r] = j], attempt' = [attempt EXCEPT ![r] = 0],
             calls' = [calls EXCEPT ![r][Targets(r)[j]] = @ + 1],
             pc' = [pc EXCEPT ![r] = "flight"], UNCHANGED reply
      PROVE  \A q \in Requests \ {r} :
                /\ pc'[q] = pc[q] /\ at'[q] = at[q] /\ attempt'[q] = attempt[q]
                /\ calls'[q] = calls[q] /\ reply'[q] = reply[q]
  BY <1>1, <1>3
<1>4. QED
  BY <1>2, <1>3 DEF MoveOn

(* Every step of a request is of one of these kinds.                        *)
LEMMA WalkSteps ==
    ASSUME TypeOK, WalkInv, NEW r \in Requests,
           Arrive(r) \/ Progress(r) \/ Drop(r)
    PROVE  OthersRest(r) /\ WalkStep(r) /\ FailuresStay
<1> USE DEF walkVars, inputVars
<1>1. /\ pc \in [Requests -> PC] /\ plan \in [Requests -> SUBSET (Nat \ {0})]
      /\ at \in [Requests -> Nat] /\ attempt \in [Requests -> 0..Retries]
      /\ reply \in [Requests -> Replies] /\ calls \in [Requests -> [Names -> Nat]]
      /\ Retries \in Nat
  BY DeliveryAssumption DEF TypeOK
<1>2. ASSUME verdicts' = verdicts PROVE FailuresStay
  BY <1>2 DEF FailuresStay, Failed
<1>3. ASSUME pc[r] \in Moving PROVE Target(r) \in Names
  BY <1>3, TargetIsName DEF WalkInv, WalkOf, Target
<1>4. ASSUME UNCHANGED walkVars, NEW to, pc' = [pc EXCEPT ![r] = to],
             \/ reply' = reply
             \/ \E answer \in Replies \ {"exhausted"} : Answer(r, answer),
             pc[r] \notin {"planning", "replied"},
             pc[r] = "idle" => to \in {"planning", "replied"},
             pc[r] # "idle" => to \notin {"idle", "planning"},
             to = "exhausted" => attempt[r] = Retries
      PROVE  OthersRest(r) /\ WalkStep(r)
  <2>1. pc'[r] = to /\ \A q \in Requests \ {r} : pc'[q] = pc[q]
    BY <1>1, <1>4
  <2>2. /\ \A q \in Requests \ {r} : reply'[q] = reply[q]
        /\ reply'[r] = "exhausted" => reply[r] = "exhausted"
    BY <1>1, <1>4 DEF Answer
  <2>3. Rests(r)
    BY <1>4, <2>1, <2>2 DEF Rests
  <2>4. OthersRest(r)
    BY <1>4, <2>1, <2>2 DEF OthersRest
  <2>5. QED
    BY <2>3, <2>4 DEF WalkStep
<1>5. CASE Arrive(r)
  <2>1. /\ UNCHANGED walkVars /\ verdicts' = verdicts /\ pc[r] = "idle"
        /\ \E to \in {"planning", "replied"} : pc' = [pc EXCEPT ![r] = to]
        /\ reply' = reply \/ Answer(r, "misconfigured")
    BY <1>5 DEF Arrive, breakerVars
  <2>2. QED
    BY <1>2, <1>4, <2>1 DEF Replies
<1>6. CASE MakePlan(r)
  <2> DEFINE positions == DeliveryPlan(input[r], openedAt, stamp[r])
  <2>1. /\ pc[r] = "planning" /\ verdicts' = verdicts
        /\ plan' = [plan EXCEPT ![r] = positions]
        /\ \/ /\ positions = {}
              /\ pc' = [pc EXCEPT ![r] = "replied"]
              /\ Answer(r, "unavailable")
              /\ UNCHANGED <<at, attempt, calls>>
           \/ MoveOn(r, positions, 0)
    BY <1>6 DEF MakePlan, breakerVars
  <2>2. positions \in SUBSET (DOMAIN Targets(r))
    BY DEF DeliveryPlan, Targets
  <2> HIDE DEF positions
  <2>3. CASE /\ positions = {}
             /\ pc' = [pc EXCEPT ![r] = "replied"]
             /\ Answer(r, "unavailable")
             /\ UNCHANGED <<at, attempt, calls>>
    BY <1>1, <1>2, <2>1, <2>3 DEF OthersRest, WalkStep, PlansNothing, Answer
  <2>4. CASE MoveOn(r, positions, 0)
    <3>1. OthersRest(r)
      BY <1>1, <2>1, <2>4, MoveOnAlone DEF OthersRest
    <3>2. WalkStep(r)
      BY <2>1, <2>2, <2>4 DEF WalkStep, GoesOn
    <3>3. QED
      BY <1>2, <2>1, <3>1, <3>2
  <2>5. QED
    BY <2>1, <2>3, <2>4
<1>7. CASE Exhaust(r)
  <2>1. /\ pc[r] = "exhausted" /\ plan' = plan
        /\ Record(r, FALSE) /\ MoveOn(r, plan[r], at[r])
    BY <1>7 DEF Exhaust
  <2>2. plan' = [plan EXCEPT ![r] = plan[r]]
    BY <1>1, <2>1
  <2>3. pc[r] \in Moving
    BY <2>1 DEF Moving, PC
  <2>4. FailuresStay /\ \E m \in Names : m = Target(r) /\ Failed(r, m)'
    BY <1>3, <2>1, <2>3, RecordAppends
  <2>5. OthersRest(r)
    BY <1>1, <2>1, MoveOnAlone DEF OthersRest
  <2>6. WalkStep(r)
    BY <2>1, <2>2, <2>4 DEF WalkStep, GoesOn
  <2>7. QED
    BY <2>4, <2>5, <2>6
<1>8. CASE WakeUp(r)
  <2>1. /\ pc[r] = "backoff" /\ pc' = [pc EXCEPT ![r] = "flight"]
        /\ attempt' = [attempt EXCEPT ![r] = @ + 1]
        /\ calls' = [calls EXCEPT ![r][Target(r)] = @ + 1]
        /\ UNCHANGED <<plan, at, reply, verdicts>>
    BY <1>8 DEF WakeUp, Goto, breakerVars
  <2>2. OthersRest(r)
    BY <1>1, <2>1 DEF OthersRest
  <2>3. PostsAgain(r)
    BY <1>1, <2>1 DEF PostsAgain
  <2>4. QED
    BY <1>2, <2>1, <2>2, <2>3 DEF WalkStep
<1>9. CASE \/ FailAttempt(r) \/ Win(r) \/ OpenStream(r) \/ Refuse(r) \/ LoseBody(r)
           \/ Charge(r) \/ Bill(r) \/ Observe(r) \/ Publish(r)
           \/ StreamDone(r) \/ StreamEnd(r) \/ StreamError(r) \/ Drop(r)
  <2>1. /\ UNCHANGED walkVars /\ verdicts' = verdicts
        /\ pc[r] \notin {"idle", "planning", "replied"}
        /\ \E to : /\ pc' = [pc EXCEPT ![r] = to]
                   /\ to \notin {"idle", "planning"}
                   /\ to = "exhausted" => attempt[r] = Retries
        /\ \/ reply' = reply
           \/ \E answer \in Replies \ {"exhausted"} : Answer(r, answer)
    <3> USE DEF breakerVars
    <3>1. CASE FailAttempt(r)
      <4>1. pc[r] = "flight" /\ UNCHANGED <<walkVars, verdicts, reply>>
            /\ pc' = [pc EXCEPT ![r] = IF attempt[r] < Retries THEN "backoff"
                                                               ELSE "exhausted"]
        BY <3>1 DEF FailAttempt
      <4>2. CASE attempt[r] < Retries
        <5>1. pc' = [pc EXCEPT ![r] = "backoff"]
          BY <4>1, <4>2
        <5>2. QED
          BY <4>1, <5>1
      <4>3. CASE ~(attempt[r] < Retries)
        <5>1. attempt[r] = Retries
          <6>1. attempt[r] \in 0..Retries /\ Retries \in Nat
            BY <1>1
          <6>2. QED
            BY <4>3, <6>1
        <5>2. pc' = [pc EXCEPT ![r] = "exhausted"]
          BY <4>1, <4>3
        <5>3. QED
          BY <4>1, <5>1, <5>2
      <4>4. QED
        BY <4>2, <4>3
    <3>2. CASE Win(r) \/ OpenStream(r)
      BY <3>2 DEF Win, OpenStream, Goto, Replies
    <3>3. CASE Refuse(r) \/ LoseBody(r) \/ Drop(r)
      BY <3>3 DEF Refuse, LoseBody, Drop, Goto, Replies
    <3>4. CASE Charge(r) \/ Bill(r) \/ Observe(r)
      BY <3>4 DEF Charge, Bill, Observe, Goto
    <3>5. CASE Publish(r)
      <4>1. /\ pc[r] = "publish" /\ UNCHANGED <<walkVars, verdicts>>
            /\ pc' = [pc EXCEPT ![r] = IF input[r].stream THEN "won" ELSE "replied"]
            /\ reply' = [reply EXCEPT ![r] = "served"]
        BY <3>5 DEF Publish
      <4>2. Answer(r, "served") /\ "served" \in Replies \ {"exhausted"}
        BY <4>1 DEF Answer, Replies
      <4>3. CASE input[r].stream
        <5>1. pc' = [pc EXCEPT ![r] = "won"]
          BY <4>1, <4>3
        <5>2. QED
          BY <4>1, <4>2, <5>1
      <4>4. CASE ~input[r].stream
        <5>1. pc' = [pc EXCEPT ![r] = "replied"]
          BY <4>1, <4>4
        <5>2. QED
          BY <4>1, <4>2, <5>1
      <4>5. QED
        BY <4>3, <4>4
    <3>6. CASE StreamDone(r) \/ StreamEnd(r) \/ StreamError(r)
      BY <3>6 DEF StreamDone, StreamEnd, StreamError, Settle
    <3>7. QED
      BY <1>9, <3>1, <3>2, <3>3, <3>4, <3>5, <3>6
  <2>2. QED
    BY <1>2, <1>4, <2>1
<1>10. CASE RecordRefusal(r) \/ Reject(r) \/ Credit(r) \/ RecordBroken(r)
  <2>1. /\ UNCHANGED walkVars /\ \E ok \in BOOLEAN : Record(r, ok)
        /\ pc[r] \notin {"idle", "planning", "replied", "dropped"}
        /\ \E to : /\ pc' = [pc EXCEPT ![r] = to]
                   /\ to \notin {"idle", "planning", "exhausted"}
        /\ \/ reply' = reply
           \/ \E answer \in Replies \ {"exhausted"} : Answer(r, answer)
    <3>1. CASE RecordRefusal(r) \/ Reject(r)
      BY <3>1 DEF RecordRefusal, Reject, Goto, Replies
    <3>2. CASE Credit(r) \/ RecordBroken(r)
      BY <3>2 DEF Credit, RecordBroken, Goto
    <3>3. QED
      BY <1>10, <3>1, <3>2
  <2>2. pc[r] \in Moving
    BY <1>1, <2>1 DEF Moving
  <2>3. FailuresStay
    BY <1>3, <2>1, <2>2, RecordAppends
  <2>4. QED
    BY <1>4, <2>1, <2>3
<1>11. QED
  BY <1>5, <1>6, <1>7, <1>8, <1>9, <1>10 DEF Progress

-----------------------------------------------------------------------------
(* What a step that goes on does to the walk of its request.                *)
LEMMA GoesOnTo ==
    ASSUME TypeOK, NEW r \in Requests, NEW positions \in SUBSET (DOMAIN Targets(r)),
           NEW i \in Nat, GoesOn(r, positions, i), Targets(r) \in Seq(Names)
    PROVE  /\ plan'[r] = positions
           /\ \/ /\ \A k \in positions : k > i => Targets(r)[k] \notin Configured
                 /\ pc'[r] = "replied" /\ reply'[r] = "exhausted"
                 /\ at'[r] = at[r] /\ attempt'[r] = attempt[r] /\ calls'[r] = calls[r]
              \/ /\ pc'[r] = "flight" /\ reply'[r] = reply[r]
                 /\ at'[r] \in positions /\ at'[r] > i
                 /\ \A k \in positions :
                       k > i /\ k < at'[r] => Targets(r)[k] \notin Configured
                 /\ attempt'[r] = 0
                 /\ Targets(r)[at'[r]] \in Names
                 /\ calls'[r] = [calls[r] EXCEPT ![Targets(r)[at'[r]]] = @ + 1]
<1>1. /\ pc \in [Requests -> PC] /\ at \in [Requests -> Nat]
      /\ attempt \in [Requests -> 0..Retries] /\ reply \in [Requests -> Replies]
      /\ calls \in [Requests -> [Names -> Nat]]
      /\ plan \in [Requests -> SUBSET (Nat \ {0})]
  BY DEF TypeOK
<1>2. positions \subseteq Nat
  BY LenProperties
<1>3. plan'[r] = positions
  BY <1>1 DEF GoesOn
<1>4. CASE /\ Ahead(r, positions, i) = {}
           /\ pc' = [pc EXCEPT ![r] = "replied"]
           /\ reply' = [reply EXCEPT ![r] = "exhausted"]
           /\ UNCHANGED <<at, attempt, calls>>
  <2>1. \A k \in positions : k > i => Targets(r)[k] \notin Configured
    BY <1>4 DEF Ahead
  <2>2. QED
    BY <1>1, <1>3, <1>4, <2>1
<1>5. ASSUME NEW j \in Ahead(r, positions, i),
             \A k \in Ahead(r, positions, i) : j <= k,
             at' = [at EXCEPT ![r] = j], attempt' = [attempt EXCEPT ![r] = 0],
             calls' = [calls EXCEPT ![r][Targets(r)[j]] = @ + 1],
             pc' = [pc EXCEPT ![r] = "flight"], UNCHANGED reply
      PROVE  /\ pc'[r] = "flight" /\ reply'[r] = reply[r]
             /\ at'[r] \in positions /\ at'[r] > i
             /\ \A k \in positions :
                   k > i /\ k < at'[r] => Targets(r)[k] \notin Configured
             /\ attempt'[r] = 0
             /\ Targets(r)[at'[r]] \in Names
             /\ calls'[r] = [calls[r] EXCEPT ![Targets(r)[at'[r]]] = @ + 1]
  <2>1. j \in positions /\ j > i /\ j \in Nat /\ at'[r] = j
    BY <1>1, <1>2, <1>5 DEF Ahead
  <2>2. \A k \in positions : k > i /\ k < j => Targets(r)[k] \notin Configured
    <3>1. \A k \in positions : k \in Nat /\ (k < j => ~(j <= k))
      BY <1>2, <2>1
    <3>2. QED
      BY <1>5, <3>1 DEF Ahead
  <2>3. Targets(r)[j] \in Names
    BY <2>1, ElementOfSeq, LenProperties
  <2>4. calls'[r] = [calls[r] EXCEPT ![Targets(r)[j]] = @ + 1]
    BY <1>1, <1>5
  <2>5. QED
    BY <1>1, <1>5, <2>1, <2>2, <2>3, <2>4
<1>6. QED
  BY <1>3, <1>4, <1>5 DEF GoesOn, MoveOn

(* A request that does not POST.                                            *)
LEMMA RestKeeps ==
    ASSUME TypeOK, NEW q \in Requests, input' = input, FailuresStay,
           plan'[q] = plan[q], at'[q] = at[q], attempt'[q] = attempt[q],
           calls'[q] = calls[q],
           pc'[q] \in {"idle", "planning"} => pc[q] \in {"idle", "planning"},
           pc'[q] = "exhausted" => attempt[q] = Retries,
           reply'[q] = "exhausted" => reply[q] = "exhausted" /\ pc'[q] = "replied",
           SentOf(q), DisciplineOf(q)
    PROVE  SentOf(q)' /\ DisciplineOf(q)'
<1>1. Targets(q)' = Targets(q)
  BY DEF Targets
<1>2. SentOf(q)'
  BY <1>1 DEF SentOf
<1>3. DisciplineOf(q)'
  <2> SUFFICES ASSUME NEW i \in plan[q], Targets(q)[i] \in Configured
               PROVE  /\ i < at[q] \/ reply'[q] = "exhausted" =>
                            GaveUp(q, Targets(q)[i])'
                      /\ i = at[q] => calls[q][Targets(q)[i]] = attempt[q] + 1
                      /\ i > at[q] => calls[q][Targets(q)[i]] = 0
    BY <1>1 DEF DisciplineOf
  <2>1. GaveUp(q, Targets(q)[i]) => GaveUp(q, Targets(q)[i])'
    <3>1. Targets(q)[i] \in Names
      BY ReliabilityAssumption
    <3>2. Failed(q, Targets(q)[i]) => Failed(q, Targets(q)[i])'
      BY <1>1, <3>1 DEF FailuresStay, Failed
    <3>3. QED
      BY <1>1, <3>2 DEF GaveUp, Failed
  <2>2. QED
    BY <2>1 DEF DisciplineOf
<1>4. QED
  BY <1>2, <1>3

(* A retry: the calls to the target keep up with the attempts.              *)
LEMMA AgainKeeps ==
    ASSUME TypeOK, WalkInv, PlansAreDistinct, NEW r \in Requests, input' = input,
           FailuresStay, PostsAgain(r), SentOf(r), DisciplineOf(r)
    PROVE  SentOf(r)' /\ DisciplineOf(r)'
<1>1. /\ at \in [Requests -> Nat] /\ attempt \in [Requests -> 0..Retries]
      /\ calls \in [Requests -> [Names -> Nat]]
      /\ plan \in [Requests -> SUBSET (Nat \ {0})]
      /\ Retries \in Nat
  BY DeliveryAssumption DEF TypeOK
<1>2. at[r] \in plan[r] /\ Target(r) \in Names /\ Target(r) = Targets(r)[at[r]]
  BY TargetIsName DEF PostsAgain, Moving, PC, WalkInv, WalkOf, Target
<1>3. /\ calls'[r] = [calls[r] EXCEPT ![Target(r)] = @ + 1]
      /\ attempt'[r] = attempt[r] + 1
      /\ plan' = plan /\ at' = at /\ reply' = reply
      /\ pc[r] = "backoff" /\ pc'[r] = "flight"
  BY <1>1 DEF PostsAgain
<1>4. Targets(r)' = Targets(r)
  BY DEF Targets
<1>5. \A m \in Names : calls'[r][m] = IF m = Target(r) THEN calls[r][m] + 1 ELSE calls[r][m]
  BY <1>1, <1>3
<1>6. reply[r] # "exhausted"
  BY <1>3 DEF SentOf
<1>7. SentOf(r)'
  BY <1>2, <1>3, <1>4, <1>5, <1>6 DEF SentOf
<1>8. DisciplineOf(r)'
  <2> SUFFICES ASSUME NEW i \in plan[r], Targets(r)[i] \in Configured
               PROVE  /\ i < at[r] => GaveUp(r, Targets(r)[i])'
                      /\ i = at[r] => calls'[r][Targets(r)[i]] = attempt'[r] + 1
                      /\ i > at[r] => calls'[r][Targets(r)[i]] = 0
    BY <1>3, <1>4, <1>6 DEF DisciplineOf
  <2>1. Targets(r)[i] \in Names
    BY ReliabilityAssumption
  <2>2. CASE i = at[r]
    <3>1. calls[r][Targets(r)[i]] = attempt[r] + 1
      BY <2>2 DEF DisciplineOf
    <3>2. calls'[r][Targets(r)[i]] = calls[r][Targets(r)[i]] + 1
      BY <1>2, <1>5, <2>1, <2>2
    <3>3. QED
      BY <1>1, <1>3, <2>2, <3>1, <3>2
  <2>3. CASE i # at[r]
    <3>1. Targets(r)[i] # Target(r)
      BY <1>2, <2>3 DEF PlansAreDistinct
    <3>2. calls'[r][Targets(r)[i]] = calls[r][Targets(r)[i]]
      BY <1>5, <2>1, <3>1
    <3>3. Failed(r, Targets(r)[i]) => Failed(r, Targets(r)[i])'
      BY <1>4, <2>1 DEF FailuresStay, Failed
    <3>4. GaveUp(r, Targets(r)[i]) => GaveUp(r, Targets(r)[i])'
      BY <1>4, <3>2, <3>3 DEF GaveUp, Failed
    <3>5. QED
      BY <2>3, <3>2, <3>4 DEF DisciplineOf
  <2>4. QED
    BY <2>2, <2>3
<1>9. QED
  BY <1>7, <1>8

(* Where it goes on, what lies behind has been given up, what lies ahead    *)
(* has not been called.                                                     *)
LEMMA GoesOnKeeps ==
    ASSUME TypeOK, NEW r \in Requests, NEW positions \in SUBSET (DOMAIN Targets(r)),
           NEW i \in Nat, GoesOn(r, positions, i), Targets(r) \in Seq(Names),
           input' = input,
           \A j, k \in positions : Targets(r)[j] = Targets(r)[k] => j = k,
           \A k \in positions : Targets(r)[k] \in Configured =>
              /\ k <= i => /\ calls[r][Targets(r)[k]] = Retries + 1
                           /\ Failed(r, Targets(r)[k])'
              /\ k > i => calls[r][Targets(r)[k]] = 0,
           \A m \in Names : calls[r][m] > 0 => \E k \in positions : Targets(r)[k] = m,
           reply[r] # "exhausted", at[r] = i, i = 0 \/ attempt[r] = Retries
    PROVE  SentOf(r)' /\ DisciplineOf(r)'
<1>1. /\ calls \in [Requests -> [Names -> Nat]] /\ Retries \in Nat
      /\ positions \subseteq Nat \ {0}
  <2>1. calls \in [Requests -> [Names -> Nat]] /\ Retries \in Nat
    BY DeliveryAssumption DEF TypeOK
  <2>2. DOMAIN Targets(r) \subseteq Nat \ {0}
    BY LenProperties
  <2>3. QED
    BY <2>1, <2>2
<1>2. Targets(r)' = Targets(r) /\ plan'[r] = positions
  BY GoesOnTo DEF Targets
<1>3. \A k \in positions : Targets(r)[k] \in Names
  BY ElementOfSeq, LenProperties
<1>4. CASE /\ \A k \in positions : k > i => Targets(r)[k] \notin Configured
           /\ pc'[r] = "replied" /\ reply'[r] = "exhausted"
           /\ at'[r] = at[r] /\ attempt'[r] = attempt[r] /\ calls'[r] = calls[r]
  <2>1. SentOf(r)'
    BY <1>2, <1>4 DEF SentOf
  <2>2. ASSUME NEW k \in positions, Targets(r)[k] \in Configured
        PROVE  /\ GaveUp(r, Targets(r)[k])'
               /\ ~(k > i)
               /\ k = i => calls'[r][Targets(r)[k]] = attempt'[r] + 1
    <3>1. k \in Nat \ {0} /\ ~(k > i) /\ k <= i
      BY <1>1, <1>4, <2>2
    <3>2. calls[r][Targets(r)[k]] = Retries + 1 /\ Failed(r, Targets(r)[k])'
      BY <2>2, <3>1
    <3>3. GaveUp(r, Targets(r)[k])'
      BY <1>2, <1>4, <3>2 DEF GaveUp, Failed
    <3>4. k = i => attempt[r] = Retries
      BY <3>1
    <3>5. QED
      BY <1>4, <3>1, <3>2, <3>3, <3>4
  <2>3. DisciplineOf(r)'
    BY <1>2, <1>4, <2>2 DEF DisciplineOf
  <2>4. QED
    BY <2>1, <2>3
<1>5. CASE /\ pc'[r] = "flight" /\ reply'[r] = reply[r]
           /\ at'[r] \in positions /\ at'[r] > i
           /\ \A k \in positions :
                 k > i /\ k < at'[r] => Targets(r)[k] \notin Configured
           /\ attempt'[r] = 0
           /\ Targets(r)[at'[r]] \in Names
           /\ calls'[r] = [calls[r] EXCEPT ![Targets(r)[at'[r]]] = @ + 1]
  <2> DEFINE j == at'[r]
             t == Targets(r)[j]
  <2>1. \A m \in Names :
           calls'[r][m] = IF m = t THEN calls[r][m] + 1 ELSE calls[r][m]
    BY <1>1, <1>5
  <2>2. j \in positions /\ j \in Nat \ {0} /\ j > i
    BY <1>1, <1>5
  <2>3. SentOf(r)'
    <3>1. ASSUME NEW m \in Names, calls'[r][m] > 0
          PROVE  \E k \in positions : Targets(r)[k] = m
      <4>1. CASE m = t
        BY <2>2, <4>1
      <4>2. CASE m # t
        BY <2>1, <3>1, <4>2
      <4>3. QED
        BY <4>1, <4>2
    <3>2. QED
      BY <1>2, <1>5, <3>1 DEF SentOf
  <2>4. ASSUME NEW k \in positions, Targets(r)[k] \in Configured
        PROVE  /\ k < j => GaveUp(r, Targets(r)[k])'
               /\ k = j => calls'[r][Targets(r)[k]] = attempt'[r] + 1
               /\ k > j => calls'[r][Targets(r)[k]] = 0
    <3>1. k \in Nat /\ i \in Nat /\ j \in Nat
      BY <1>1, <2>2
    <3>2. k # j => calls'[r][Targets(r)[k]] = calls[r][Targets(r)[k]]
      BY <1>3, <2>1, <2>2
    <3>3. CASE k < j
      <4>1. k <= i /\ k # j
        BY <1>5, <2>4, <3>1, <3>3
      <4>2. calls'[r][Targets(r)[k]] = Retries + 1 /\ Failed(r, Targets(r)[k])'
        BY <2>4, <3>2, <4>1
      <4>3. GaveUp(r, Targets(r)[k])'
        BY <1>2, <4>2 DEF GaveUp, Failed
      <4>4. QED
        BY <3>1, <3>3, <4>3
    <3>4. CASE k = j
      <4>1. calls[r][t] = 0
        BY <2>2, <2>4, <3>4
      <4>2. calls'[r][t] = 1
        BY <1>3, <2>1, <2>2, <4>1
      <4>3. QED
        BY <1>5, <3>1, <3>4, <4>2
    <3>5. CASE k > j
      <4>1. k > i /\ k # j
        BY <2>2, <3>1, <3>5
      <4>2. QED
        BY <2>4, <3>1, <3>2, <3>5, <4>1
    <3>6. QED
      BY <3>1, <3>3, <3>4, <3>5
  <2>5. DisciplineOf(r)'
    <3> HIDE DEF t
    <3>1. reply'[r] # "exhausted"
      BY <1>5
    <3>2. QED
      BY <1>2, <2>4, <3>1 DEF DisciplineOf
  <2>6. QED
    BY <2>3, <2>5
<1>6. QED
  BY <1>4, <1>5, GoesOnTo

-----------------------------------------------------------------------------
(* The invariant.                                                           *)

LEMMA WalkStepKeeps ==
    ASSUME TypeOK, WalkInv, PlansAreDistinct, PlansAreDistinct', SentInv,
           FailoverDiscipline, input' = input, NEW r \in Requests,
           OthersRest(r), WalkStep(r), FailuresStay
    PROVE  SentInv' /\ FailoverDiscipline'
<1>1. \A q \in Requests : SentOf(q) /\ DisciplineOf(q)
  BY DEF SentInv, FailoverDiscipline, DisciplineOf
<1>2. /\ plan \in [Requests -> SUBSET (Nat \ {0})] /\ at \in [Requests -> Nat]
      /\ calls \in [Requests -> [Names -> Nat]]
  BY DEF TypeOK
<1>3. ASSUME NEW q \in Requests, q # r PROVE SentOf(q)' /\ DisciplineOf(q)'
  <2>1. /\ plan'[q] = plan[q] /\ at'[q] = at[q] /\ attempt'[q] = attempt[q]
        /\ calls'[q] = calls[q] /\ pc'[q] = pc[q] /\ reply'[q] = reply[q]
    BY <1>3 DEF OthersRest
  <2>2. QED
    BY <1>1, <2>1, RestKeeps DEF SentOf
<1>4. CASE Rests(r)
  <2>1. /\ plan'[r] = plan[r] /\ at'[r] = at[r] /\ attempt'[r] = attempt[r]
        /\ calls'[r] = calls[r]
        /\ pc'[r] \in {"idle", "planning"} => pc[r] \in {"idle", "planning"}
        /\ pc'[r] = "exhausted" => attempt[r] = Retries
        /\ reply'[r] # "exhausted"
    BY <1>1, <1>4 DEF Rests, walkVars, SentOf
  <2>2. SentOf(r)' /\ DisciplineOf(r)'
    BY <1>1, <2>1, RestKeeps
  <2>3. QED
    BY <1>3, <2>2 DEF SentInv, FailoverDiscipline, DisciplineOf
<1>5. CASE PostsAgain(r)
  <2>1. SentOf(r)' /\ DisciplineOf(r)'
    BY <1>1, <1>5, AgainKeeps
  <2>2. QED
    BY <1>3, <2>1 DEF SentInv, FailoverDiscipline, DisciplineOf
<1>6. CASE PlansNothing(r)
  <2>1. /\ plan'[r] = {} /\ calls'[r] = calls[r] /\ pc'[r] = "replied"
        /\ reply'[r] # "exhausted"
        /\ \A m \in Names : calls[r][m] = 0
    BY <1>1, <1>2, <1>6 DEF PlansNothing, SentOf
  <2>2. SentOf(r)' /\ DisciplineOf(r)'
    BY <2>1 DEF SentOf, DisciplineOf
  <2>3. QED
    BY <1>3, <2>2 DEF SentInv, FailoverDiscipline, DisciplineOf
<1>7. ASSUME pc[r] = "planning" \/ pc[r] = "exhausted"
      PROVE  Targets(r) \in Seq(Names) /\ plan[r] \in SUBSET (DOMAIN Targets(r))
  <2>1. WalkOf(r) /\ input[r] \in InputType
    BY DeliveryAssumption DEF WalkInv, TypeOK
  <2>2. DeliverFrom(input[r]) \in Configured
    BY <1>7, <2>1 DEF WalkOf, Moving, PC
  <2>3. QED
    BY <2>1, <2>2, TargetsAreNames DEF WalkOf, Targets
<1>8. ASSUME NEW positions \in SUBSET (DOMAIN Targets(r)), NEW i \in Nat,
             Targets(r) \in Seq(Names), GoesOn(r, positions, i)
      PROVE  \A j, k \in positions : Targets(r)[j] = Targets(r)[k] => j = k
  <2>1. plan'[r] = positions /\ Targets(r)' = Targets(r)
    BY <1>8, GoesOnTo DEF Targets
  <2>2. QED
    BY <2>1 DEF PlansAreDistinct
<1>9. ASSUME NEW positions \in SUBSET (DOMAIN Targets(r)), pc[r] = "planning",
             GoesOn(r, positions, 0)
      PROVE  SentOf(r)' /\ DisciplineOf(r)'
  <2>1. /\ at[r] = 0 /\ reply[r] # "exhausted"
        /\ \A m \in Names : calls[r][m] = 0
    BY <1>1, <1>9 DEF SentOf
  <2>2. \A k \in positions : k > 0 /\ ~(k <= 0) /\ Targets(r)[k] \in Names
    BY <1>7, <1>9, ElementOfSeq, LenProperties
  <2>3. QED
    BY <1>7, <1>8, <1>9, <2>1, <2>2, GoesOnKeeps
<1>10. CASE /\ pc[r] = "exhausted" /\ GoesOn(r, plan[r], at[r])
            /\ \E m \in Names : m = Target(r) /\ Failed(r, m)'
  <2>1. /\ at[r] \in plan[r] /\ at[r] \in Nat
        /\ reply[r] # "exhausted" /\ attempt[r] = Retries
        /\ \A m \in Names : calls[r][m] > 0 => \E k \in plan[r] : Targets(r)[k] = m
    BY <1>1, <1>2, <1>10 DEF SentOf, WalkInv, WalkOf, Moving, PC
  <2>2. Targets(r)' = Targets(r)
    BY DEF Targets
  <2>3. ASSUME NEW k \in plan[r], Targets(r)[k] \in Configured
        PROVE  /\ k <= at[r] => /\ calls[r][Targets(r)[k]] = Retries + 1
                                /\ Failed(r, Targets(r)[k])'
               /\ k > at[r] => calls[r][Targets(r)[k]] = 0
    <3>1. Targets(r)[k] \in Names /\ k \in Nat
      BY <1>2, <2>3, ReliabilityAssumption
    <3>2. CASE k < at[r]
      <4>1. GaveUp(r, Targets(r)[k])
        BY <1>1, <2>3, <3>2 DEF DisciplineOf
      <4>2. calls[r][Targets(r)[k]] = Retries + 1 /\ Failed(r, Targets(r)[k])
        BY <4>1 DEF GaveUp, Failed
      <4>3. Failed(r, Targets(r)[k])'
        BY <2>2, <3>1, <4>2 DEF FailuresStay, Failed
      <4>4. QED
        BY <2>1, <3>1, <3>2, <4>2, <4>3
    <3>3. CASE k = at[r]
      <4>1. calls[r][Targets(r)[k]] = Retries + 1
        BY <1>1, <2>1, <2>3, <3>3 DEF DisciplineOf
      <4>2. Failed(r, Targets(r)[k])'
        BY <1>10, <2>2, <3>3 DEF Target, Failed
      <4>3. QED
        BY <3>1, <3>3, <4>1, <4>2
    <3>4. CASE k > at[r]
      BY <1>1, <2>1, <2>3, <3>1, <3>4 DEF DisciplineOf
    <3>5. QED
      BY <2>1, <3>1, <3>2, <3>3, <3>4
  <2>4. SentOf(r)' /\ DisciplineOf(r)'
    BY <1>7, <1>8, <1>10, <2>1, <2>3, GoesOnKeeps
  <2>5. QED
    BY <1>3, <2>4 DEF SentInv, FailoverDiscipline, DisciplineOf
<1>11. CASE pc[r] = "planning" /\ \E positions \in SUBSET (DOMAIN Targets(r)) :
                                     GoesOn(r, positions, 0)
  <2>1. SentOf(r)' /\ DisciplineOf(r)'
    BY <1>9, <1>11
  <2>2. QED
    BY <1>3, <2>1 DEF SentInv, FailoverDiscipline, DisciplineOf
<1>12. QED
  BY <1>4, <1>5, <1>6, <1>10, <1>11 DEF WalkStep

LEMMA WalkInvariant ==
    Spec => [](TypeOK /\ WalkInv /\ SentInv /\ FailoverDiscipline)
<1>1. Init => SentInv /\ FailoverDiscipline
  <2> SUFFICES ASSUME Init, NEW r \in Requests PROVE SentOf(r) /\ DisciplineOf(r)
    BY DEF SentInv, FailoverDiscipline, DisciplineOf
  <2>1. /\ pc[r] = "idle" /\ at[r] = 0 /\ reply[r] = "none" /\ plan[r] = {}
        /\ \A m \in Names : calls[r][m] = 0
    BY DEF Init
  <2>2. QED
    BY <2>1 DEF SentOf, DisciplineOf
<1>2. TypeOK /\ WalkInv /\ PlansAreDistinct /\ PlansAreDistinct'
      /\ SentInv /\ FailoverDiscipline /\ [Next]_vars
      => SentInv' /\ FailoverDiscipline'
  <2> SUFFICES ASSUME TypeOK, WalkInv, PlansAreDistinct, PlansAreDistinct',
                      SentInv, FailoverDiscipline, [Next]_vars
               PROVE  SentInv' /\ FailoverDiscipline'
    OBVIOUS
  <2>1. CASE Tick \/ AllDone \/ UNCHANGED vars
    <3>1. UNCHANGED <<pc, input, plan, at, attempt, calls, reply, verdicts>>
      BY <2>1 DEF Tick, AllDone, vars, breakerVars, walkVars, inputVars
    <3>2. FailuresStay
      BY <3>1 DEF FailuresStay, Failed
    <3>3. ASSUME NEW q \in Requests PROVE SentOf(q)' /\ DisciplineOf(q)'
      <4>1. SentOf(q) /\ DisciplineOf(q)
        BY DEF SentInv, FailoverDiscipline, DisciplineOf
      <4>2. QED
        BY <3>1, <3>2, <4>1, RestKeeps DEF SentOf
    <3>4. QED
      BY <3>3 DEF SentInv, FailoverDiscipline, DisciplineOf
  <2>2. ASSUME NEW r \in Requests, Arrive(r) \/ Progress(r) \/ Drop(r)
        PROVE  SentInv' /\ FailoverDiscipline'
    BY <2>2, WalkSteps, WalkStepKeeps, PlanStep
  <2>3. QED
    BY <2>1, <2>2 DEF Next
<1>3. QED
  BY <1>1, <1>2, VerdictInvariant, PTL DEF Spec

(* forward_upstream and stream_upstream: a target is left for the next one  *)
(* of the plan, or for a 502, after exactly Retries + 1 POSTs and a failing *)
(* verdict, and nothing is sent out of the order of the plan.               *)
THEOREM DisciplineHolds == Spec => []FailoverDiscipline
BY WalkInvariant, PTL

-----------------------------------------------------------------------------
(* Where a target of the list comes from.                                   *)

LEMMA CandidateIsOnItsSide ==
    ASSUME NEW m, NEW policy, NEW k \in DOMAIN FailoverCandidates(m, policy)
    PROVE  \E i \in DOMAIN Ladder :
              /\ i = FirstPosition(m) /\ i \in Nat /\ k \in Nat \ {0}
              /\ Ladder[i] = m
              /\ \/ /\ policy = "degrade" /\ i - k \in DOMAIN Ladder
                    /\ FailoverCandidates(m, policy)[k] = Ladder[i - k]
                 \/ /\ policy = "escalate" /\ i + k \in DOMAIN Ladder
                    /\ FailoverCandidates(m, policy)[k] = Ladder[i + k]
<1> DEFINE i == FirstPosition(m)
           c == FailoverCandidates(m, policy)
<1>1. Ladder \in Seq(Names) /\ Len(Ladder) \in Nat /\ DOMAIN Ladder = 1..Len(Ladder)
  BY ReliabilityAssumption, LenProperties
<1>2. Positions(m) # {}
  BY DEF FailoverCandidates
<1>3. i \in Positions(m)
  <2>1. Positions(m) \in SUBSET Nat
    BY <1>1 DEF Positions
  <2>2. QED
    BY <1>2, <2>1, LeastExists DEF FirstPosition
<1>4. i \in 1..Len(Ladder) /\ Ladder[i] = m
  BY <1>1, <1>3 DEF Positions
<1> HIDE DEF i
<1>5. CASE policy = "degrade"
  <2>1. c = [n \in 1..(i - 1) |-> Ladder[i - n]]
    BY <1>2, <1>5 DEF FailoverCandidates, i
  <2>2. k \in 1..(i - 1) /\ c[k] = Ladder[i - k]
    BY <2>1
  <2> HIDE DEF c
  <2>3. i - k \in 1..Len(Ladder) /\ k \in Nat \ {0}
    BY <1>1, <1>4, <2>2
  <2>4. QED
    BY <1>1, <1>4, <1>5, <2>2, <2>3 DEF c, i
<1>6. CASE policy = "escalate"
  <2>1. c = SubSeq(Ladder, i + 1, Len(Ladder))
    BY <1>2, <1>6 DEF FailoverCandidates, i
  <2>2. c = [n \in 1..(Len(Ladder) - i) |-> Ladder[i + n]]
    <3>1. SubSeq(Ladder, i + 1, Len(Ladder)) = [n \in 1..(Len(Ladder) - i) |-> Ladder[i + n]]
      BY <1>1, <1>4
    <3>2. QED
      BY <2>1, <3>1
  <2>3. k \in 1..(Len(Ladder) - i) /\ c[k] = Ladder[i + k]
    BY <2>2
  <2> HIDE DEF c
  <2>4. i + k \in 1..Len(Ladder) /\ k \in Nat \ {0}
    BY <1>1, <1>4, <2>3
  <2>5. QED
    BY <1>1, <1>4, <1>6, <2>3, <2>4 DEF c, i
<1>7. CASE policy \notin {"degrade", "escalate"}
  <2>1. c = << >>
    BY <1>2, <1>7 DEF FailoverCandidates
  <2>2. QED
    BY <2>1
<1>8. QED
  BY <1>5, <1>6, <1>7

LEMMA TargetComesFrom ==
    ASSUME NEW in \in InputType, DeliverFrom(in) \in Configured,
           NEW i \in DOMAIN TargetList(in)
    PROVE  LET first == DeliverFrom(in)
               f == Fallbacks[first]
               c == FailoverCandidates(first, in.policy)
           IN  /\ i \in Nat /\ Len(f) \in Nat
               /\ \/ i = 1 /\ TargetList(in)[i] = first
                  \/ /\ i <= 1 + Len(f)
                     /\ i - 1 \in DOMAIN f /\ TargetList(in)[i] = f[i - 1]
                  \/ /\ i > 1 + Len(f) /\ ~in.offline
                     /\ i - 1 - Len(f) \in DOMAIN c
                     /\ TargetList(in)[i] = c[i - 1 - Len(f)]
<1> DEFINE first == DeliverFrom(in)
           f == Fallbacks[first]
           c == FailoverCandidates(first, in.policy)
           tail == IF in.offline THEN << >> ELSE c
<1>1. /\ f \in Seq(Names) /\ <<first>> \in Seq(Names) /\ tail \in Seq(Names)
      /\ Len(<<first>>) = 1
  <2>1. first \in Names
    BY ReliabilityAssumption
  <2>2. f \in Seq(Names)
    BY ReliabilityAssumption, SeqMonotonic
  <2>3. tail \in Seq(Names)
    BY CandidatesAreNames, EmptySeq
  <2>4. QED
    BY <2>1, <2>2, <2>3
<1>2. TargetList(in) = (<<first>> \o f) \o tail
  BY DEF TargetList
<1> HIDE DEF first, f, tail
<1>3. /\ <<first>> \o f \in Seq(Names)
      /\ Len(<<first>> \o f) = 1 + Len(f)
      /\ \A n \in 1..(1 + Len(f)) :
            (<<first>> \o f)[n] = IF n <= 1 THEN <<first>>[n] ELSE f[n - 1]
  BY <1>1, ConcatProperties
<1>4. /\ Len(TargetList(in)) = 1 + Len(f) + Len(tail)
      /\ TargetList(in) \in Seq(Names)
      /\ \A n \in 1..(1 + Len(f) + Len(tail)) :
            TargetList(in)[n] = IF n <= 1 + Len(f) THEN (<<first>> \o f)[n]
                                                   ELSE tail[n - (1 + Len(f))]
  BY <1>1, <1>2, <1>3, ConcatProperties
<1>5. /\ Len(f) \in Nat /\ Len(tail) \in Nat
      /\ DOMAIN f = 1..Len(f) /\ DOMAIN tail = 1..Len(tail)
      /\ i \in 1..(1 + Len(f) + Len(tail))
  BY <1>1, <1>4, LenProperties
<1>6. CASE i = 1
  <2>1. TargetList(in)[1] = (<<first>> \o f)[1] /\ (<<first>> \o f)[1] = first
    <3>1. 1 \in 1..(1 + Len(f)) /\ 1 \in 1..(1 + Len(f) + Len(tail)) /\ 1 <= 1 + Len(f)
      BY <1>5
    <3>2. <<first>>[1] = first
      OBVIOUS
    <3>3. QED
      BY <1>3, <1>4, <3>1, <3>2
  <2>2. QED
    BY <1>5, <1>6, <2>1 DEF first, f
<1>7. CASE i > 1 /\ i <= 1 + Len(f)
  <2>1. i - 1 \in DOMAIN f /\ TargetList(in)[i] = f[i - 1] /\ i \in Nat
    BY <1>3, <1>4, <1>5, <1>7
  <2>2. QED
    BY <1>5, <1>7, <2>1 DEF f, first
<1>8. CASE i > 1 + Len(f)
  <2>1. /\ i - (1 + Len(f)) \in DOMAIN tail /\ i \in Nat
        /\ TargetList(in)[i] = tail[i - (1 + Len(f))]
        /\ i - (1 + Len(f)) = i - 1 - Len(f)
    BY <1>4, <1>5, <1>8
  <2>2. tail # << >>
    BY <2>1
  <2>3. ~in.offline /\ tail = c
    BY <2>2 DEF tail
  <2>4. QED
    BY <1>5, <1>8, <2>1, <2>3 DEF f, first
<1>9. QED
  BY <1>5, <1>6, <1>7, <1>8

-----------------------------------------------------------------------------
(* The sides.                                                               *)

LadderIsDistinct == \A i, j \in DOMAIN Ladder : Ladder[i] = Ladder[j] => i = j

(* Offline delivery starts where no endpoint is below.                      *)
LEMMA OfflineStartsLowest ==
    ASSUME LadderIsDistinct, NEW in \in InputType, in.offline, NEW n \in Configured
    PROVE  ~Below(n, DeliverFrom(in))
<1> SUFFICES ASSUME NEW i \in DOMAIN Ladder, NEW j \in DOMAIN Ladder,
                    i < j, Ladder[i] = n, Ladder[j] = DeliverFrom(in)
             PROVE  FALSE
  BY DEF Below
<1>1. LocalTiers \in SUBSET Nat /\ i \in LocalTiers /\ i \in Nat /\ j \in Nat
  <2>1. DOMAIN Ladder = 1..Len(Ladder) /\ Len(Ladder) \in Nat
    BY ReliabilityAssumption, LenProperties
  <2>2. QED
    BY <2>1 DEF LocalTiers
<1>2. PICK l \in LocalTiers : (\A k \in LocalTiers : l <= k) /\ DeliverFrom(in) = Ladder[l]
  <2> DEFINE l == CHOOSE k \in LocalTiers : \A o \in LocalTiers : k <= o
  <2>1. l \in LocalTiers /\ \A k \in LocalTiers : l <= k
    BY <1>1, LeastExists
  <2>2. DeliverFrom(in) = Ladder[l]
    BY <1>1 DEF DeliverFrom
  <2> HIDE DEF l
  <2>3. QED
    BY <2>1, <2>2
<1>3. l = j
  BY <1>2 DEF LadderIsDistinct, LocalTiers
<1>4. QED
  BY <1>1, <1>2, <1>3

LEMMA PlannedIsOnItsSide ==
    ASSUME LadderIsDistinct, NEW in \in InputType, DeliverFrom(in) \in Configured,
           NEW i \in DOMAIN TargetList(in), NEW m, m = TargetList(in)[i]
    PROVE  LET first == DeliverFrom(in)
           IN  /\ \/ m = first
                  \/ \E k \in DOMAIN Fallbacks[first] : Fallbacks[first][k] = m
                  \/ ~in.offline /\ in.policy = "degrade" /\ Below(m, first)
                  \/ ~in.offline /\ in.policy = "escalate" /\ Below(first, m)
               /\ in.offline => \A n \in Configured : ~Below(n, first)
<1> DEFINE first == DeliverFrom(in)
           f == Fallbacks[first]
           c == FailoverCandidates(first, in.policy)
<1>1. in.offline => \A n \in Configured : ~Below(n, first)
  BY OfflineStartsLowest
<1>2. ASSUME ~in.offline, NEW k \in DOMAIN c, m = c[k]
      PROVE  \/ in.policy = "degrade" /\ Below(m, first)
             \/ in.policy = "escalate" /\ Below(first, m)
  <2>1. PICK j \in DOMAIN Ladder :
              /\ j \in Nat /\ k \in Nat \ {0} /\ Ladder[j] = first
              /\ \/ /\ in.policy = "degrade" /\ j - k \in DOMAIN Ladder
                    /\ c[k] = Ladder[j - k]
                 \/ /\ in.policy = "escalate" /\ j + k \in DOMAIN Ladder
                    /\ c[k] = Ladder[j + k]
    BY <1>2, CandidateIsOnItsSide
  <2>2. j - k < j /\ j < j + k
    BY <2>1
  <2>3. QED
    BY <1>2, <2>1, <2>2 DEF Below
<1>3. \/ m = first
      \/ \E k \in DOMAIN f : m = f[k]
      \/ ~in.offline /\ \E k \in DOMAIN c : m = c[k]
  BY TargetComesFrom
<1>4. QED
  BY <1>1, <1>2, <1>3

LEMMA SidesFollow ==
    ASSUME LadderIsDistinct, TypeOK, WalkInv, SentInv
    PROVE  StaysOnItsSide
<1> SUFFICES ASSUME NEW r \in Requests, NEW m \in Names, calls[r][m] > 0
             PROVE  LET first == DeliverFrom(input[r])
                    IN  /\ \/ m = first
                           \/ \E k \in DOMAIN Fallbacks[first] : Fallbacks[first][k] = m
                           \/ ~input[r].offline /\ input[r].policy = "degrade" /\ Below(m, first)
                           \/ ~input[r].offline /\ input[r].policy = "escalate" /\ Below(first, m)
                        /\ input[r].offline => \A n \in Configured : ~Below(n, first)
  BY DEF StaysOnItsSide
<1>1. PICK i \in plan[r] : Targets(r)[i] = m
  BY DEF SentInv, SentOf
<1>2. /\ input[r] \in InputType /\ DeliverFrom(input[r]) \in Configured
      /\ i \in DOMAIN TargetList(input[r]) /\ m = TargetList(input[r])[i]
  BY <1>1, DeliveryAssumption DEF TypeOK, WalkInv, WalkOf, Targets
<1>3. QED
  BY <1>2, PlannedIsOnItsSide

(* failover_candidates and deliver_from: on a ladder that names every tier  *)
(* once, a request is sent to the model delivery starts at, to its          *)
(* fallbacks, or to the side its policy names; offline to no other tier,    *)
(* from the lowest that has an endpoint.                                    *)
THEOREM SidesAreKept ==
    ASSUME LadderIsDistinct
    PROVE  Spec => []StaysOnItsSide
BY WalkInvariant, SidesFollow, PTL

(* Two candidates of one list, in its order.                                *)
LEMMA CandidatesStepAway ==
    ASSUME NEW m, NEW policy, NEW k \in DOMAIN FailoverCandidates(m, policy),
           NEW l \in DOMAIN FailoverCandidates(m, policy), k < l
    PROVE  LET c == FailoverCandidates(m, policy)
           IN  \/ policy = "degrade" /\ Below(c[l], c[k])
               \/ policy = "escalate" /\ Below(c[k], c[l])
<1> DEFINE c == FailoverCandidates(m, policy)
           i == FirstPosition(m)
<1>1. /\ i \in Nat /\ k \in Nat \ {0} /\ l \in Nat \ {0}
      /\ \/ /\ policy = "degrade" /\ i - k \in DOMAIN Ladder /\ i - l \in DOMAIN Ladder
            /\ c[k] = Ladder[i - k] /\ c[l] = Ladder[i - l]
         \/ /\ policy = "escalate" /\ i + k \in DOMAIN Ladder /\ i + l \in DOMAIN Ladder
            /\ c[k] = Ladder[i + k] /\ c[l] = Ladder[i + l]
  <2>1. /\ i \in Nat /\ k \in Nat \ {0}
        /\ \/ /\ policy = "degrade" /\ i - k \in DOMAIN Ladder
              /\ c[k] = Ladder[i - k]
           \/ /\ policy = "escalate" /\ i + k \in DOMAIN Ladder
              /\ c[k] = Ladder[i + k]
    BY CandidateIsOnItsSide
  <2>2. /\ l \in Nat \ {0}
        /\ \/ /\ policy = "degrade" /\ i - l \in DOMAIN Ladder
              /\ c[l] = Ladder[i - l]
           \/ /\ policy = "escalate" /\ i + l \in DOMAIN Ladder
              /\ c[l] = Ladder[i + l]
    BY CandidateIsOnItsSide
  <2> HIDE DEF c, i
  <2>3. QED
    BY <2>1, <2>2
<1> HIDE DEF c, i
<1>2. i - l < i - k /\ i + k < i + l
  BY <1>1
<1>3. \/ policy = "degrade" /\ Below(c[l], c[k])
      \/ policy = "escalate" /\ Below(c[k], c[l])
  BY <1>1, <1>2 DEF Below
<1>4. QED
  BY <1>3 DEF c

LEMMA NearestFollows ==
    ASSUME TypeOK, WalkInv
    PROVE  NearestTierFirst
<1> SUFFICES ASSUME NEW r \in Requests, NEW i \in plan[r], NEW j \in plan[r],
                    1 + Len(Fallbacks[DeliverFrom(input[r])]) < i, i < j
             PROVE  \/ /\ input[r].policy = "degrade"
                       /\ Below(Targets(r)[j], Targets(r)[i])
                    \/ /\ input[r].policy = "escalate"
                       /\ Below(Targets(r)[i], Targets(r)[j])
  BY DEF NearestTierFirst
<1> DEFINE in == input[r]
           first == DeliverFrom(in)
           n == Len(Fallbacks[first])
           c == FailoverCandidates(first, in.policy)
           list == TargetList(in)
<1>0. 1 + n < i /\ i < j
  OBVIOUS
<1>1. /\ in \in InputType /\ first \in Configured
      /\ i \in DOMAIN list /\ j \in DOMAIN list
  BY DeliveryAssumption DEF TypeOK, WalkInv, WalkOf, Targets
<1>2. /\ i \in Nat /\ n \in Nat
      /\ \/ i = 1
         \/ i <= 1 + n
         \/ i - 1 - n \in DOMAIN c /\ list[i] = c[i - 1 - n]
  BY <1>1, TargetComesFrom
<1>3. /\ j \in Nat
      /\ \/ j = 1
         \/ j <= 1 + n
         \/ j - 1 - n \in DOMAIN c /\ list[j] = c[j - 1 - n]
  BY <1>1, TargetComesFrom
<1>4. /\ i - 1 - n \in DOMAIN c /\ list[i] = c[i - 1 - n]
      /\ j - 1 - n \in DOMAIN c /\ list[j] = c[j - 1 - n]
      /\ i - 1 - n < j - 1 - n
  <2> HIDE DEF c, n, list
  <2>1. ~(i = 1) /\ ~(i <= 1 + n) /\ ~(j = 1) /\ ~(j <= 1 + n) /\ i - 1 - n < j - 1 - n
    BY <1>0, <1>2, <1>3
  <2>2. QED
    BY <1>2, <1>3, <2>1
<1>5. \/ in.policy = "degrade" /\ Below(c[j - 1 - n], c[i - 1 - n])
      \/ in.policy = "escalate" /\ Below(c[i - 1 - n], c[j - 1 - n])
  BY <1>4, CandidatesStepAway
<1>6. QED
  BY <1>4, <1>5 DEF Targets

(* failover_candidates: past the fallbacks, the plan of every request takes *)
(* the nearest tier of its side first.                                      *)
THEOREM NearestComesFirst == Spec => []NearestTierFirst
BY TypeAndWalk, NearestFollows, PTL

(***************************************************************************)
(* The books: rate limiter, savings ledger, metrics and recent ring agree  *)
(* on the delivered turns.                                                 *)
(***************************************************************************)
-----------------------------------------------------------------------------
(* How many of the four books know of a request's turn: the rate limiter,   *)
(* the ledger, the metrics, the ring, in this order on both paths.          *)
Early == {"idle", "planning", "flight", "backoff", "exhausted", "refused", "open"}

Stage(r) ==
    CASE ~finished[r] -> 0
      [] finished[r] /\ pc[r] = "charge" -> 0
      [] finished[r] /\ pc[r] = "won" /\ ~input[r].stream -> 0
      [] finished[r] /\ pc[r] = "bill" -> 1
      [] finished[r] /\ pc[r] = "observe" -> 2
      [] finished[r] /\ pc[r] = "publish" -> 3
      [] OTHER -> 4

LateOnly == \A r \in Requests : finished[r] => pc[r] \notin Early

(* The turns a book knows of.                                               *)
Known(k) == {r \in Requests : Stage(r) >= k}
BilledTo(m) == {r \in Known(2) : Target(r) = m}
DecidedFor(m) == {r \in Known(3) : input[r].chosen = m}
FailedOver(m) == {r \in DecidedFor(m) : Target(r) # m /\ ~input[r].offline}

BooksInv ==
    /\ charged = Cardinality(Known(1))
    /\ \A m \in Names :
          /\ ledger[m] = Cardinality(BilledTo(m))
          /\ decisions[m] = Cardinality(DecidedFor(m))
          /\ failovers[m] = Cardinality(FailedOver(m))
    /\ Len(recent) = IF Cardinality(Known(4)) < RecentLimit
                     THEN Cardinality(Known(4)) ELSE RecentLimit

-----------------------------------------------------------------------------
(* Steps.                                                                   *)

OthersWait(r) ==
    \A q \in Requests \ {r} :
        pc'[q] = pc[q] /\ finished'[q] = finished[q] /\ at'[q] = at[q]

(* A step that no book hears of.                                            *)
Unheard(r) ==
    /\ UNCHANGED bookVars
    /\ Stage(r)' = Stage(r)
    /\ Stage(r) > 0 => at'[r] = at[r]

(* The steps of a settlement.                                               *)
Settles(r) ==
    /\ at' = at
    /\ \/ Stage(r) = 0 /\ Stage(r)' = 1 /\ Charge(r)
       \/ Stage(r) = 1 /\ Stage(r)' = 2 /\ Bill(r)
       \/ Stage(r) = 2 /\ Stage(r)' = 3 /\ Observe(r)
       \/ Stage(r) = 3 /\ Stage(r)' = 4 /\ Publish(r)

LEMMA BookSteps ==
    ASSUME TypeOK, WalkInv, SettledIsFinished, LateOnly, NEW r \in Requests,
           Arrive(r) \/ Progress(r) \/ Drop(r)
    PROVE  OthersWait(r) /\ LateOnly' /\ (Unheard(r) \/ Settles(r))
<1> USE DEF inputVars, walkVars
<1>1. /\ pc \in [Requests -> PC] /\ at \in [Requests -> Nat]
      /\ finished \in [Requests -> BOOLEAN]
      /\ input \in [Requests -> Inputs]
  BY DEF TypeOK
<1>2. finished[r] => pc[r] \notin Early
  BY DEF LateOnly
<1>3. \A q \in Requests \ {r} : pc'[q] = pc[q] /\ at'[q] = at[q]
  BY StepKinds
(* A request of which no book knows moves without settling.                 *)
<1>4. ASSUME ~finished[r], finished' = finished, UNCHANGED bookVars
      PROVE  OthersWait(r) /\ LateOnly' /\ Unheard(r)
  <2>1. Stage(r) = 0 /\ Stage(r)' = 0
    BY <1>4 DEF Stage
  <2>2. QED
    BY <1>3, <1>4, <2>1 DEF OthersWait, LateOnly, Unheard
(* A turn is delivered: no book knows of it yet.                            *)
<1>5. ASSUME NEW to \in {"won", "charge"}, ~finished[r], pc' = [pc EXCEPT ![r] = to],
             finished' = [finished EXCEPT ![r] = TRUE],
             input' = input, to = "won" => ~input[r].stream, UNCHANGED bookVars
      PROVE  OthersWait(r) /\ LateOnly' /\ Unheard(r)
  <2>1. pc'[r] = to /\ finished'[r] /\ \A q \in Requests \ {r} : finished'[q] = finished[q]
    BY <1>1, <1>5
  <2>2. Stage(r) = 0 /\ Stage(r)' = 0
    BY <1>5, <2>1 DEF Stage
  <2>3. LateOnly'
    BY <1>3, <1>5, <2>1 DEF LateOnly, Early
  <2>4. QED
    BY <1>3, <1>5, <2>1, <2>2, <2>3 DEF OthersWait, Unheard
(* A settled turn, or one to be charged, moves on.                          *)
<1>6. ASSUME NEW to \in PC \ Early, pc' = [pc EXCEPT ![r] = to],
             UNCHANGED <<finished, at, bookVars>>, Stage(r)' = Stage(r)
      PROVE  OthersWait(r) /\ LateOnly' /\ Unheard(r)
  <2>1. pc'[r] = to
    BY <1>1, <1>6
  <2>2. QED
    BY <1>3, <1>6, <2>1 DEF OthersWait, LateOnly, Unheard
<1>7. CASE Arrive(r) \/ MakePlan(r) \/ FailAttempt(r) \/ WakeUp(r) \/ Exhaust(r)
           \/ OpenStream(r) \/ Refuse(r) \/ RecordRefusal(r) \/ Reject(r) \/ LoseBody(r)
  <2>1. pc[r] \in Early /\ finished' = finished /\ UNCHANGED bookVars
    <3>1. CASE Arrive(r) \/ MakePlan(r)
      BY <3>1 DEF Arrive, MakePlan, Early
    <3>2. CASE FailAttempt(r) \/ WakeUp(r) \/ Exhaust(r) \/ OpenStream(r)
      BY <3>2 DEF FailAttempt, WakeUp, Exhaust, OpenStream, Goto, Early
    <3>3. CASE Refuse(r) \/ RecordRefusal(r) \/ Reject(r) \/ LoseBody(r)
      BY <3>3 DEF Refuse, RecordRefusal, Reject, LoseBody, Goto, Early
    <3>4. QED
      BY <1>7, <3>1, <3>2, <3>3
  <2>2. QED
    BY <1>2, <1>4, <2>1
<1>8. CASE Win(r)
  <2>1. /\ pc[r] \in Early /\ pc' = [pc EXCEPT ![r] = "won"] /\ ~input[r].stream
        /\ finished' = [finished EXCEPT ![r] = TRUE] /\ input' = input
        /\ UNCHANGED bookVars
    BY <1>8 DEF Win, Goto, Early
  <2>2. QED
    BY <1>2, <1>5, <2>1
<1>9. CASE StreamDone(r) \/ StreamEnd(r)
  <2>1. PICK done \in {"tail", "replied"} :
           /\ pc[r] \in {"open", "tail"} /\ Settle(r, done)
           /\ input' = input /\ at' = at /\ UNCHANGED bookVars
    BY <1>9 DEF StreamDone, StreamEnd
  <2>2. CASE finished[r]
    <3>1. pc' = [pc EXCEPT ![r] = done] /\ finished' = finished /\ pc[r] = "tail"
      <4>1. finished' = [finished EXCEPT ![r] = TRUE] /\ [finished EXCEPT ![r] = TRUE] = finished
        BY <1>1, <2>1, <2>2 DEF Settle
      <4>2. QED
        BY <1>2, <2>1, <2>2, <4>1 DEF Settle, Early
    <3>2. pc'[r] = done
      BY <1>1, <3>1
    <3>3. Stage(r)' = Stage(r)
      BY <2>2, <3>1, <3>2 DEF Stage
    <3>4. done \in PC \ Early
      BY DEF PC, Early
    <3>5. QED
      BY <1>6, <2>1, <3>1, <3>3, <3>4
  <2>3. CASE ~finished[r]
    <3>1. pc' = [pc EXCEPT ![r] = "charge"] /\ finished' = [finished EXCEPT ![r] = TRUE]
      BY <2>1, <2>3 DEF Settle
    <3>2. QED
      BY <1>5, <2>1, <2>3, <3>1
  <2>4. QED
    BY <2>2, <2>3
<1>10. CASE StreamError(r) \/ RecordBroken(r) \/ Drop(r)
  <2>1. /\ pc[r] \in {"flight", "backoff", "open", "tail", "broken"}
        /\ UNCHANGED <<finished, at, bookVars>>
        /\ \E to \in {"broken", "replied", "dropped"} : pc' = [pc EXCEPT ![r] = to]
    BY <1>10 DEF StreamError, RecordBroken, Drop, Goto
  <2>2. CASE ~finished[r]
    BY <1>4, <2>1, <2>2
  <2>3. CASE finished[r]
    <3>1. PICK to \in {"broken", "replied", "dropped"} : pc' = [pc EXCEPT ![r] = to]
      BY <2>1
    <3>2. pc'[r] = to /\ pc[r] \in {"tail", "broken"} /\ to \in PC \ Early
      BY <1>1, <1>2, <2>1, <2>3, <3>1 DEF PC, Early
    <3>3. Stage(r)' = Stage(r)
      BY <2>1, <2>3, <3>2 DEF Stage
    <3>4. QED
      BY <1>6, <2>1, <3>1, <3>2, <3>3
  <2>4. QED
    BY <2>2, <2>3
<1>11. ASSUME pc[r] \in Settling PROVE finished[r]
  BY <1>11 DEF SettledIsFinished
<1>12. CASE Credit(r)
  <2> DEFINE to == IF ~input[r].stream THEN "charge"
                   ELSE IF ended[r] THEN "replied" ELSE "tail"
  <2>1. /\ pc[r] = "won" /\ pc' = [pc EXCEPT ![r] = to]
        /\ UNCHANGED <<finished, at, bookVars, input>>
    BY <1>12 DEF Credit
  <2>2. finished[r] /\ to \in PC \ Early /\ to \notin {"won", "bill", "observe", "publish"}
        /\ (to = "charge" <=> ~input[r].stream)
    BY <1>11, <2>1 DEF Settling, PC, Early
  <2> HIDE DEF to
  <2>3. pc'[r] = to
    BY <1>1, <2>1
  <2>4. Stage(r)' = Stage(r)
    BY <2>1, <2>2, <2>3 DEF Stage
  <2>5. QED
    BY <1>6, <2>1, <2>2, <2>4
<1>13. CASE Charge(r) \/ Bill(r) \/ Observe(r) \/ Publish(r)
  <2>1. /\ pc[r] \in Settling /\ UNCHANGED <<finished, at, input>>
        /\ \E to \in PC \ Early : pc' = [pc EXCEPT ![r] = to]
    <3>1. CASE Charge(r) \/ Bill(r) \/ Observe(r)
      BY <3>1 DEF Charge, Bill, Observe, Goto, Settling, PC, Early
    <3>2. CASE Publish(r)
      <4>1. /\ pc[r] = "publish" /\ UNCHANGED <<finished, at, input>>
            /\ pc' = [pc EXCEPT ![r] = IF input[r].stream THEN "won" ELSE "replied"]
        BY <3>2 DEF Publish
      <4>2. (IF input[r].stream THEN "won" ELSE "replied") \in PC \ Early
        BY DEF PC, Early
      <4>3. QED
        BY <4>1, <4>2 DEF Settling
    <3>3. QED
      BY <1>13, <3>1, <3>2
  <2>2. OthersWait(r) /\ LateOnly'
    <3>1. pc'[r] \notin Early
      BY <1>1, <2>1
    <3>2. QED
      BY <1>3, <2>1, <3>1 DEF OthersWait, LateOnly
  <2>3. finished[r] /\ finished'[r]
    BY <1>11, <2>1
  <2>4. CASE Charge(r)
    <3>1. pc[r] = "charge" /\ pc'[r] = "bill"
      BY <1>1, <2>4 DEF Charge, Goto
    <3>2. QED
      BY <2>1, <2>2, <2>3, <2>4, <3>1 DEF Stage, Settles
  <2>5. CASE Bill(r)
    <3>1. pc[r] = "bill" /\ pc'[r] = "observe"
      BY <1>1, <2>5 DEF Bill, Goto
    <3>2. QED
      BY <2>1, <2>2, <2>3, <2>5, <3>1 DEF Stage, Settles
  <2>6. CASE Observe(r)
    <3>1. pc[r] = "observe" /\ pc'[r] = "publish"
      BY <1>1, <2>6 DEF Observe, Goto
    <3>2. QED
      BY <2>1, <2>2, <2>3, <2>6, <3>1 DEF Stage, Settles
  <2>7. CASE Publish(r)
    <3>1. pc[r] = "publish" /\ pc'[r] = IF input[r].stream THEN "won" ELSE "replied"
      BY <1>1, <2>7 DEF Publish
    <3>2. QED
      BY <2>1, <2>2, <2>3, <2>7, <3>1 DEF Stage, Settles
  <2>8. QED
    BY <1>13, <2>4, <2>5, <2>6, <2>7
<1>14. QED
  BY <1>7, <1>8, <1>9, <1>10, <1>12, <1>13 DEF Progress

-----------------------------------------------------------------------------
(* Counting.                                                                *)

LEMMA StageType == \A r : Stage(r) \in 0..4
BY DEF Stage

LEMMA StageTypeNext == \A r : Stage(r)' \in 0..4
BY DEF Stage

(* A subset of the requests and its size, one more of them and its size.    *)
LEMMA OneMore ==
    ASSUME IsFiniteSet(Requests), NEW S \in SUBSET Requests, NEW r \in Requests
    PROVE  /\ Cardinality(S) \in Nat
           /\ r \notin S => Cardinality(S \cup {r}) = Cardinality(S) + 1
<1>1. IsFiniteSet(S)
  BY FS_Subset
<1>2. QED
  BY <1>1, FS_CardinalityType, FS_AddElement

(* Nobody but r moves, r by at most one book.                               *)
LEMMA OthersStayKnown ==
    ASSUME NEW r \in Requests, OthersWait(r), input' = input
    PROVE  \A q \in Requests \ {r} :
              Stage(q)' = Stage(q) /\ Target(q)' = Target(q)
BY DEF OthersWait, Stage, Target, Targets

LEMMA UnheardKeepsBooks ==
    ASSUME NEW r \in Requests, OthersWait(r), Unheard(r), input' = input, BooksInv
    PROVE  BooksInv'
<1>1. /\ \A q \in Requests : Stage(q)' = Stage(q)
      /\ \A q \in Requests : Stage(q) > 0 => Target(q)' = Target(q)
  BY OthersStayKnown DEF Unheard, Target, Targets
<1>2. Known(1)' = Known(1) /\ Known(2)' = Known(2) /\ Known(3)' = Known(3)
      /\ Known(4)' = Known(4)
  BY <1>1 DEF Known
<1>3. \A q \in Known(2) : Target(q)' = Target(q)
  BY <1>1, StageType DEF Known
<1>4. \A q \in Known(3) : Target(q)' = Target(q)
  BY <1>1, StageType DEF Known
<1>5. ASSUME NEW m \in Names
      PROVE  /\ BilledTo(m)' = BilledTo(m) /\ DecidedFor(m)' = DecidedFor(m)
             /\ FailedOver(m)' = FailedOver(m)
  <2>1. BilledTo(m)' = BilledTo(m)
    BY <1>2, <1>3 DEF BilledTo
  <2>2. DecidedFor(m)' = DecidedFor(m)
    BY <1>2 DEF DecidedFor
  <2>3. FailedOver(m)' = FailedOver(m)
    BY <1>2, <1>4, <2>2 DEF FailedOver, DecidedFor
  <2>4. QED
    BY <2>1, <2>2, <2>3
<1>6. UNCHANGED <<charged, ledger, decisions, failovers, recent>>
  BY DEF Unheard, bookVars
<1>7. QED
  BY <1>2, <1>5, <1>6 DEF BooksInv

LEMMA SettlingKeepsBooks ==
    ASSUME IsFiniteSet(Requests), TypeOK, WalkInv, NEW r \in Requests, OthersWait(r),
           Settles(r), input' = input, BooksInv
    PROVE  BooksInv'
<1>1. /\ charged \in Nat /\ ledger \in [Names -> Nat] /\ decisions \in [Names -> Nat]
      /\ failovers \in [Names -> Nat] /\ recent \in Seq(Names \X Names)
      /\ RecentLimit \in Nat /\ input[r] \in InputType
  BY DeliveryAssumption DEF TypeOK
<1>2. \A q \in Requests : Target(q)' = Target(q)
  BY DEF Settles, Target, Targets
<1>3. \A q \in Requests \ {r} : Stage(q)' = Stage(q)
  BY OthersStayKnown
<1>4. /\ \A k : Known(k) \in SUBSET Requests
      /\ \A m : /\ BilledTo(m) \in SUBSET Requests /\ DecidedFor(m) \in SUBSET Requests
                /\ FailedOver(m) \in SUBSET Requests
  BY DEF Known, BilledTo, DecidedFor, FailedOver
<1>5. ASSUME NEW s \in 0..3, Stage(r) = s, Stage(r)' = s + 1
      PROVE  /\ \A k \in 1..4 : k # s + 1 => Known(k)' = Known(k)
             /\ Known(s + 1)' = Known(s + 1) \cup {r}
             /\ r \notin Known(s + 1)
  BY <1>3, <1>5 DEF Known
<1>6. ASSUME Known(2)' = Known(2)
      PROVE  \A m \in Names : BilledTo(m)' = BilledTo(m)
  BY <1>2, <1>4, <1>6 DEF BilledTo
<1>7. ASSUME Known(3)' = Known(3)
      PROVE  \A m \in Names : /\ DecidedFor(m)' = DecidedFor(m)
                              /\ FailedOver(m)' = FailedOver(m)
  BY <1>2, <1>4, <1>7 DEF DecidedFor, FailedOver
<1>8. CASE Stage(r) = 0 /\ Stage(r)' = 1 /\ Charge(r)
  <2>1. /\ Known(1)' = Known(1) \cup {r} /\ r \notin Known(1)
        /\ Known(2)' = Known(2) /\ Known(3)' = Known(3) /\ Known(4)' = Known(4)
    BY <1>5, <1>8
  <2>2. charged' = charged + 1 /\ UNCHANGED <<ledger, decisions, failovers, recent>>
    BY <1>8 DEF Charge
  <2>3. Cardinality(Known(1)') = Cardinality(Known(1)) + 1
    BY <1>4, <2>1, OneMore
  <2>4. QED
    BY <1>6, <1>7, <2>1, <2>2, <2>3 DEF BooksInv
<1>9. CASE Stage(r) = 1 /\ Stage(r)' = 2 /\ Bill(r)
  <2>1. /\ Known(2)' = Known(2) \cup {r} /\ r \notin Known(2)
        /\ Known(1)' = Known(1) /\ Known(3)' = Known(3) /\ Known(4)' = Known(4)
    BY <1>5, <1>9
  <2>2. /\ ledger' = [ledger EXCEPT ![Target(r)] = @ + 1]
        /\ UNCHANGED <<charged, decisions, failovers, recent>>
    BY <1>9 DEF Bill
  <2>3. ASSUME NEW m \in Names PROVE ledger'[m] = Cardinality(BilledTo(m)')
    <3>0. ledger[m] = Cardinality(BilledTo(m))
      BY DEF BooksInv
    <3>1. CASE m = Target(r)
      <4>1. BilledTo(m)' = BilledTo(m) \cup {r} /\ r \notin BilledTo(m)
        BY <1>2, <1>4, <2>1, <3>1 DEF BilledTo
      <4>2. Cardinality(BilledTo(m)') = Cardinality(BilledTo(m)) + 1
        BY <1>4, <4>1, OneMore
      <4>3. ledger'[m] = ledger[m] + 1
        BY <1>1, <2>2, <3>1
      <4>4. QED
        BY <3>0, <4>2, <4>3
    <3>2. CASE m # Target(r)
      <4>1. BilledTo(m)' = BilledTo(m)
        BY <1>2, <1>4, <2>1, <3>2 DEF BilledTo
      <4>2. ledger'[m] = ledger[m]
        BY <1>1, <2>2, <3>2
      <4>3. QED
        BY <3>0, <4>1, <4>2
    <3>3. QED
      BY <3>1, <3>2
  <2>4. QED
    BY <1>7, <2>1, <2>2, <2>3 DEF BooksInv
<1>10. CASE Stage(r) = 2 /\ Stage(r)' = 3 /\ Observe(r)
  <2> DEFINE c == input[r].chosen
  <2>1. /\ Known(3)' = Known(3) \cup {r} /\ r \notin Known(3)
        /\ Known(1)' = Known(1) /\ Known(2)' = Known(2) /\ Known(4)' = Known(4)
    BY <1>5, <1>10
  <2>2. /\ decisions' = [decisions EXCEPT ![c] = @ + 1]
        /\ failovers' = IF Target(r) # c /\ ~input[r].offline
                        THEN [failovers EXCEPT ![c] = @ + 1] ELSE failovers
        /\ UNCHANGED <<charged, ledger, recent>>
    BY <1>10 DEF Observe
  <2>3. ASSUME NEW m \in Names
        PROVE  /\ decisions'[m] = Cardinality(DecidedFor(m)')
               /\ failovers'[m] = Cardinality(FailedOver(m)')
    <3>0. /\ decisions[m] = Cardinality(DecidedFor(m))
          /\ failovers[m] = Cardinality(FailedOver(m))
      BY DEF BooksInv
    <3>1. CASE m = c
      <4>1. DecidedFor(m)' = DecidedFor(m) \cup {r} /\ r \notin DecidedFor(m)
        BY <2>1, <3>1 DEF DecidedFor
      <4>2. decisions'[m] = Cardinality(DecidedFor(m)')
        <5>1. decisions'[m] = decisions[m] + 1
          BY <1>1, <2>2, <3>1
        <5>2. Cardinality(DecidedFor(m)') = Cardinality(DecidedFor(m)) + 1
          BY <1>4, <4>1, OneMore
        <5>3. QED
          BY <3>0, <5>1, <5>2
      <4>3. CASE Target(r) # c /\ ~input[r].offline
        <5>1. FailedOver(m)' = FailedOver(m) \cup {r} /\ r \notin FailedOver(m)
          BY <1>2, <1>4, <2>1, <3>1, <4>1, <4>3 DEF FailedOver
        <5>2. failovers'[m] = failovers[m] + 1
          BY <1>1, <2>2, <3>1, <4>3
        <5>3. Cardinality(FailedOver(m)') = Cardinality(FailedOver(m)) + 1
          BY <1>4, <5>1, OneMore
        <5>4. QED
          BY <3>0, <4>2, <5>2, <5>3
      <4>4. CASE ~(Target(r) # c /\ ~input[r].offline)
        <5>1. FailedOver(m)' = FailedOver(m)
          BY <1>2, <1>4, <2>1, <3>1, <4>1, <4>4 DEF FailedOver
        <5>2. failovers' = failovers
          BY <2>2, <4>4
        <5>3. QED
          BY <3>0, <4>2, <5>1, <5>2
      <4>5. QED
        BY <4>3, <4>4
    <3>2. CASE m # c
      <4>1. DecidedFor(m)' = DecidedFor(m)
        BY <2>1, <3>2 DEF DecidedFor
      <4>2. FailedOver(m)' = FailedOver(m)
        BY <1>2, <1>4, <4>1 DEF FailedOver
      <4>3. decisions'[m] = decisions[m] /\ failovers'[m] = failovers[m]
        BY <1>1, <2>2, <3>2
      <4>4. QED
        BY <3>0, <4>1, <4>2, <4>3
    <3>3. QED
      BY <3>1, <3>2
  <2>4. QED
    BY <1>6, <2>1, <2>2, <2>3 DEF BooksInv
<1>11. CASE Stage(r) = 3 /\ Stage(r)' = 4 /\ Publish(r)
  <2> DEFINE entry == <<<<input[r].chosen, Target(r)>>>>
             longer == entry \o recent
             n == Cardinality(Known(4))
  <2>1. /\ Known(4)' = Known(4) \cup {r} /\ r \notin Known(4)
        /\ Known(1)' = Known(1) /\ Known(2)' = Known(2) /\ Known(3)' = Known(3)
    BY <1>5, <1>11
  <2>2. /\ recent' = IF Len(longer) > RecentLimit
                     THEN SubSeq(longer, 1, RecentLimit) ELSE longer
        /\ UNCHANGED <<charged, ledger, decisions, failovers>>
    BY <1>11 DEF Publish
  <2>3. Cardinality(Known(4)') = n + 1 /\ n \in Nat
    BY <1>4, <2>1, OneMore
  <2>4. longer \in Seq(Names \X Names) /\ Len(longer) = 1 + Len(recent)
    <3>1. pc[r] \in Moving
      BY <1>11 DEF Publish, Moving, PC
    <3>2. Target(r) \in Names /\ input[r].chosen \in Names
      BY <1>1, <3>1, TargetIsName DEF WalkInv, WalkOf, Target, InputType
    <3>3. entry \in Seq(Names \X Names) /\ Len(entry) = 1
      BY <3>2
    <3> DEFINE Pairs == Names \X Names
    <3>4. entry \in Seq(Pairs) /\ recent \in Seq(Pairs)
      BY <1>1, <3>3
    <3> HIDE DEF entry, Pairs, n
    <3>5. entry \o recent \in Seq(Pairs) /\ Len(entry \o recent) = Len(entry) + Len(recent)
      BY ONLY <3>4, ConcatProperties
    <3>6. QED
      BY <3>3, <3>5 DEF Pairs
  <2> HIDE DEF longer
  <2>5. Len(recent) = (IF n < RecentLimit THEN n ELSE RecentLimit) /\ Len(recent) \in Nat
    BY <1>1, LenProperties DEF BooksInv
  <2>6. Len(recent') = IF n + 1 < RecentLimit THEN n + 1 ELSE RecentLimit
    <3> HIDE DEF n
    <3>1. CASE Len(longer) > RecentLimit
      <4>1. recent' = SubSeq(longer, 1, RecentLimit)
        BY <2>2, <3>1
      <4>2. Len(recent') = RecentLimit
        <5>1. \A k \in 1..RecentLimit : longer[k] \in Names \X Names
          BY <1>1, <2>4, <2>5, <3>1, LenProperties, ElementOfSeq
        <5>2. QED
          BY <1>1, <4>1, <5>1, SubSeqProperties
      <4>3. ~(n + 1 < RecentLimit)
        BY <1>1, <2>3, <2>4, <2>5, <3>1
      <4>4. QED
        BY <4>2, <4>3
    <3>2. CASE ~(Len(longer) > RecentLimit)
      <4>1. recent' = longer
        BY <2>2, <3>2
      <4>2. QED
        BY <1>1, <2>3, <2>4, <2>5, <3>2, <4>1
    <3>3. QED
      BY <3>1, <3>2
  <2>7. QED
    BY <1>6, <1>7, <2>1, <2>2, <2>3, <2>6 DEF BooksInv
<1>12. QED
  BY <1>8, <1>9, <1>10, <1>11 DEF Settles

-----------------------------------------------------------------------------
(* The invariant.                                                           *)

LEMMA BooksStart == Init => LateOnly /\ BooksInv
<1> SUFFICES ASSUME Init PROVE LateOnly /\ BooksInv
  OBVIOUS
<1>1. \A r \in Requests : Stage(r) = 0 /\ ~finished[r]
  BY DEF Init, Stage
<1>2. \A k \in 1..4 : Known(k) = {}
  BY <1>1 DEF Known
<1>3. \A m : BilledTo(m) = {} /\ DecidedFor(m) = {} /\ FailedOver(m) = {}
  BY <1>2 DEF BilledTo, DecidedFor, FailedOver
<1>4. /\ charged = 0 /\ recent = << >>
      /\ \A m \in Names : ledger[m] = 0 /\ decisions[m] = 0 /\ failovers[m] = 0
  BY DEF Init
<1>5. LateOnly
  BY <1>1 DEF LateOnly
<1>6. BooksInv
  <2>1. Len(recent) = 0 /\ RecentLimit \in Nat
    BY <1>4, DeliveryAssumption
  <2>2. Cardinality({}) = 0
    BY FS_EmptySet
  <2>3. Cardinality(Known(1)) = 0 /\ Cardinality(Known(4)) = 0
    BY <1>2, <2>2
  <2>4. \A m \in Names : /\ Cardinality(BilledTo(m)) = 0
                         /\ Cardinality(DecidedFor(m)) = 0
                         /\ Cardinality(FailedOver(m)) = 0
    BY <1>3, <2>2
  <2>5. QED
    BY <1>4, <2>1, <2>3, <2>4 DEF BooksInv
<1>7. QED
  BY <1>5, <1>6

LEMMA BooksStep ==
    ASSUME IsFiniteSet(Requests), TypeOK, WalkInv, SettledIsFinished, LateOnly,
           BooksInv, [Next]_vars
    PROVE  LateOnly' /\ BooksInv'
<1>1. CASE Tick \/ AllDone \/ UNCHANGED vars
  <2>1. UNCHANGED <<pc, input, at, finished, bookVars>>
    BY <1>1 DEF Tick, AllDone, vars, walkVars, inputVars
  <2>2. LateOnly'
    BY <2>1 DEF LateOnly
  <2>3. \A r \in Requests : Stage(r)' = Stage(r) /\ Target(r)' = Target(r)
    BY <2>1 DEF Stage, Target, Targets
  <2>4. CASE Requests = {}
    <3>1. Known(1) = {} /\ Known(2) = {} /\ Known(3) = {} /\ Known(4) = {}
          /\ Known(1)' = {} /\ Known(2)' = {} /\ Known(3)' = {} /\ Known(4)' = {}
      BY <2>4 DEF Known
    <3>2. \A m : /\ BilledTo(m)' = BilledTo(m) /\ DecidedFor(m)' = DecidedFor(m)
                 /\ FailedOver(m)' = FailedOver(m)
      BY <3>1 DEF BilledTo, DecidedFor, FailedOver
    <3>3. QED
      BY <2>1, <2>2, <3>1, <3>2 DEF BooksInv, bookVars
  <2>5. ASSUME NEW r \in Requests PROVE BooksInv'
    <3>1. OthersWait(r)
      BY <2>1 DEF OthersWait
    <3>2. Unheard(r)
      BY <2>1, <2>3 DEF Unheard, bookVars
    <3>3. QED
      BY <2>1, <3>1, <3>2, UnheardKeepsBooks
  <2>6. QED
    BY <2>2, <2>4, <2>5
<1>2. ASSUME NEW r \in Requests, Arrive(r) \/ Progress(r) \/ Drop(r)
      PROVE  LateOnly' /\ BooksInv'
  BY <1>2, BookSteps, UnheardKeepsBooks, SettlingKeepsBooks, PlanStep
<1>3. QED
  BY <1>1, <1>2 DEF Next

LEMMA BooksFollow ==
    ASSUME SettledIsFinished, LateOnly, BooksInv, TypeOK
    PROVE  BooksAgree
<1> SUFFICES ASSUME \A r \in Requests : pc[r] \notin Settling
             PROVE  /\ charged = Cardinality(Delivered)
                    /\ Len(recent) = IF charged < RecentLimit THEN charged ELSE RecentLimit
                    /\ \A m \in Names :
                        /\ ledger[m] = Cardinality({r \in Delivered : Target(r) = m})
                        /\ decisions[m] =
                              Cardinality({r \in Delivered : input[r].chosen = m})
                        /\ failovers[m] =
                              Cardinality({r \in Delivered :
                                 /\ input[r].chosen = m
                                 /\ Target(r) # m
                                 /\ ~input[r].offline})
  BY DEF BooksAgree
<1>1. \A r \in Requests : Stage(r) = IF finished[r] THEN 4 ELSE 0
  <2> SUFFICES ASSUME NEW r \in Requests
               PROVE  Stage(r) = IF finished[r] THEN 4 ELSE 0
    OBVIOUS
  <2>1. pc[r] \notin {"won", "charge", "bill", "observe", "publish"}
        /\ finished[r] \in BOOLEAN
    BY DEF Settling, TypeOK
  <2>2. QED
    BY <2>1 DEF Stage
<1>2. Known(1) = Delivered /\ Known(2) = Delivered /\ Known(3) = Delivered
      /\ Known(4) = Delivered
  BY <1>1 DEF Known, Delivered
<1>3. ASSUME NEW m \in Names
      PROVE  /\ BilledTo(m) = {r \in Delivered : Target(r) = m}
             /\ DecidedFor(m) = {r \in Delivered : input[r].chosen = m}
             /\ FailedOver(m) = {r \in Delivered :
                                   /\ input[r].chosen = m
                                   /\ Target(r) # m
                                   /\ ~input[r].offline}
  BY <1>2 DEF BilledTo, DecidedFor, FailedOver
<1>4. QED
  BY <1>2, <1>3 DEF BooksInv

LEMMA BooksInvariant ==
    ASSUME IsFiniteSet(Requests)
    PROVE  Spec => [](LateOnly /\ BooksInv)
<1>1. TypeOK /\ WalkInv /\ SettledIsFinished /\ LateOnly /\ BooksInv /\ [Next]_vars
      => LateOnly' /\ BooksInv'
  BY BooksStep
<1>2. QED
  BY <1>1, BooksStart, VerdictInvariant, PTL DEF Spec

(* The settlement of a turn (lib.rs, chat_completions_response and          *)
(* StreamAccounting::finish): whenever none is half done, the limiter, the  *)
(* ledger, the metrics and the ring agree on the delivered turns, each      *)
(* billed to its target and counted under the model that was chosen.        *)
THEOREM TheBooksAgree ==
    ASSUME IsFiniteSet(Requests)
    PROVE  Spec => []BooksAgree
BY BooksInvariant, VerdictInvariant, BooksFollow, PTL

=============================================================================
