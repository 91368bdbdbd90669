--------------------------- MODULE GatewayProofs ---------------------------
(***************************************************************************)
(* Proofs about Gateway, for any number of requests, any configurations,    *)
(* and anything that clients ask and upstreams answer.                      *)
(*                                                                         *)
(* ScrapesStayBehind counts: whoever is in the ring, or is about to be, has *)
(* been counted.  HitsAreOfTheTarget follows what a name of the cache says. *)
(* LatchNeverSlips and AdapterIsTransparent need one invariant, RouteInv:   *)
(* a decision that is remembered is the one that question and configuration *)
(* decide.  The rest is about the pure functions: extraction and adapter    *)
(* go through a conversation message by message (Each), so that what is     *)
(* read of the translated conversation is what was said (TranslationSays);  *)
(* a latched turn stands at the high water of its users' texts              *)
(* (LatchedAtHighWater), which only rises as a conversation grows.          *)
(***************************************************************************)
EXTENDS Gateway, FiniteSetTheorems, WellFoundedInduction, SequenceTheorems,
        TLAPS

(* The requests that are counted and not yet in the ring.                   *)
Counted == {r \in Requests : pc[r] \in {"publish", "showhit"}}

Fields == {"decisions", "failovers", "hits", "misses", "limited", "keyed"}

(* Where a request may stand without having been counted.                   *)
Uncounted ==
    {"idle", "admission", "limited", "routing", "key", "gate", "lookup", "hit",
     "miss", "plan", "upstream", "observe", "store", "answered", "sent"}

Places == Uncounted \cup {"publish", "showhit"}

(* The fields the books are kept in, and where requests stand.              *)
BooksTyped ==
    /\ pc \in [Requests -> Places]
    /\ counters \in [Fields -> Nat]
    /\ recent \in Seq(Requests)

(* Whatever the ring holds or is about to get has been counted.             *)
CountedFirst == Len(recent) + Cardinality(Counted) <= counters.decisions

(* What a scrape has read of the ring is not ahead of the counters.         *)
GaugeCounted ==
    /\ scrape \in [stage : {"idle", "ring", "done"}, gauge : Nat, total : Nat]
    /\ scrape.stage = "ring" => scrape.gauge <= counters.decisions

ScrapeInv == BooksTyped /\ CountedFirst /\ GaugeCounted /\ ScrapeNeverAhead

-----------------------------------------------------------------------------
(* What a step does to the books.                                           *)

Quiet ==
    /\ Counted' = Counted /\ UNCHANGED <<recent, scrape>>
    /\ counters'.decisions >= counters.decisions

Counts(r) ==
    /\ Counted' = Counted \cup {r} /\ UNCHANGED <<recent, scrape>>
    /\ counters'.decisions = counters.decisions + 1

Publishes(r) ==
    /\ r \in Counted /\ Counted' = Counted \ {r}
    /\ Len(recent') <= Len(recent) + 1 /\ UNCHANGED <<counters, scrape>>

Reads ==
    /\ UNCHANGED <<pc, counters, recent>>
    /\ scrape' \in [stage : {"ring", "done"}, gauge : Nat, total : Nat]
    /\ \/ /\ scrape'.stage = "ring" /\ scrape'.gauge = Len(recent)
       \/ /\ scrape.stage = "ring" /\ scrape'.stage = "done"
          /\ scrape'.gauge = scrape.gauge
          /\ scrape'.total = counters.decisions

(* Count adds one to the counters it is given and keeps the others.         *)
LEMMA CountAdds ==
    ASSUME counters \in [Fields -> Nat], NEW names \in SUBSET Fields, Count(names)
    PROVE  /\ counters' \in [Fields -> Nat]
           /\ counters'.decisions = counters.decisions
                 + IF "decisions" \in names THEN 1 ELSE 0
BY DEF Count, Fields

(* push_recent keeps at most one more than there was.                       *)
LEMMA PushAddsOne ==
    ASSUME recent \in Seq(Requests), NEW r \in Requests, Push(r)
    PROVE  /\ recent' \in Seq(Requests)
           /\ Len(recent') <= Len(recent) + 1
<1> DEFINE ring == <<r>> \o recent
<1>1. ring \in Seq(Requests) /\ Len(ring) = Len(recent) + 1
  OBVIOUS
<1>2. RecentLimit \in Nat \ {0}
  BY GatewayAssumption
<1>3. PICK n \in {Len(ring), RecentLimit} :
         n <= Len(ring) /\ n = Min({Len(ring), RecentLimit})
  <2>1. CASE Len(ring) <= RecentLimit
    <3>1. \A y \in {Len(ring), RecentLimit} : Len(ring) <= y
      BY <1>1, <1>2, <2>1
    <3>2. \A x \in {Len(ring), RecentLimit} :
             (\A y \in {Len(ring), RecentLimit} : x <= y) => x = Len(ring)
      BY <1>1, <1>2, <2>1
    <3>3. QED
      BY <1>1, <3>1, <3>2 DEF Min
  <2>2. CASE ~(Len(ring) <= RecentLimit)
    <3>1. \A y \in {Len(ring), RecentLimit} : RecentLimit <= y
      BY <1>1, <1>2, <2>2
    <3>2. \A x \in {Len(ring), RecentLimit} :
             (\A y \in {Len(ring), RecentLimit} : x <= y) => x = RecentLimit
      BY <1>1, <1>2, <2>2
    <3>3. RecentLimit <= Len(ring)
      BY <1>1, <1>2, <2>2
    <3>4. QED
      BY <1>2, <3>1, <3>2, <3>3 DEF Min
  <2>3. QED
    BY <2>1, <2>2
<1>4. recent' = SubSeq(ring, 1, n)
  BY <1>3 DEF Push
<1>5. n \in 1..Len(ring)
  BY <1>1, <1>2, <1>3
<1>6. SubSeq(ring, 1, n) \in Seq(Requests) /\ Len(SubSeq(ring, 1, n)) = n
  BY <1>1, <1>5
<1>7. QED
  BY <1>1, <1>3, <1>4, <1>6

(* Where a request goes decides whether it is among the counted ones.       *)
LEMMA StepMoves ==
    ASSUME pc \in [Requests -> Places], NEW r \in Requests,
           NEW from \in Places, NEW to \in Places, Step(r, from, to)
    PROVE  /\ pc' \in [Requests -> Places]
           /\ from \in Uncounted /\ to \in Uncounted => Counted' = Counted
           /\ from \in Uncounted /\ to \notin Uncounted
                 => r \notin Counted /\ Counted' = Counted \cup {r}
           /\ from \notin Uncounted /\ to \in Uncounted
                 => r \in Counted /\ Counted' = Counted \ {r}
BY DEF Step, Counted, Places, Uncounted

LEMMA SilentStep ==
    ASSUME BooksTyped, NEW r \in Requests,
           NEW from \in Uncounted, NEW to \in Uncounted, Step(r, from, to),
           UNCHANGED <<counters, recent, scrape>>
    PROVE  BooksTyped' /\ Quiet
<1>1. pc' \in [Requests -> Places] /\ Counted' = Counted
  BY StepMoves DEF BooksTyped, Places, Uncounted
<1>2. counters.decisions \in Nat
  BY DEF BooksTyped, Fields
<1>3. counters'.decisions >= counters.decisions
  BY <1>2
<1>4. QED
  BY <1>1, <1>3 DEF BooksTyped, Quiet

LEMMA OtherCountStep ==
    ASSUME BooksTyped, NEW r \in Requests,
           NEW from \in Uncounted, NEW to \in Uncounted, Step(r, from, to),
           NEW names \in SUBSET (Fields \ {"decisions"}), Count(names),
           UNCHANGED <<recent, scrape>>
    PROVE  BooksTyped' /\ Quiet
<1>1. pc' \in [Requests -> Places] /\ Counted' = Counted
  BY StepMoves DEF BooksTyped, Places, Uncounted
<1>2. counters.decisions \in Nat
  BY DEF BooksTyped, Fields
<1>3. names \in SUBSET Fields /\ "decisions" \notin names
  OBVIOUS
<1>4. counters' \in [Fields -> Nat] /\ counters'.decisions = counters.decisions + 0
  BY <1>3, CountAdds DEF BooksTyped
<1>5. counters'.decisions >= counters.decisions
  BY <1>2, <1>4
<1>6. QED
  BY <1>1, <1>4, <1>5 DEF BooksTyped, Quiet

LEMMA CountedStep ==
    ASSUME BooksTyped, NEW r \in Requests,
           NEW from \in Uncounted, NEW to \in {"publish", "showhit"},
           Step(r, from, to),
           NEW names \in SUBSET Fields, "decisions" \in names, Count(names),
           UNCHANGED <<recent, scrape>>
    PROVE  BooksTyped' /\ r \notin Counted /\ Counts(r)
<1>1. pc' \in [Requests -> Places] /\ r \notin Counted /\ Counted' = Counted \cup {r}
  BY StepMoves DEF BooksTyped, Places, Uncounted
<1>2. counters' \in [Fields -> Nat] /\ counters'.decisions = counters.decisions + 1
  BY CountAdds DEF BooksTyped
<1>3. QED
  BY <1>1, <1>2 DEF BooksTyped, Counts

LEMMA PublishedStep ==
    ASSUME BooksTyped, NEW r \in Requests,
           NEW from \in {"publish", "showhit"}, NEW to \in Uncounted,
           Step(r, from, to), Push(r), UNCHANGED <<counters, scrape>>
    PROVE  BooksTyped' /\ Publishes(r)
<1>1. pc' \in [Requests -> Places] /\ r \in Counted /\ Counted' = Counted \ {r}
  BY StepMoves DEF BooksTyped, Places, Uncounted
<1>2. recent' \in Seq(Requests) /\ Len(recent') <= Len(recent) + 1
  BY PushAddsOne DEF BooksTyped
<1>3. QED
  BY <1>1, <1>2 DEF BooksTyped, Publishes

(* Every step of a request that comes in or is handled is silent about the  *)
(* books, counts the request, or publishes one that was counted.            *)
LEMMA RequestSteps ==
    ASSUME BooksTyped, NEW r \in Requests, Arrive(r) \/ Handle(r)
    PROVE  BooksTyped' /\ (Quiet \/ (r \notin Counted /\ Counts(r)) \/ Publishes(r))
<1>1. CASE Arrive(r)
  <2>1. PICK to \in {"admission", "answered"} : Step(r, "idle", to)
    BY <1>1 DEF Arrive
  <2>2. UNCHANGED <<counters, recent, scrape>>
    BY <1>1 DEF Arrive
  <2>3. "idle" \in Uncounted /\ to \in Uncounted
    BY DEF Uncounted
  <2>4. QED
    BY <2>1, <2>2, <2>3, SilentStep
<1>2. CASE Admit(r)
  <2>1. PICK to \in {"routing", "limited"} : Step(r, "admission", to)
    BY <1>2 DEF Admit
  <2>2. UNCHANGED <<counters, recent, scrape>>
    BY <1>2 DEF Admit
  <2>3. "admission" \in Uncounted /\ to \in Uncounted
    BY DEF Uncounted
  <2>4. QED
    BY <2>1, <2>2, <2>3, SilentStep
<1>3. CASE RefuseLimited(r)
  <2>1. Step(r, "limited", "answered") /\ Count({"limited"}) /\ UNCHANGED <<recent, scrape>>
    BY <1>3 DEF RefuseLimited
  <2>2. "limited" \in Uncounted /\ "answered" \in Uncounted
    BY DEF Uncounted
  <2>3. {"limited"} \in SUBSET (Fields \ {"decisions"})
    BY DEF Fields
  <2>4. QED
    BY <2>1, <2>2, <2>3, OtherCountStep
<1>4. CASE Route(r)
  <2>1. PICK to \in {"answered", "gate", "key"} : Step(r, "routing", to)
    BY <1>4 DEF Route
  <2>2. UNCHANGED <<counters, recent, scrape>>
    BY <1>4 DEF Route
  <2>3. "routing" \in Uncounted /\ to \in Uncounted
    BY DEF Uncounted
  <2>4. QED
    BY <2>1, <2>2, <2>3, SilentStep
<1>5. CASE CountKey(r)
  <2>1. Step(r, "key", "gate") /\ Count({"keyed"}) /\ UNCHANGED <<recent, scrape>>
    BY <1>5 DEF CountKey
  <2>2. "key" \in Uncounted /\ "gate" \in Uncounted
    BY DEF Uncounted
  <2>3. {"keyed"} \in SUBSET (Fields \ {"decisions"})
    BY DEF Fields
  <2>4. QED
    BY <2>1, <2>2, <2>3, OtherCountStep
<1>6. CASE Gate(r)
  <2>1. PICK to \in {"observe", "answered", "lookup", "plan"} : Step(r, "gate", to)
    BY <1>6 DEF Gate
  <2>2. UNCHANGED <<counters, recent, scrape>>
    BY <1>6 DEF Gate
  <2>3. "gate" \in Uncounted /\ to \in Uncounted
    BY DEF Uncounted
  <2>4. QED
    BY <2>1, <2>2, <2>3, SilentStep
<1>7. CASE Lookup(r)
  <2>1. PICK to \in {"hit", "miss"} : Step(r, "lookup", to)
    BY <1>7 DEF Lookup
  <2>2. UNCHANGED <<counters, recent, scrape>>
    BY <1>7 DEF Lookup
  <2>3. "lookup" \in Uncounted /\ to \in Uncounted
    BY DEF Uncounted
  <2>4. QED
    BY <2>1, <2>2, <2>3, SilentStep
<1>8. CASE CountHit(r)
  <2>1. Step(r, "hit", "showhit") /\ Count({"hits", "decisions"})
           /\ UNCHANGED <<recent, scrape>>
    BY <1>8 DEF CountHit
  <2>2. "hit" \in Uncounted /\ {"hits", "decisions"} \in SUBSET Fields
    BY DEF Uncounted, Fields
  <2>3. QED
    BY <2>1, <2>2, CountedStep
<1>9. CASE ShowHit(r)
  <2>1. Step(r, "showhit", "answered") /\ Push(r) /\ UNCHANGED <<counters, scrape>>
    BY <1>9 DEF ShowHit
  <2>2. "answered" \in Uncounted
    BY DEF Uncounted
  <2>3. QED
    BY <2>1, <2>2, PublishedStep
<1>10. CASE CountMiss(r)
  <2>1. Step(r, "miss", "plan") /\ Count({"misses"}) /\ UNCHANGED <<recent, scrape>>
    BY <1>10 DEF CountMiss
  <2>2. "miss" \in Uncounted /\ "plan" \in Uncounted
    BY DEF Uncounted
  <2>3. {"misses"} \in SUBSET (Fields \ {"decisions"})
    BY DEF Fields
  <2>4. QED
    BY <2>1, <2>2, <2>3, OtherCountStep
<1>11. CASE Plan(r)
  <2>1. PICK to \in {"upstream", "answered"} : Step(r, "plan", to)
    BY <1>11 DEF Plan
  <2>2. UNCHANGED <<counters, recent, scrape>>
    BY <1>11 DEF Plan
  <2>3. "plan" \in Uncounted /\ to \in Uncounted
    BY DEF Uncounted
  <2>4. QED
    BY <2>1, <2>2, <2>3, SilentStep
<1>12. CASE Upstream(r)
  <2>1. PICK to \in {"answered", "observe"} : Step(r, "upstream", to)
    BY <1>12 DEF Upstream
  <2>2. UNCHANGED <<counters, recent, scrape>>
    BY <1>12 DEF Upstream
  <2>3. "upstream" \in Uncounted /\ to \in Uncounted
    BY DEF Uncounted
  <2>4. QED
    BY <2>1, <2>2, <2>3, SilentStep
<1>13. CASE Observe(r)
  <2>1. PICK names \in SUBSET Fields : "decisions" \in names /\ Count(names)
    BY <1>13 DEF Observe, Fields
  <2>2. Step(r, "observe", "publish") /\ UNCHANGED <<recent, scrape>>
    BY <1>13 DEF Observe
  <2>3. "observe" \in Uncounted
    BY DEF Uncounted
  <2>4. QED
    BY <2>1, <2>2, <2>3, CountedStep
<1>14. CASE Publish(r)
  <2>1. PICK to \in {"store", "answered"} : Step(r, "publish", to)
    BY <1>14 DEF Publish
  <2>2. Push(r) /\ UNCHANGED <<counters, scrape>>
    BY <1>14 DEF Publish
  <2>3. to \in Uncounted
    BY DEF Uncounted
  <2>4. QED
    BY <2>1, <2>2, <2>3, PublishedStep
<1>15. CASE Store(r)
  <2>1. Step(r, "store", "answered") /\ UNCHANGED <<counters, recent, scrape>>
    BY <1>15 DEF Store
  <2>2. "store" \in Uncounted /\ "answered" \in Uncounted
    BY DEF Uncounted
  <2>3. QED
    BY <2>1, <2>2, SilentStep
<1>16. CASE Send(r)
  <2>1. Step(r, "answered", "sent") /\ UNCHANGED <<counters, recent, scrape>>
    BY <1>16 DEF Send
  <2>2. "answered" \in Uncounted /\ "sent" \in Uncounted
    BY DEF Uncounted
  <2>3. QED
    BY <2>1, <2>2, SilentStep
<1>17. QED
  BY <1>1, <1>2, <1>3, <1>4, <1>5, <1>6, <1>7, <1>8, <1>9, <1>10, <1>11, <1>12,
     <1>13, <1>14, <1>15, <1>16 DEF Handle

(* A scrape leaves the books alone.                                         *)
LEMMA ScrapeSteps ==
    ASSUME BooksTyped, GaugeCounted, ScrapeRing \/ ScrapeCounters
    PROVE  BooksTyped' /\ Reads
<1> USE DEF BooksTyped, GaugeCounted, Reads, Fields
<1>1. Len(recent) \in Nat /\ counters.decisions \in Nat
  OBVIOUS
<1>2. CASE ScrapeRing
  BY <1>1, <1>2 DEF ScrapeRing
<1>3. CASE ScrapeCounters
  BY <1>1, <1>3 DEF ScrapeCounters
<1>4. QED
  BY <1>2, <1>3

LEMMA CountedIsFinite == IsFiniteSet(Counted) /\ Cardinality(Counted) \in Nat
BY GatewayAssumption, FS_Subset, FS_CardinalityType DEF Counted

LEMMA ScrapeInvStep ==
    ASSUME ScrapeInv, [Next]_vars
    PROVE  ScrapeInv'
<1> DEFINE pending == Cardinality(Counted)
<1> USE DEF ScrapeInv
<1>1. /\ pending \in Nat /\ IsFiniteSet(Counted)
      /\ Len(recent) \in Nat /\ counters.decisions \in Nat
      /\ scrape.gauge \in Nat /\ scrape.total \in Nat
  BY CountedIsFinite DEF BooksTyped, GaugeCounted, Fields
<1>2. CASE BooksTyped' /\ Quiet
  <2>1. pending' = pending /\ counters'.decisions \in Nat
    BY <1>2 DEF Quiet, BooksTyped, Fields
  <2>2. CountedFirst'
    BY <1>1, <1>2, <2>1 DEF Quiet, CountedFirst
  <2>3. GaugeCounted' /\ ScrapeNeverAhead'
    BY <1>1, <1>2, <2>1 DEF Quiet, GaugeCounted, ScrapeNeverAhead
  <2>4. QED
    BY <1>2, <2>2, <2>3
<1>3. ASSUME NEW r \in Requests, r \notin Counted, BooksTyped', Counts(r)
      PROVE  ScrapeInv'
  <2>1. pending' = pending + 1
    BY <1>1, <1>3, FS_AddElement DEF Counts
  <2>2. CountedFirst'
    BY <1>1, <1>3, <2>1 DEF Counts, CountedFirst
  <2>3. GaugeCounted' /\ ScrapeNeverAhead'
    BY <1>1, <1>3 DEF Counts, GaugeCounted, ScrapeNeverAhead
  <2>4. QED
    BY <1>3, <2>2, <2>3
<1>4. ASSUME NEW r \in Requests, BooksTyped', Publishes(r)
      PROVE  ScrapeInv'
  <2>1. pending' = pending - 1
    BY <1>1, <1>4, FS_RemoveElement DEF Publishes
  <2>2. Len(recent') \in Nat
    BY <1>4 DEF BooksTyped
  <2>3. CountedFirst'
    BY <1>1, <1>4, <2>1, <2>2 DEF Publishes, CountedFirst
  <2>4. GaugeCounted' /\ ScrapeNeverAhead'
    BY <1>4 DEF Publishes, GaugeCounted, ScrapeNeverAhead
  <2>5. QED
    BY <1>4, <2>3, <2>4
<1>5. CASE BooksTyped' /\ Reads
  <2>1. CountedFirst'
    BY <1>5 DEF Reads, CountedFirst, Counted
  <2>2. Len(recent) <= counters.decisions
    BY <1>1 DEF CountedFirst
  <2>3. GaugeCounted' /\ ScrapeNeverAhead'
    BY <1>1, <1>5, <2>2 DEF Reads, GaugeCounted, ScrapeNeverAhead
  <2>4. QED
    BY <1>5, <2>1, <2>3
<1>6. CASE UNCHANGED vars
  BY <1>6 DEF vars, BooksTyped, CountedFirst, Counted, GaugeCounted, ScrapeNeverAhead
<1>7. CASE Next
  <2>1. CASE \E r \in Requests : Arrive(r) \/ Handle(r)
    BY <1>2, <1>3, <1>4, <2>1, RequestSteps
  <2>2. CASE ScrapeRing \/ ScrapeCounters
    BY <1>5, <2>2, ScrapeSteps
  <2>3. QED
    BY <1>7, <2>1, <2>2 DEF Next
<1>8. QED
  BY <1>6, <1>7

(* A scrape never shows more retained decisions than were counted, however  *)
(* many requests are at work between the two mutexes.                       *)
THEOREM ScrapesStayBehind == Spec => []ScrapeNeverAhead
<1>1. Init => ScrapeInv
  <2>1. SUFFICES ASSUME Init PROVE ScrapeInv
    OBVIOUS
  <2>2. Counted = {}
    BY <2>1 DEF Init, Counted
  <2>3. Cardinality(Counted) = 0 /\ Len(recent) = 0 /\ counters.decisions = 0
    BY <2>1, <2>2, FS_EmptySet DEF Init
  <2>4. QED
    BY <2>1, <2>3 DEF Init, ScrapeInv, BooksTyped, Places, Uncounted, Fields,
                      CountedFirst, GaugeCounted, ScrapeNeverAhead
<1>2. ScrapeInv /\ [Next]_vars => ScrapeInv'
  BY ScrapeInvStep
<1>3. ScrapeInv => ScrapeNeverAhead
  BY DEF ScrapeInv
<1>4. QED
  BY <1>1, <1>2, <1>3, PTL DEF Spec

-----------------------------------------------------------------------------
(* Where the answers come from.                                             *)

(* Every field of a request has a value, and who came in has asked.         *)
RequestsKept ==
    /\ DOMAIN pc = Requests /\ DOMAIN ask = Requests /\ DOMAIN route = Requests
    /\ DOMAIN served = Requests /\ DOMAIN reply = Requests
    /\ conf \in DOMAIN Setups
    /\ \A r \in Requests : pc[r] # "idle" => ask[r] \in DOMAIN Asks

(* A delivered answer comes from the model that is said to have served it.  *)
OwnAnswer(r) ==
    /\ pc[r] \in {"observe", "publish", "store"} /\ reply[r].kind = "completion"
          => reply[r].from = Setup.upstream[served[r]]
    /\ pc[r] = "store" => reply[r].kind = "completion"

(* What a name of the cache holds comes from the model in the name.         *)
NamesTell == \A name \in DOMAIN stored : stored[name].from = name[1]

HitOfTarget(r) ==
    pc[r] \in {"hit", "showhit"} => reply[r].from = Setup.upstream[Target(r)]

SourceInv ==
    /\ RequestsKept /\ NamesTell
    /\ \A r \in Requests : OwnAnswer(r) /\ HitOfTarget(r)

(* The target of a request follows from what it asked and what was decided. *)
LEMMA TargetKept ==
    ASSUME NEW q \in Requests,
           conf' = conf, route'[q] = route[q], ask'[q] = ask[q]
    PROVE  Target(q)' = Target(q) /\ Setup' = Setup
BY DEF Target, Offline, Setup, Endpoints

(* A step of one request leaves the others as they are.                     *)
LEMMA OthersKept ==
    ASSUME RequestsKept, NEW q \in Requests, conf' = conf,
           pc'[q] = pc[q], ask'[q] = ask[q], route'[q] = route[q],
           served'[q] = served[q], reply'[q] = reply[q],
           OwnAnswer(q), HitOfTarget(q)
    PROVE  OwnAnswer(q)' /\ HitOfTarget(q)'
BY TargetKept DEF OwnAnswer, HitOfTarget

(* What a gateway that does not deliver answers with is no completion.      *)
LEMMA DecisionIsNoCompletion ==
    ASSUME RequestsKept, NEW r \in Requests, pc[r] # "idle"
    PROVE  Decision(r).body.kind # "completion"
<1>1. Decision(r) = DecisionOf(Translations[ask[r]], Setups[conf].routing,
                        Decide(Translations[ask[r]], Setups[conf].routing,
                               DOMAIN Setups[conf].upstream))
  BY DEF Decision, Decisions, RequestsKept
<1>2. Decision(r).body.kind = "decision"
  BY <1>1 DEF DecisionOf, DecisionBody
<1>3. QED
  BY <1>2

LEMMA StoreTells ==
    ASSUME NamesTell, NEW r \in Requests, Store(r),
           reply[r].from = Setup.upstream[served[r]]
    PROVE  NamesTell'
<1> DEFINE name == CacheKey(Ask(r), served[r])
<1>1. name[1] = Setup.upstream[served[r]]
  BY DEF CacheKey
<1>2. stored' = Holding(name, reply[r])
  BY DEF Store
<1>3. QED
  BY <1>1, <1>2 DEF NamesTell, Holding

LEMMA SourceInvStep ==
    ASSUME SourceInv, [Next]_vars
    PROVE  SourceInv'
<1> USE DEF SourceInv
<1> DEFINE Fine(r) ==
        /\ RequestsKept' /\ NamesTell'
        /\ OwnAnswer(r)' /\ HitOfTarget(r)'
           Elsewhere(r) ==
        \A q \in Requests \ {r} :
           /\ pc'[q] = pc[q] /\ ask'[q] = ask[q] /\ route'[q] = route[q]
           /\ served'[q] = served[q] /\ reply'[q] = reply[q]
<1>1. ASSUME NEW r \in Requests, conf' = conf, Elsewhere(r), Fine(r)
      PROVE  SourceInv'
  <2>1. \A q \in Requests \ {r} : OwnAnswer(q)' /\ HitOfTarget(q)'
    BY <1>1, OthersKept
  <2>2. QED
    BY <1>1, <2>1
<1>2. ASSUME NEW r \in Requests, Arrive(r) \/ Handle(r)
      PROVE  conf' = conf /\ Elsewhere(r) /\ Fine(r)
  <2> DEFINE Goal == conf' = conf /\ Elsewhere(r) /\ Fine(r)
  <2> USE DEF Step, Set, RequestsKept, OwnAnswer, HitOfTarget, NamesTell
  <2>1. CASE Arrive(r)
    BY <2>1, GatewayAssumption DEF Arrive
  <2>2. CASE Admit(r)
    BY <2>2 DEF Admit
  <2>3. CASE RefuseLimited(r)
    BY <2>3 DEF RefuseLimited
  <2>4. CASE Route(r)
    BY <2>4 DEF Route
  <2>5. CASE CountKey(r)
    BY <2>5 DEF CountKey
  <2>6. CASE Gate(r)
    BY <2>6, DecisionIsNoCompletion DEF Gate
  <2>7. CASE Lookup(r)
    BY <2>7, TargetKept DEF Lookup, CacheKey
  <2>8. CASE CountHit(r)
    BY <2>8, TargetKept DEF CountHit
  <2>9. CASE ShowHit(r)
    BY <2>9 DEF ShowHit
  <2>10. CASE CountMiss(r)
    BY <2>10 DEF CountMiss
  <2>11. CASE Plan(r)
    BY <2>11 DEF Plan
  <2>12. CASE Upstream(r)
    BY <2>12, TargetKept DEF Upstream, Answers
  <2>13. CASE Observe(r)
    BY <2>13, TargetKept DEF Observe
  <2>14. CASE Publish(r)
    BY <2>14, TargetKept DEF Publish, Stores, IsStorable
  <2>15. CASE Store(r)
    BY <2>15, StoreTells DEF Store
  <2>16. CASE Send(r)
    BY <2>16 DEF Send
  <2>17. QED
    BY <1>2, <2>1, <2>2, <2>3, <2>4, <2>5, <2>6, <2>7, <2>8, <2>9, <2>10, <2>11,
       <2>12, <2>13, <2>14, <2>15, <2>16 DEF Handle
<1>3. CASE ScrapeRing \/ ScrapeCounters \/ UNCHANGED vars
  <2>1. UNCHANGED <<conf, pc, ask, route, served, reply, stored>>
    BY <1>3 DEF ScrapeRing, ScrapeCounters, vars
  <2>2. \A r \in Requests : OwnAnswer(r)' /\ HitOfTarget(r)'
    BY <2>1, OthersKept
  <2>3. QED
    BY <2>1, <2>2 DEF RequestsKept, NamesTell
<1>4. QED
  BY <1>1, <1>2, <1>3 DEF Next

(* A cached answer comes from the upstream model that the request would     *)
(* have been sent to, whatever the request that stored it failed over to.   *)
THEOREM HitsAreOfTheTarget == Spec => []HitsComeFromTheTarget
<1>1. Init => SourceInv
  BY DEF Init, SourceInv, RequestsKept, NamesTell, OwnAnswer, HitOfTarget
<1>2. SourceInv /\ [Next]_vars => SourceInv'
  BY SourceInvStep
<1>3. SourceInv => HitsComeFromTheTarget
  BY DEF SourceInv, HitOfTarget, HitsComeFromTheTarget
<1>4. QED
  BY <1>1, <1>2, <1>3, PTL DEF Spec

-----------------------------------------------------------------------------
(* A set of numbers that has a member has a least one.                      *)
LEMMA LeastExists ==
    ASSUME NEW S \in SUBSET Nat, S # {}
    PROVE  \E i \in S : \A j \in S : i <= j
<1>1. PICK i \in S : \A j \in S : <<j, i>> \notin OpToRel(<, Nat)
  BY NatLessThanWellFounded, WFMin, Zenon
<1>2. \A j \in S : ~(j < i)
  BY <1>1 DEF OpToRel
<1>3. QED
  BY <1>2

(* A set that holds 0 and with every number the next holds them all.        *)
LEMMA NaturalSteps ==
    ASSUME NEW N, 0 \in N, \A n \in Nat : n \in N => n + 1 \in N
    PROVE  Nat \subseteq N
<1> SUFFICES ASSUME Nat \ N # {} PROVE FALSE
  OBVIOUS
<1>1. PICK n \in Nat \ N : \A m \in Nat \ N : n <= m
  BY LeastExists
<1>2. n # 0 /\ n - 1 \in Nat /\ n - 1 \notin Nat \ N
  BY <1>1
<1>3. n - 1 \in N /\ n - 1 \in Nat /\ (n - 1) + 1 = n
  BY <1>2
<1>4. QED
  BY <1>3

-----------------------------------------------------------------------------
(***************************************************************************)
(* What FlattenSeq returns.                                                 *)
(***************************************************************************)
(* The function that FlattenSeq chooses.                                    *)
Flattens(f, ss) ==
    f = [i \in 1..Len(ss) |-> IF i = 1 THEN ss[i] ELSE f[i - 1] \o ss[i]]

(* FlattenSeq is the last value of a function that flattens.                *)
LEMMA FlattenIs ==
    ASSUME NEW ss, Len(ss) # 0
    PROVE  FlattenSeq(ss) = (CHOOSE f : Flattens(f, ss))[Len(ss)]
BY DEF FlattenSeq, Flattens

(* The concatenation of the first sequences of ss, for each number of them. *)
Joins(g, ss, V) ==
    /\ g \in [0..Len(ss) -> Seq(V)]
    /\ g[0] = << >>
    /\ \A i \in 1..Len(ss) : g[i] = g[i - 1] \o ss[i]

(* The concatenations exist for every sequence of sequences.                *)
LEMMA JoinsExists ==
    ASSUME NEW V, NEW ss \in Seq(Seq(V))
    PROVE  \E g : Joins(g, ss, V)
<1> DEFINE OK(g, n) == /\ g \in [0..n -> Seq(V)]
                       /\ g[0] = << >>
                       /\ \A i \in 1..n : g[i] = g[i - 1] \o ss[i]
           N == {n \in Nat : n <= Len(ss) => \E g : OK(g, n)}
<1>0. Len(ss) \in Nat /\ \A i \in 1..Len(ss) : ss[i] \in Seq(V)
  OBVIOUS
<1>1. 0 \in N
  <2> DEFINE g == [i \in 0..0 |-> << >>]
  <2>1. OK(g, 0)
    OBVIOUS
  <2>2. QED
    BY <2>1
<1>2. ASSUME NEW n \in Nat, n \in N PROVE n + 1 \in N
  <2>a. n \in Nat /\ n + 1 \in Nat /\ (n <= Len(ss) => \E g : OK(g, n))
    <3> HIDE DEF OK
    <3>1. QED
      BY <1>2
  <2> SUFFICES ASSUME n + 1 <= Len(ss) PROVE \E g : OK(g, n + 1)
    <3> HIDE DEF OK
    <3>1. QED
      BY <2>a
  <2>b. n <= Len(ss)
    BY <1>0, <2>a
  <2>1. PICK g : OK(g, n)
    BY <2>a, <2>b
  <2> DEFINE h == [i \in 0..(n + 1) |-> IF i = n + 1 THEN g[n] \o ss[n + 1] ELSE g[i]]
  <2>2. g[n] \in Seq(V) /\ ss[n + 1] \in Seq(V)
    BY <1>0, <2>a, <2>b, <2>1
  <2>3. g[n] \o ss[n + 1] \in Seq(V)
    BY <2>2
  <2>4. /\ h[n + 1] = g[n] \o ss[n + 1]
        /\ \A i \in 0..n : h[i] = g[i]
    <3>1. n + 1 \in 0..(n + 1) /\ \A i \in 0..n : i \in 0..(n + 1) /\ i # n + 1
      BY <2>a
    <3>2. QED
      BY <3>1, Zenon
  <2>5. h \in [0..(n + 1) -> Seq(V)]
    <3> SUFFICES ASSUME NEW i \in 0..(n + 1) PROVE h[i] \in Seq(V)
      OBVIOUS
    <3>1. i = n + 1 \/ i \in 0..n
      BY <2>a
    <3> HIDE DEF h
    <3>2. QED
      BY <3>1, <2>1, <2>3, <2>4
  <2>6. \A i \in 1..(n + 1) : h[i] = h[i - 1] \o ss[i]
    <3> SUFFICES ASSUME NEW i \in 1..(n + 1) PROVE h[i] = h[i - 1] \o ss[i]
      OBVIOUS
    <3>1. \/ i = n + 1 /\ i - 1 \in 0..n /\ i - 1 = n
          \/ i \in 1..n /\ i \in 0..n /\ i - 1 \in 0..n
      BY <2>a
    <3> HIDE DEF h
    <3>2. QED
      BY <3>1, <2>1, <2>4
  <2>7. h[0] = << >>
    BY <2>1
  <2>8. OK(h, n + 1)
    BY <2>5, <2>6, <2>7
  <2>9. QED
    BY <2>8
<1>3. Len(ss) \in N
  <2> HIDE DEF N
  <2>1. QED
    BY <1>0, <1>1, <1>2, NaturalSteps
<1>4. PICK g : OK(g, Len(ss))
  <2>1. Len(ss) <= Len(ss)
    BY <1>0
  <2> HIDE DEF OK
  <2>2. QED
    BY <1>3, <2>1
<1>5. QED
  BY <1>4 DEF Joins

(* A function that flattens exists.                                         *)
LEMMA FlattenExists ==
    ASSUME NEW V, NEW ss \in Seq(Seq(V))
    PROVE  \E f : Flattens(f, ss)
<1>1. PICK g : Joins(g, ss, V)
  BY JoinsExists
<1> DEFINE f == [i \in 1..Len(ss) |-> g[i]]
<1>2. ASSUME NEW i \in 1..Len(ss)
      PROVE  g[i] = IF i = 1 THEN ss[i] ELSE f[i - 1] \o ss[i]
  <2>1. g[i] = g[i - 1] \o ss[i] /\ g[0] = << >>
    BY <1>1 DEF Joins
  <2>a. ss[i] \in Seq(V) /\ Len(ss) \in Nat
    OBVIOUS
  <2>2. CASE i = 1
    <3>0. i - 1 = 0
      BY <2>2
    <3>1. g[i] = << >> \o ss[i]
      BY <2>1, <3>0, Zenon
    <3>2. << >> \o ss[i] = ss[i]
      BY <2>a
    <3>3. QED
      BY <3>1, <3>2, <2>2
  <2>3. CASE i # 1
    <3>1. i - 1 \in 1..Len(ss)
      BY <2>3
    <3>2. QED
      BY <2>1, <2>3, <3>1
  <2>4. QED
    BY <2>2, <2>3
<1>3. QED
  BY <1>2 DEF Flattens

(* FlattenSeq is the concatenation of all of them.                          *)
LEMMA FlattenJoins ==
    ASSUME NEW V, NEW ss \in Seq(Seq(V)), NEW g, Joins(g, ss, V)
    PROVE  FlattenSeq(ss) = g[Len(ss)]
<1>0. Len(ss) \in Nat /\ \A i \in 1..Len(ss) : ss[i] \in Seq(V)
  OBVIOUS
<1>1. CASE Len(ss) = 0
  <2>1. ss = << >>
    BY <1>1
  <2>2. QED
    BY <2>1, <1>1 DEF FlattenSeq, Joins
<1>2. CASE Len(ss) # 0
  <2> DEFINE f == CHOOSE f : Flattens(f, ss)
  <2>1. Flattens(f, ss)
    BY FlattenExists
  <2> HIDE DEF f
  <2>2. \A i \in 1..Len(ss) : f[i] = IF i = 1 THEN ss[i] ELSE f[i - 1] \o ss[i]
    BY <2>1 DEF Flattens
  <2> DEFINE N == {n \in Nat : n \in 1..Len(ss) => f[n] = g[n]}
  <2>3. 0 \in N
    OBVIOUS
  <2>4. ASSUME NEW n \in Nat, n \in N PROVE n + 1 \in N
    <3> SUFFICES ASSUME n + 1 \in 1..Len(ss) PROVE f[n + 1] = g[n + 1]
      OBVIOUS
    <3>0. n \in Nat /\ (n \in 1..Len(ss) => f[n] = g[n]) /\ (n + 1) - 1 = n
      BY <2>4
    <3>1. g[n + 1] = g[n] \o ss[n + 1] /\ g[0] = << >>
      BY <3>0 DEF Joins
    <3>2. CASE n = 0
      <4>1. f[1] = ss[1] /\ ss[1] \in Seq(V)
        BY <2>2, <3>2, <1>0
      <4>0. n + 1 = 1
        BY <3>2
      <4>2. g[1] = << >> \o ss[1]
        BY <3>1, <3>2, <4>0, Zenon
      <4>3. << >> \o ss[1] = ss[1]
        BY <4>1
      <4>4. QED
        BY <4>1, <4>2, <4>3, <3>2
    <3>3. CASE n # 0
      <4>0. n \in 1..Len(ss) /\ n + 1 # 1
        BY <1>0, <3>0, <3>3
      <4>1. f[n + 1] = f[n] \o ss[n + 1] /\ f[n] = g[n]
        BY <2>2, <3>0, <4>0
      <4>2. QED
        BY <4>1, <3>1
    <3>4. QED
      BY <3>2, <3>3
  <2>5. Len(ss) \in N
    <3> HIDE DEF N
    <3>1. QED
      BY <1>0, <2>3, <2>4, NaturalSteps
  <2>6. FlattenSeq(ss) = f[Len(ss)]
    BY <1>2, FlattenIs DEF f
  <2>7. QED
    BY <1>0, <1>2, <2>5, <2>6
<1>3. QED
  BY <1>1, <1>2

(* Nothing concatenates to nothing.                                         *)
LEMMA FlattenEmpty == FlattenSeq(<< >>) = << >>
BY DEF FlattenSeq

(* The members of the concatenation are members of the sequences.           *)
LEMMA FlattenType ==
    ASSUME NEW V, NEW ss \in Seq(Seq(V))
    PROVE  FlattenSeq(ss) \in Seq(V)
<1>1. PICK g : Joins(g, ss, V)
  BY JoinsExists
<1>2. FlattenSeq(ss) = g[Len(ss)]
  BY <1>1, FlattenJoins
<1>3. Len(ss) \in Nat /\ g \in [0..Len(ss) -> Seq(V)]
  BY <1>1 DEF Joins
<1>4. QED
  BY <1>2, <1>3

(* One sequence more goes to the end of the concatenation.                  *)
LEMMA FlattenAppend ==
    ASSUME NEW V, NEW ss \in Seq(Seq(V)), NEW x \in Seq(V)
    PROVE  FlattenSeq(Append(ss, x)) = FlattenSeq(ss) \o x
<1> DEFINE tt == Append(ss, x)
           n == Len(ss)
<1>1. /\ n \in Nat /\ tt \in Seq(Seq(V)) /\ Len(tt) = n + 1
      /\ \A i \in 1..n : tt[i] = ss[i]
      /\ tt[n + 1] = x
  OBVIOUS
<1> HIDE DEF tt
<1>2. PICK g : Joins(g, tt, V)
  BY <1>1, JoinsExists
<1> DEFINE h == [i \in 0..n |-> g[i]]
<1>3. Joins(h, ss, V)
  <2>1. /\ g \in [0..(n + 1) -> Seq(V)]
        /\ g[0] = << >>
        /\ \A i \in 1..(n + 1) : g[i] = g[i - 1] \o tt[i]
    BY <1>1, <1>2 DEF Joins
  <2>2. h \in [0..n -> Seq(V)] /\ h[0] = << >>
    BY <2>1, <1>1
  <2>3. ASSUME NEW i \in 1..n PROVE h[i] = h[i - 1] \o ss[i]
    <3>1. i \in 1..(n + 1) /\ i \in 0..n /\ i - 1 \in 0..n
      BY <1>1
    <3>2. QED
      BY <3>1, <2>1, <1>1
  <2>4. QED
    BY <2>2, <2>3 DEF Joins
<1>4. FlattenSeq(ss) = g[n]
  BY <1>1, <1>3, FlattenJoins
<1>5. FlattenSeq(tt) = g[n + 1]
  BY <1>1, <1>2, FlattenJoins
<1>6. g[n + 1] = g[n] \o x
  <2>1. n + 1 \in 1..Len(tt) /\ (n + 1) - 1 = n
    BY <1>1
  <2>2. g[n + 1] = g[(n + 1) - 1] \o tt[n + 1]
    BY <1>2, <2>1 DEF Joins
  <2>3. QED
    BY <2>1, <2>2, <1>1
<1>7. QED
  BY <1>4, <1>5, <1>6 DEF tt

-----------------------------------------------------------------------------
(* A set that holds the empty sequence, and with every sequence each that   *)
(* is one longer, holds them all.                                           *)
LEMMA SequenceSteps ==
    ASSUME NEW V, NEW S, << >> \in S,
           \A s \in Seq(V) : \A x \in V : s \in S => Append(s, x) \in S
    PROVE  Seq(V) \subseteq S
<1> DEFINE N == {n \in Nat : \A s \in Seq(V) : Len(s) = n => s \in S}
<1>1. 0 \in N
  <2>1. \A s \in Seq(V) : Len(s) = 0 => s = << >>
    OBVIOUS
  <2>2. QED
    BY <2>1
<1>2. ASSUME NEW n \in Nat, n \in N PROVE n + 1 \in N
  <2> SUFFICES ASSUME NEW s \in Seq(V), Len(s) = n + 1 PROVE s \in S
    OBVIOUS
  <2> DEFINE t == SubSeq(s, 1, n)
  <2>1. t \in Seq(V) /\ Len(t) = n /\ s[n + 1] \in V
    OBVIOUS
  <2>2. s = Append(t, s[n + 1])
    OBVIOUS
  <2>3. t \in S
    BY <1>2, <2>1
  <2> HIDE DEF t
  <2>4. QED
    BY <2>1, <2>2, <2>3
<1>3. Nat \subseteq N
  <2> HIDE DEF N
  <2>1. QED
    BY <1>1, <1>2, NaturalSteps
<1>4. QED
  BY <1>3

(* Concatenations join.                                                     *)
LEMMA FlattenConcat ==
    ASSUME NEW V, NEW ss \in Seq(Seq(V)), NEW tt \in Seq(Seq(V))
    PROVE  FlattenSeq(ss \o tt) = FlattenSeq(ss) \o FlattenSeq(tt)
<1> DEFINE S == {t \in Seq(Seq(V)) :
                   FlattenSeq(ss \o t) = FlattenSeq(ss) \o FlattenSeq(t)}
<1>1. << >> \in S
  <2>1. FlattenSeq(ss) \in Seq(V)
    BY FlattenType
  <2>2. ss \o << >> = ss /\ FlattenSeq(ss) \o << >> = FlattenSeq(ss)
    BY <2>1, ConcatEmptySeq
  <2>3. FlattenSeq(ss \o << >>) = FlattenSeq(ss) \o FlattenSeq(<< >>)
    BY <2>2, FlattenEmpty, Zenon
  <2>4. << >> \in Seq(Seq(V))
    OBVIOUS
  <2>5. QED
    BY <2>3, <2>4
<1>2. ASSUME NEW t \in Seq(Seq(V)), NEW x \in Seq(V), t \in S PROVE Append(t, x) \in S
  <2>1. ss \o t \in Seq(Seq(V)) /\ ss \o Append(t, x) = Append(ss \o t, x)
    OBVIOUS
  <2>2. FlattenSeq(Append(ss \o t, x)) = FlattenSeq(ss \o t) \o x
    BY <2>1, FlattenAppend
  <2>3. FlattenSeq(Append(t, x)) = FlattenSeq(t) \o x
    BY FlattenAppend
  <2>4. FlattenSeq(ss \o t) = FlattenSeq(ss) \o FlattenSeq(t)
    BY <1>2
  <2>5. FlattenSeq(ss) \in Seq(V) /\ FlattenSeq(t) \in Seq(V)
    BY FlattenType
  <2>6. (FlattenSeq(ss) \o FlattenSeq(t)) \o x = FlattenSeq(ss) \o (FlattenSeq(t) \o x)
    BY <2>5, ConcatAssociative
  <2>7. Append(t, x) \in Seq(Seq(V))
    OBVIOUS
  <2>8. QED
    BY <2>1, <2>2, <2>3, <2>4, <2>6, <2>7
<1>3. Seq(Seq(V)) \subseteq S
  <2> HIDE DEF S
  <2>1. QED
    BY <1>1, <1>2, SequenceSteps
<1>4. QED
  BY <1>3

LEMMA FlattenOne ==
    ASSUME NEW V, NEW x \in Seq(V)
    PROVE  FlattenSeq(<<x>>) = x
<1>1. << >> \in Seq(Seq(V)) /\ <<x>> = Append(<< >>, x)
  OBVIOUS
<1>2. FlattenSeq(<<x>>) = FlattenSeq(<< >>) \o x
  BY <1>1, FlattenAppend
<1>3. << >> \o x = x
  OBVIOUS
<1>4. QED
  BY <1>2, <1>3, FlattenEmpty

-----------------------------------------------------------------------------
(* What each member of a sequence stands for, one after the other.          *)
Maps(f, D, V) == \A x \in D : f[x] \in Seq(V)

Each(f, s) == FlattenSeq([i \in DOMAIN s |-> f[s[i]]])

LEMMA EachParts ==
    ASSUME NEW D, NEW V, NEW f, Maps(f, D, V), NEW s \in Seq(D)
    PROVE  [i \in DOMAIN s |-> f[s[i]]] \in Seq(Seq(V))
<1>1. \A i \in DOMAIN s : f[s[i]] \in Seq(V)
  <2>1. \A i \in DOMAIN s : s[i] \in D
    OBVIOUS
  <2>2. QED
    BY <2>1 DEF Maps
<1>2. DOMAIN s = 1..Len(s) /\ Len(s) \in Nat
  OBVIOUS
<1>3. QED
  BY <1>1, <1>2, IsASeq

LEMMA EachType ==
    ASSUME NEW D, NEW V, NEW f, Maps(f, D, V), NEW s \in Seq(D)
    PROVE  Each(f, s) \in Seq(V)
<1> DEFINE F == [i \in DOMAIN s |-> f[s[i]]]
<1>1. F \in Seq(Seq(V))
  BY EachParts
<1> HIDE DEF F
<1>2. FlattenSeq(F) \in Seq(V)
  BY <1>1, FlattenType
<1>3. QED
  BY <1>2 DEF Each, F

LEMMA EachEmpty ==
    ASSUME NEW f
    PROVE  Each(f, << >>) = << >>
<1>1. [i \in DOMAIN << >> |-> f[(<< >>)[i]]] = << >>
  OBVIOUS
<1>2. QED
  BY <1>1, FlattenEmpty DEF Each

LEMMA EachConcat ==
    ASSUME NEW D, NEW V, NEW f, Maps(f, D, V), NEW s \in Seq(D), NEW t \in Seq(D)
    PROVE  Each(f, s \o t) = Each(f, s) \o Each(f, t)
<1> DEFINE F(u) == [i \in DOMAIN u |-> f[u[i]]]
<1>1. s \o t \in Seq(D)
  OBVIOUS
<1>2. F(s) \in Seq(Seq(V)) /\ F(t) \in Seq(Seq(V)) /\ F(s \o t) \in Seq(Seq(V))
  BY <1>1, EachParts
<1>3. F(s \o t) = F(s) \o F(t)
  <2>1. Len(F(s)) = Len(s) /\ Len(F(t)) = Len(t) /\ Len(F(s \o t)) = Len(s) + Len(t)
    OBVIOUS
  <2>2. \A i \in 1..Len(s) + Len(t) : F(s \o t)[i] = (F(s) \o F(t))[i]
    OBVIOUS
  <2>3. F(s) \o F(t) \in Seq(Seq(V)) /\ Len(F(s) \o F(t)) = Len(F(s)) + Len(F(t))
    <3> HIDE DEF F
    <3>1. QED
      BY <1>2
  <2>4. Len(F(s \o t)) = Len(F(s) \o F(t)) /\ Len(F(s \o t)) = Len(s) + Len(t)
    BY <2>1, <2>3
  <2> HIDE DEF F
  <2>5. QED
    BY <1>2, <2>2, <2>3, <2>4, SeqEqual
<1>4. FlattenSeq(F(s) \o F(t)) = FlattenSeq(F(s)) \o FlattenSeq(F(t))
  <2> HIDE DEF F
  <2>1. QED
    BY <1>2, FlattenConcat
<1>5. QED
  BY <1>3, <1>4 DEF Each

LEMMA EachOne ==
    ASSUME NEW D, NEW V, NEW f, Maps(f, D, V), NEW x \in D
    PROVE  Each(f, <<x>>) = f[x]
<1>1. [i \in DOMAIN <<x>> |-> f[(<<x>>)[i]]] = <<f[x]>>
  OBVIOUS
<1>2. f[x] \in Seq(V)
  BY DEF Maps
<1>3. QED
  BY <1>1, <1>2, FlattenOne DEF Each

LEMMA EachAppend ==
    ASSUME NEW D, NEW V, NEW f, Maps(f, D, V), NEW s \in Seq(D), NEW x \in D
    PROVE  Each(f, Append(s, x)) = Each(f, s) \o f[x]
<1>1. Append(s, x) = s \o <<x>> /\ <<x>> \in Seq(D)
  OBVIOUS
<1>2. Each(f, s \o <<x>>) = Each(f, s) \o Each(f, <<x>>)
  <2> DEFINE t == <<x>>
  <2>1. t \in Seq(D)
    BY <1>1
  <2> HIDE DEF t
  <2>2. Each(f, s \o t) = Each(f, s) \o Each(f, t)
    BY <2>1, EachConcat
  <2>3. QED
    BY <2>2 DEF t
<1>3. Each(f, <<x>>) = f[x]
  BY EachOne
<1>4. QED
  BY <1>1, <1>2, <1>3, Zenon

(* Going through what another pass made is one pass.                        *)
LEMMA EachEach ==
    ASSUME NEW C, NEW D, NEW V, NEW f, Maps(f, C, D), NEW g, Maps(g, D, V),
           NEW h, Maps(h, C, V), \A x \in C : h[x] = Each(g, f[x]),
           NEW s \in Seq(C)
    PROVE  Each(g, Each(f, s)) = Each(h, s)
<1> DEFINE S == {t \in Seq(C) : Each(g, Each(f, t)) = Each(h, t)}
<1>1. << >> \in S
  BY EachEmpty
<1>2. ASSUME NEW t \in Seq(C), NEW x \in C, t \in S PROVE Append(t, x) \in S
  <2>1. Each(f, Append(t, x)) = Each(f, t) \o f[x]
    BY EachAppend
  <2>2. Each(f, t) \in Seq(D) /\ f[x] \in Seq(D)
    BY EachType DEF Maps
  <2>3. Each(g, Each(f, t) \o f[x]) = Each(g, Each(f, t)) \o Each(g, f[x])
    <3>1. ASSUME NEW a \in Seq(D), NEW b \in Seq(D)
          PROVE  Each(g, a \o b) = Each(g, a) \o Each(g, b)
      BY EachConcat
    <3>2. QED
      BY <2>2, <3>1
  <2>4. Each(h, Append(t, x)) = Each(h, t) \o h[x]
    BY EachAppend
  <2>5. Each(g, Each(f, t)) = Each(h, t) /\ h[x] = Each(g, f[x])
    BY <1>2
  <2>6. Each(g, Each(f, Append(t, x))) = Each(h, Append(t, x))
    BY <2>1, <2>3, <2>4, <2>5, Zenon
  <2>7. Append(t, x) \in Seq(C)
    OBVIOUS
  <2>8. QED
    BY <2>6, <2>7
<1>3. Seq(C) \subseteq S
  <2> HIDE DEF S
  <2>1. QED
    BY <1>1, <1>2, SequenceSteps
<1>4. QED
  BY <1>3

(* Nothing comes of members that stand for nothing.                         *)
LEMMA EachNothing ==
    ASSUME NEW D, NEW V, NEW f, Maps(f, D, V), \A x \in D : f[x] = << >>,
           NEW s \in Seq(D)
    PROVE  Each(f, s) = << >>
<1> DEFINE S == {t \in Seq(D) : Each(f, t) = << >>}
<1>1. << >> \in S
  BY EachEmpty
<1>2. ASSUME NEW t \in Seq(D), NEW x \in D, t \in S PROVE Append(t, x) \in S
  <2>1. Each(f, Append(t, x)) = Each(f, t) \o f[x]
    BY ONLY Maps(f, D, V), t \in Seq(D), x \in D, EachAppend
  <2>2. Each(f, t) = << >> /\ f[x] = << >>
    BY <1>2
  <2>3. Each(f, Append(t, x)) = << >> \o << >> /\ << >> \o << >> = << >>
    BY <2>1, <2>2
  <2>4. QED
    BY <2>3
<1>3. Seq(D) \subseteq S
  <2> HIDE DEF S
  <2>1. QED
    BY <1>1, <1>2, SequenceSteps
<1>4. QED
  BY <1>3

-----------------------------------------------------------------------------
(* What is read of the messages of a conversation.                          *)
OfRole(role) == [m \in Message |-> IF m.role = role THEN <<m>> ELSE << >>]

TextOf == [m \in Message |-> MessageText(m)]

TextOfRole(role) ==
    [m \in Message |-> IF m.role = role THEN MessageText(m) ELSE << >>]

LEMMA EmptyTextType == EmptyText \in TextValue
BY DEF EmptyText, Blank, TextValue, Line, LineKinds

LEMMA JoinedType ==
    ASSUME NEW texts \in Seq(TextValue)
    PROVE  Joined(texts) \in TextValue
<1>1. FlattenSeq(texts) \in Seq(Line)
  BY FlattenType DEF TextValue
<1>2. QED
  BY <1>1, EmptyTextType DEF Joined, TextValue

LEMMA JoinedOne ==
    ASSUME NEW text \in TextValue
    PROVE  Joined(<<text>>) = text
<1>1. <<text>> # << >>
  OBVIOUS
<1>2. FlattenSeq(<<text>>) = text
  BY FlattenOne DEF TextValue
<1>3. QED
  BY <1>1, <1>2 DEF Joined

LEMMA MessageTextType ==
    ASSUME NEW m \in Message
    PROVE  /\ MessageText(m) \in Seq(TextValue)
           /\ MessageText(m) = None \/ \E text \in TextValue : MessageText(m) = <<text>>
<1>1. m.content.texts \in Seq(TextValue)
  BY DEF Message, Content
<1>2. Joined(m.content.texts) \in TextValue
  BY <1>1, JoinedType
<1>3. QED
  BY <1>2 DEF MessageText, Some, None

LEMMA RoleMaps ==
    ASSUME NEW role
    PROVE  /\ Maps(OfRole(role), Message, {m \in Message : m.role = role})
           /\ Maps(OfRole(role), Message, Message)
           /\ Maps(TextOf, Message, TextValue)
           /\ Maps(TextOfRole(role), Message, TextValue)
<1>1. ASSUME NEW m \in Message
      PROVE  /\ OfRole(role)[m] \in Seq({x \in Message : x.role = role})
             /\ OfRole(role)[m] \in Seq(Message)
             /\ TextOf[m] \in Seq(TextValue)
             /\ TextOfRole(role)[m] \in Seq(TextValue)
  <2>1. MessageText(m) \in Seq(TextValue) /\ << >> \in Seq(TextValue)
    BY MessageTextType
  <2>2. /\ << >> \in Seq(Message) /\ << >> \in Seq({x \in Message : x.role = role})
        /\ <<m>> \in Seq(Message)
        /\ m.role = role => <<m>> \in Seq({x \in Message : x.role = role})
    OBVIOUS
  <2>3. /\ TextOf[m] = MessageText(m)
        /\ TextOfRole(role)[m] = IF m.role = role THEN MessageText(m) ELSE << >>
        /\ OfRole(role)[m] = IF m.role = role THEN <<m>> ELSE << >>
    BY DEF OfRole, TextOf, TextOfRole
  <2>4. QED
    BY <2>1, <2>2, <2>3
<1>2. QED
  BY <1>1 DEF Maps

LEMMA WithRoleIs ==
    ASSUME NEW role, NEW ms \in Seq(Message)
    PROVE  WithRole(ms, role) = Each(OfRole(role), ms)
<1>1. [i \in DOMAIN ms |-> IF ms[i].role = role THEN <<ms[i]>> ELSE << >>]
        = [i \in DOMAIN ms |-> OfRole(role)[ms[i]]]
  <2>1. \A i \in DOMAIN ms : ms[i] \in Message
    OBVIOUS
  <2>2. QED
    BY <2>1 DEF OfRole
<1>2. QED
  BY <1>1 DEF WithRole, Each

LEMMA TextsOfIs ==
    ASSUME NEW ms \in Seq(Message)
    PROVE  TextsOf(ms) = Each(TextOf, ms)
<1>1. [i \in DOMAIN ms |-> MessageText(ms[i])] = [i \in DOMAIN ms |-> TextOf[ms[i]]]
  <2>1. \A i \in DOMAIN ms : ms[i] \in Message
    OBVIOUS
  <2>2. QED
    BY <2>1 DEF TextOf
<1>2. QED
  BY <1>1 DEF TextsOf, Each

LEMMA WithRoleType ==
    ASSUME NEW role, NEW ms \in Seq(Message)
    PROVE  /\ WithRole(ms, role) \in Seq({m \in Message : m.role = role})
           /\ WithRole(ms, role) \in Seq(Message)
BY WithRoleIs, RoleMaps, EachType

LEMMA RoleTextsAre ==
    ASSUME NEW role, NEW ms \in Seq(Message)
    PROVE  /\ TextsOf(WithRole(ms, role)) = Each(TextOfRole(role), ms)
           /\ TextsOf(WithRole(ms, role)) \in Seq(TextValue)
<1>1. \A m \in Message : TextOfRole(role)[m] = Each(TextOf, OfRole(role)[m])
  <2> SUFFICES ASSUME NEW m \in Message
               PROVE  TextOfRole(role)[m] = Each(TextOf, OfRole(role)[m])
    OBVIOUS
  <2>1. CASE m.role = role
    <3>1. Each(TextOf, <<m>>) = TextOf[m]
      BY RoleMaps, EachOne
    <3>2. QED
      BY <2>1, <3>1 DEF TextOfRole, OfRole, TextOf
  <2>2. CASE m.role # role
    BY <2>2, EachEmpty DEF TextOfRole, OfRole
  <2>3. QED
    BY <2>1, <2>2
<1>2. Each(TextOf, Each(OfRole(role), ms)) = Each(TextOfRole(role), ms)
  <2>1. /\ Maps(OfRole(role), Message, Message)
        /\ Maps(TextOf, Message, TextValue)
        /\ Maps(TextOfRole(role), Message, TextValue)
    BY RoleMaps
  <2>2. QED
    BY <1>1, <2>1, EachEach
<1>3. Each(OfRole(role), ms) \in Seq(Message)
  BY RoleMaps, EachType
<1>4. Each(TextOfRole(role), ms) \in Seq(TextValue)
  BY RoleMaps, EachType
<1>5. QED
  BY <1>2, <1>3, <1>4, WithRoleIs, TextsOfIs

(* The text of the latest user message is the last of the users' texts.     *)
LEMMA LatestIsLast ==
    ASSUME NEW ms \in Seq(Message), WithRole(ms, "user") # << >>,
           MessageText(Last(WithRole(ms, "user"))) # None
    PROVE  LET texts == TextsOf(WithRole(ms, "user"))
           IN  /\ texts \in Seq(TextValue) /\ texts # << >>
               /\ Last(texts) \in TextValue
               /\ MessageText(Last(WithRole(ms, "user"))) = <<Last(texts)>>
<1> DEFINE asked == WithRole(ms, "user")
           texts == TextsOf(asked)
           n == Len(asked)
<1>1. asked \in Seq(Message) /\ asked # << >>
  BY WithRoleType
<1>2. texts \in Seq(TextValue)
  BY RoleTextsAre
<1>3. texts = Each(TextOf, asked)
  BY <1>1, TextsOfIs
<1> HIDE DEF asked
<1>4. n \in Nat /\ n > 0 /\ Last(asked) = asked[n] /\ asked[n] \in Message
  BY <1>1 DEF Last
<1> DEFINE front == SubSeq(asked, 1, n - 1)
<1>5. front \in Seq(Message) /\ asked = Append(front, asked[n])
  BY <1>1, <1>4
<1>6. Each(TextOf, Append(front, asked[n])) = Each(TextOf, front) \o TextOf[asked[n]]
  <2> DEFINE x == asked[n]
  <2>1. front \in Seq(Message) /\ x \in Message /\ Maps(TextOf, Message, TextValue)
    BY <1>4, <1>5, RoleMaps
  <2> HIDE DEF front, n, x
  <2>2. Each(TextOf, Append(front, x)) = Each(TextOf, front) \o TextOf[x]
    BY <2>1, EachAppend
  <2>3. QED
    BY <2>2 DEF x
<1>7. Each(TextOf, front) \in Seq(TextValue)
  <2> HIDE DEF front, n
  <2>1. QED
    BY <1>5, RoleMaps, EachType
<1>8. PICK text \in TextValue : MessageText(asked[n]) = <<text>>
  <2>1. MessageText(asked[n]) # None
    BY <1>4 DEF asked
  <2>2. QED
    BY <1>4, <2>1, MessageTextType
<1>9. texts = Each(TextOf, front) \o <<text>>
  <2>1. TextOf[asked[n]] = <<text>>
    BY <1>4, <1>8 DEF TextOf
  <2>2. QED
    BY <1>3, <1>5, <1>6, <2>1, Zenon
<1>10. texts # << >> /\ Last(texts) = text
  <2> DEFINE e == Each(TextOf, front)
  <2> HIDE DEF e, texts
  <2>1. e \in Seq(TextValue) /\ texts = e \o <<text>>
    BY <1>7, <1>9 DEF e
  <2>2. QED
    BY <2>1 DEF Last
<1>11. QED
  BY <1>2, <1>4, <1>8, <1>10 DEF asked

-----------------------------------------------------------------------------
(* The prompt that is scored, from what the system and the user said.       *)
PromptFrom(system, users, scope) ==
    CASE scope = "user" -> Joined(users)
      [] scope = "last_user" -> Last(users)
      [] OTHER -> IF system = None THEN Last(users) ELSE system[1] \o Last(users)

LEMMA PromptIs ==
    ASSUME NEW ms \in Seq(Message), NEW scope, scope # "all",
           WithRole(ms, "user") # << >>,
           MessageText(Last(WithRole(ms, "user"))) # None
    PROVE  ScopedPrompt(ms, scope)
             = PromptFrom(Merged(TextsOf(WithRole(ms, "system"))),
                          TextsOf(WithRole(ms, "user")), scope)
<1> DEFINE users == TextsOf(WithRole(ms, "user"))
           system == TextsOf(WithRole(ms, "system"))
           last == Last(users)
<1>1. /\ users \in Seq(TextValue) /\ users # << >> /\ last \in TextValue
      /\ MessageText(Last(WithRole(ms, "user"))) = <<last>>
  BY LatestIsLast
<1>2. system \in Seq(TextValue)
  BY RoleTextsAre
<1>3. ExtractPrompt(ms) = Joined(system \o <<last>>)
  <2>1. ExtractPrompt(ms) =
          LET selected == system \o <<last>>
          IN  Joined(IF selected = << >> THEN LastOf(TextsOf(ms)) ELSE selected)
    BY <1>1 DEF ExtractPrompt
  <2>2. system \o <<last>> # << >>
    <3> HIDE DEF system, last
    <3>1. QED
      BY <1>1, <1>2
  <2>3. QED
    BY <2>1, <2>2
<1>4. Joined(system \o <<last>>)
        = IF Merged(system) = None THEN last ELSE Merged(system)[1] \o last
  <2> HIDE DEF system, last
  <2>1. CASE system = << >>
    <3>1. system \o <<last>> = <<last>>
      BY <2>1, <1>1
    <3>2. Joined(<<last>>) = last
      BY <1>1, JoinedOne
    <3>3. QED
      BY <2>1, <3>1, <3>2 DEF Merged, None
  <2>2. CASE system # << >>
    <3>1. system \o <<last>> # << >> /\ <<last>> \in Seq(TextValue)
      BY <1>1, <1>2
    <3>2. FlattenSeq(system \o <<last>>) = FlattenSeq(system) \o FlattenSeq(<<last>>)
      BY <1>2, <3>1, FlattenConcat DEF TextValue
    <3>3. FlattenSeq(<<last>>) = last
      BY <1>1, FlattenOne DEF TextValue
    <3>4. Merged(system) = <<FlattenSeq(system)>>
      BY <2>2 DEF Merged, Some, Joined
    <3>5. Joined(system \o <<last>>) = FlattenSeq(system) \o last
      BY <3>1, <3>2, <3>3, Zenon DEF Joined
    <3>6. Merged(system) # None /\ Merged(system)[1] = FlattenSeq(system)
      BY <3>4 DEF None
    <3>7. QED
      BY <3>5, <3>6, Zenon
  <2>3. QED
    BY <2>1, <2>2
<1>5. LastOf(users) = <<last>> /\ <<last>> # << >> /\ Joined(<<last>>) = last
  BY <1>1, JoinedOne DEF LastOf, Some
<1>6. ASSUME NEW parts, parts # << >> PROVE ~(parts = << >>)
  BY <1>6
<1>7. CASE scope = "user"
  BY <1>1, <1>7 DEF ScopedPrompt, PromptFrom
<1>8. CASE scope = "last_user"
  BY <1>5, <1>8 DEF ScopedPrompt, PromptFrom
<1>9. CASE scope \notin {"user", "last_user"}
  <2>1. ScopedPrompt(ms, scope) = ExtractPrompt(ms)
    BY <1>9 DEF ScopedPrompt, None
  <2>2. QED
    BY <1>3, <1>4, <1>9, <2>1 DEF PromptFrom
<1>10. QED
  BY <1>7, <1>8, <1>9

-----------------------------------------------------------------------------
(* What the adapter makes of a message.                                     *)
OfKindOnly(type) ==
    [b \in ContentBlock |-> IF b.type = type THEN <<b>> ELSE << >>]

LEMMA OfTypeIs ==
    ASSUME NEW type, NEW blocks \in Seq(ContentBlock)
    PROVE  OfType(blocks, type) = Each(OfKindOnly(type), blocks)
<1>1. [i \in DOMAIN blocks |-> IF blocks[i].type = type THEN <<blocks[i]>> ELSE << >>]
        = [i \in DOMAIN blocks |-> OfKindOnly(type)[blocks[i]]]
  <2>1. \A i \in DOMAIN blocks : blocks[i] \in ContentBlock
    OBVIOUS
  <2>2. QED
    BY <2>1 DEF OfKindOnly
<1>2. QED
  BY <1>1 DEF OfType, Each

LEMMA OfTypeType ==
    ASSUME NEW type, NEW blocks \in Seq(ContentBlock)
    PROVE  OfType(blocks, type) \in Seq(ContentBlock)
<1>1. Maps(OfKindOnly(type), ContentBlock, ContentBlock)
  <2> SUFFICES ASSUME NEW b \in ContentBlock
               PROVE  OfKindOnly(type)[b] \in Seq(ContentBlock)
    BY DEF Maps
  <2>1. OfKindOnly(type)[b] = IF b.type = type THEN <<b>> ELSE << >>
    BY DEF OfKindOnly
  <2>2. <<b>> \in Seq(ContentBlock) /\ << >> \in Seq(ContentBlock)
    OBVIOUS
  <2>3. QED
    BY <2>1, <2>2
<1>2. QED
  BY <1>1, OfTypeIs, EachType

LEMMA TextsInType ==
    ASSUME NEW blocks \in Seq(ContentBlock)
    PROVE  TextsIn(blocks) \in Seq(TextValue)
<1>1. \A i \in DOMAIN blocks : blocks[i].text \in TextValue
  <2>1. \A i \in DOMAIN blocks : blocks[i] \in ContentBlock
    OBVIOUS
  <2>2. QED
    BY <2>1 DEF ContentBlock
<1>2. DOMAIN blocks = 1..Len(blocks) /\ Len(blocks) \in Nat
  OBVIOUS
<1>3. QED
  BY <1>1, <1>2, IsASeq DEF TextsIn

(* A message that is a string has one text, one that is neither string nor  *)
(* array has none.                                                          *)
LEMMA TextOfString ==
    ASSUME NEW m \in AnthropicMessage
    PROVE  /\ m.role \in Roles /\ m.blocks \in Seq(ContentBlock)
           /\ TextsIn(OfType(m.blocks, "text")) \in Seq(TextValue)
           /\ m.shape = "string" =>
                 /\ m.blocks[1].text \in TextValue
                 /\ TextsIn(OfType(m.blocks, "text")) = <<m.blocks[1].text>>
           /\ m.shape = "other" => TextsIn(OfType(m.blocks, "text")) = << >>
<1>1. m.role \in Roles /\ m.blocks \in Seq(ContentBlock)
  BY DEF AnthropicMessage
<1>2. TextsIn(OfType(m.blocks, "text")) \in Seq(TextValue)
  BY <1>1, OfTypeType, TextsInType
<1>3. ASSUME m.shape = "string"
      PROVE  /\ m.blocks[1].text \in TextValue
             /\ TextsIn(OfType(m.blocks, "text")) = <<m.blocks[1].text>>
  <2> DEFINE b == m.blocks[1]
  <2>1. Len(m.blocks) = 1 /\ b.type = "text"
    BY <1>3 DEF AnthropicMessage
  <2>2. m.blocks = <<b>> /\ b \in ContentBlock
    BY <1>1, <2>1
  <2> HIDE DEF b
  <2>3. OfType(<<b>>, "text") = <<b>>
    <3>1. [i \in DOMAIN <<b>> |->
              IF (<<b>>)[i].type = "text" THEN <<(<<b>>)[i]>> ELSE << >>] = << <<b>> >>
      BY <2>1
    <3>2. <<b>> \in Seq(ContentBlock)
      BY <2>2
    <3>3. FlattenSeq(<< <<b>> >>) = <<b>>
      BY <3>2, FlattenOne
    <3>4. QED
      BY <3>1, <3>3 DEF OfType
  <2>4. TextsIn(<<b>>) = <<b.text>> /\ b.text \in TextValue
    BY <2>2 DEF TextsIn, ContentBlock
  <2>5. QED
    BY <2>2, <2>3, <2>4 DEF b
<1>4. ASSUME m.shape = "other"
      PROVE  TextsIn(OfType(m.blocks, "text")) = << >>
  <2>1. m.blocks = << >>
    BY <1>4 DEF AnthropicMessage
  <2>2. OfType(<< >>, "text") = << >>
    <3>1. << >> \in Seq(ContentBlock)
      OBVIOUS
    <3>2. QED
      BY <3>1, OfTypeIs, EachEmpty
  <2>3. TextsIn(<< >>) = << >>
    BY DEF TextsIn
  <2>4. QED
    BY <2>1, <2>2, <2>3
<1>5. QED
  BY <1>1, <1>2, <1>3, <1>4

(* The messages of the request that the chat handler is asked: what a user  *)
(* says is a string.                                                        *)
ChatMessage == {m \in Message : m.role = "user" => m.content.shape = "string"}

LEMMA StringMessage ==
    ASSUME NEW role \in Roles, NEW text \in TextValue
    PROVE  LET m == [role |-> role, content |-> StringContent(text)]
           IN  /\ m \in ChatMessage
               /\ MessageText(m) = <<text>>
<1> DEFINE m == [role |-> role, content |-> StringContent(text)]
<1>1. <<text>> \in Seq(TextValue) /\ Len(<<text>>) = 1
  OBVIOUS
<1>2. StringContent(text) \in Content
  BY <1>1 DEF StringContent, Content
<1>3. m \in ChatMessage
  BY <1>2 DEF Message, ChatMessage, StringContent
<1>4. MessageText(m) = <<Joined(<<text>>)>>
  BY DEF MessageText, StringContent, Some
<1>5. QED
  BY <1>3, <1>4, JoinedOne

LEMMA SilentMessage ==
    ASSUME NEW role \in Roles, role # "user"
    PROVE  LET m == [role |-> role, content |-> NoContent]
           IN  m \in ChatMessage /\ MessageText(m) = << >>
BY DEF Message, ChatMessage, Content, NoContent, MessageText, None

(* What one message of the given role says.                                 *)
Spoken(role) ==
    [m \in AnthropicMessage |->
        LET texts == TextsIn(OfType(m.blocks, "text"))
        IN  IF m.role = role /\ texts # << >> THEN <<Joined(texts)>> ELSE << >>]

LEMMA TextOfRoleIs ==
    ASSUME NEW role, NEW m \in Message
    PROVE  Each(TextOfRole(role), <<m>>)
             = IF m.role = role THEN MessageText(m) ELSE << >>
<1>1. Each(TextOfRole(role), <<m>>) = TextOfRole(role)[m]
  BY RoleMaps, EachOne
<1>2. QED
  BY <1>1 DEF TextOfRole

LEMMA TranslationSpeaks ==
    ASSUME NEW role \in {"user", "system"}, NEW m \in AnthropicMessage
    PROVE  /\ TranslateMessage(m) \in Seq(ChatMessage)
           /\ Each(TextOfRole(role), TranslateMessage(m)) = Spoken(role)[m]
<1> DEFINE texts == TextsIn(OfType(m.blocks, "text"))
           calls == OfType(m.blocks, "tool_use")
           results == OfType(m.blocks, "tool_result")
           own == [role |-> m.role,
                   content |-> IF texts = << >> THEN NoContent
                               ELSE StringContent(Joined(texts))]
           speaks == texts # << >> \/ (m.role = "assistant" /\ calls # << >>)
           said == IF speaks THEN <<own>> ELSE << >>
           tools == [i \in DOMAIN results |->
                        [role |-> "tool", content |-> StringContent(results[i].text)]]
<1>0. m.shape \in {"string", "blocks", "other"}
  BY DEF AnthropicMessage
<1>1. Spoken(role)[m] = IF m.role = role /\ texts # << >> THEN <<Joined(texts)>> ELSE << >>
  BY DEF Spoken
<1>2. /\ m.role \in Roles /\ m.blocks \in Seq(ContentBlock) /\ texts \in Seq(TextValue)
      /\ m.shape = "string" => /\ m.blocks[1].text \in TextValue
                               /\ texts = <<m.blocks[1].text>>
      /\ m.shape = "other" => texts = << >>
  BY TextOfString
<1>3. CASE m.shape = "other"
  <2>1. TranslateMessage(m) = << >>
    BY <1>3 DEF TranslateMessage
  <2>2. QED
    BY <1>1, <1>2, <1>3, <2>1, EachEmpty
<1>4. CASE m.shape = "string"
  <2> DEFINE text == m.blocks[1].text
             x == [role |-> m.role, content |-> StringContent(text)]
  <2>1. TranslateMessage(m) = <<x>>
    BY <1>4 DEF TranslateMessage
  <2>2. x \in ChatMessage /\ x \in Message /\ MessageText(x) = <<text>> /\ x.role = m.role
    BY <1>2, <1>4, StringMessage DEF ChatMessage
  <2>3. texts # << >> /\ Joined(texts) = text
    <3>1. texts = <<text>> /\ text \in TextValue
      BY <1>2, <1>4
    <3> HIDE DEF text, texts
    <3>2. QED
      BY <3>1, JoinedOne
  <2> HIDE DEF x, text, texts
  <2>4. Each(TextOfRole(role), <<x>>) = IF m.role = role THEN <<text>> ELSE << >>
    BY <2>2, TextOfRoleIs
  <2>5. <<x>> \in Seq(ChatMessage)
    BY <2>2
  <2>6. QED
    BY <1>1, <2>1, <2>3, <2>4, <2>5
<1>5. CASE m.shape = "blocks"
  <2>1. TranslateMessage(m) = tools \o said
    BY <1>5 DEF TranslateMessage
  <2>2. results \in Seq(ContentBlock)
    BY <1>2, OfTypeType
  <2> DEFINE Other == {x \in ChatMessage : x.role # role}
  <2>3. tools \in Seq(Other)
    <3> HIDE DEF results
    <3>1. ASSUME NEW i \in DOMAIN results
          PROVE  [role |-> "tool", content |-> StringContent(results[i].text)] \in Other
      <4>1. results[i] \in ContentBlock
        BY <2>2
      <4>2. results[i].text \in TextValue
        BY <4>1 DEF ContentBlock
      <4> DEFINE x == [role |-> "tool", content |-> StringContent(results[i].text)]
      <4>3. x \in ChatMessage
        <5>1. ASSUME NEW text \in TextValue
              PROVE  [role |-> "tool", content |-> StringContent(text)] \in ChatMessage
          <6>1. "tool" \in Roles
            BY DEF Roles
          <6>2. QED
            BY ONLY <6>1, text \in TextValue, StringMessage
        <5>2. QED
          BY <4>2, <5>1
      <4>4. x.role = "tool" /\ "tool" # role
        OBVIOUS
      <4> HIDE DEF x
      <4>5. x \in Other
        BY <4>3, <4>4
      <4>6. QED
        BY <4>5 DEF x
    <3>2. DOMAIN results = 1..Len(results) /\ Len(results) \in Nat
      BY <2>2
    <3> HIDE DEF Other
    <3>3. QED
      BY <3>1, <3>2, IsASeq
  <2>4. Each(TextOfRole(role), tools) = << >>
    <3> HIDE DEF tools
    <3>1. Maps(TextOfRole(role), Other, TextValue) /\ \A x \in Other : TextOfRole(role)[x] = << >>
      BY DEF TextOfRole, Maps, ChatMessage
    <3> HIDE DEF Other
    <3>2. QED
      BY <2>3, <3>1, EachNothing
  <2>5. speaks => own \in ChatMessage /\ own.role = m.role
    <3>1. CASE texts # << >>
      <4>1. Joined(texts) \in TextValue
        BY <1>2, JoinedType
      <4>2. QED
        BY <1>2, <3>1, <4>1, StringMessage
    <3>2. CASE texts = << >> /\ speaks
      BY <1>2, <3>2, SilentMessage
    <3>3. QED
      BY <3>1, <3>2
  <2>6. said \in Seq(ChatMessage)
    <3> HIDE DEF own, speaks
    <3>1. QED
      BY <2>5
  <2>7. Each(TextOfRole(role), said) = Spoken(role)[m]
    <3>1. CASE texts # << >>
      <4>1. Joined(texts) \in TextValue /\ speaks
        BY <1>2, <3>1, JoinedType
      <4>2. own \in Message /\ MessageText(own) = <<Joined(texts)>> /\ own.role = m.role
        BY <1>2, <3>1, <4>1, StringMessage DEF ChatMessage
      <4>3. said = <<own>>
        BY <4>1
      <4> HIDE DEF own, texts, said
      <4>4. Each(TextOfRole(role), <<own>>)
              = IF m.role = role THEN <<Joined(texts)>> ELSE << >>
        BY <4>2, TextOfRoleIs
      <4>5. QED
        BY <1>1, <3>1, <4>3, <4>4
    <3>2. CASE texts = << >> /\ speaks
      <4>1. own \in Message /\ own.role # role /\ said = <<own>>
        BY <2>5, <3>2 DEF ChatMessage
      <4> HIDE DEF own, texts, said
      <4>2. Each(TextOfRole(role), <<own>>) = << >>
        BY <4>1, TextOfRoleIs
      <4>3. QED
        BY <1>1, <3>2, <4>1, <4>2
    <3>3. CASE texts = << >> /\ ~speaks
      <4>1. said = << >>
        BY <3>3
      <4> HIDE DEF texts, said
      <4>2. QED
        BY <1>1, <3>3, <4>1, EachEmpty
    <3>4. QED
      BY <3>1, <3>2, <3>3
  <2>8. tools \o said \in Seq(ChatMessage)
    <3>1. tools \in Seq(ChatMessage)
      <4> HIDE DEF tools
      <4>1. Other \subseteq ChatMessage
        OBVIOUS
      <4> HIDE DEF Other
      <4>2. QED
        BY <2>3, <4>1
    <3> HIDE DEF tools, said
    <3>2. QED
      BY <2>6, <3>1
  <2>9. Each(TextOfRole(role), tools \o said) = << >> \o Spoken(role)[m]
    <3>1. tools \in Seq(Message) /\ said \in Seq(Message)
      <4> HIDE DEF tools, said
      <4>1. Other \subseteq Message /\ ChatMessage \subseteq Message
        BY DEF ChatMessage
      <4> HIDE DEF Other
      <4>2. QED
        BY <2>3, <2>6, <4>1
    <3>2. ASSUME NEW s \in Seq(Message), NEW t \in Seq(Message)
          PROVE  Each(TextOfRole(role), s \o t)
                   = Each(TextOfRole(role), s) \o Each(TextOfRole(role), t)
      <4>1. Maps(TextOfRole(role), Message, TextValue)
        BY RoleMaps
      <4>2. QED
        BY ONLY <4>1, EachConcat
    <3> HIDE DEF tools, said
    <3>3. Each(TextOfRole(role), tools \o said)
            = Each(TextOfRole(role), tools) \o Each(TextOfRole(role), said)
      BY <3>1, <3>2
    <3>4. QED
      BY <2>4, <2>7, <3>3, Zenon
  <2>10. << >> \o Spoken(role)[m] = Spoken(role)[m]
    <3>1. Joined(texts) \in TextValue
      BY <1>2, JoinedType
    <3> HIDE DEF texts
    <3>2. Spoken(role)[m] \in Seq(TextValue)
      BY <1>1, <3>1
    <3>3. QED
      BY <3>2, ConcatEmptySeq
  <2> HIDE DEF tools, said
  <2>11. QED
    BY <2>1, <2>8, <2>9, <2>10
<1>6. QED
  BY <1>0, <1>3, <1>4, <1>5

-----------------------------------------------------------------------------
Translating == [m \in AnthropicMessage |-> TranslateMessage(m)]

LEMMA SpokenMaps ==
    ASSUME NEW role
    PROVE  Maps(Spoken(role), AnthropicMessage, TextValue)
<1> SUFFICES ASSUME NEW m \in AnthropicMessage
             PROVE  Spoken(role)[m] \in Seq(TextValue)
  BY DEF Maps
<1> DEFINE texts == TextsIn(OfType(m.blocks, "text"))
<1>1. Spoken(role)[m] = IF m.role = role /\ texts # << >> THEN <<Joined(texts)>> ELSE << >>
  BY DEF Spoken
<1>2. Joined(texts) \in TextValue
  BY TextOfString, JoinedType
<1> HIDE DEF texts
<1>3. QED
  BY <1>1, <1>2

LEMMA SpeechIs ==
    ASSUME NEW role, NEW turns \in Seq(AnthropicMessage)
    PROVE  /\ Speech(turns, role) = Each(Spoken(role), turns)
           /\ Speech(turns, role) \in Seq(TextValue)
<1>1. [i \in DOMAIN turns |->
          LET texts == TextsIn(OfType(turns[i].blocks, "text"))
          IN  IF turns[i].role = role /\ texts # << >> THEN <<Joined(texts)>> ELSE << >>]
        = [i \in DOMAIN turns |-> Spoken(role)[turns[i]]]
  <2>1. \A i \in DOMAIN turns : turns[i] \in AnthropicMessage
    BY ElementOfSeq, LenProperties
  <2>2. QED
    BY <2>1 DEF Spoken
<1>2. Speech(turns, role) = Each(Spoken(role), turns)
  BY <1>1 DEF Speech, Each
<1>3. QED
  BY <1>2, SpokenMaps, EachType

(* The messages of an Anthropic conversation, translated.                   *)
LEMMA TranslatedSpeech ==
    ASSUME NEW role \in {"user", "system"}, NEW turns \in Seq(AnthropicMessage)
    PROVE  LET ms == FlattenSeq([i \in DOMAIN turns |-> TranslateMessage(turns[i])])
           IN  /\ ms \in Seq(ChatMessage)
               /\ Each(TextOfRole(role), ms) = Speech(turns, role)
<1> DEFINE ms == FlattenSeq([i \in DOMAIN turns |-> TranslateMessage(turns[i])])
<1>1. ms = Each(Translating, turns)
  <2>1. [i \in DOMAIN turns |-> TranslateMessage(turns[i])]
          = [i \in DOMAIN turns |-> Translating[turns[i]]]
    <3>1. \A i \in DOMAIN turns : turns[i] \in AnthropicMessage
      BY ElementOfSeq, LenProperties
    <3>2. QED
      BY <3>1 DEF Translating
  <2>2. QED
    BY <2>1 DEF Each
<1>2. /\ Maps(Translating, AnthropicMessage, ChatMessage)
      /\ \A m \in AnthropicMessage :
            Spoken(role)[m] = Each(TextOfRole(role), Translating[m])
  BY TranslationSpeaks DEF Maps, Translating
<1>3. Maps(Translating, AnthropicMessage, Message)
  <2>1. ChatMessage \subseteq Message
    BY DEF ChatMessage
  <2> HIDE DEF ChatMessage
  <2>2. Seq(ChatMessage) \subseteq Seq(Message)
    BY <2>1
  <2>3. QED
    BY <1>2, <2>2 DEF Maps
<1>4. ms \in Seq(ChatMessage)
  BY <1>1, <1>2, EachType
<1>5. Each(TextOfRole(role), Each(Translating, turns)) = Each(Spoken(role), turns)
  <2>1. /\ Maps(TextOfRole(role), Message, TextValue)
        /\ Maps(Spoken(role), AnthropicMessage, TextValue)
    BY RoleMaps, SpokenMaps
  <2>2. ASSUME NEW s \in Seq(AnthropicMessage)
        PROVE  Each(TextOfRole(role), Each(Translating, s)) = Each(Spoken(role), s)
    BY ONLY <1>2, <1>3, <2>1, s \in Seq(AnthropicMessage), EachEach
  <2>3. QED
    BY <2>2
<1>6. QED
  BY <1>1, <1>4, <1>5, SpeechIs

FirstMessage(system) ==
    IF system = EmptyText THEN << >>
    ELSE <<[role |-> "system", content |-> StringContent(system)]>>

LEMMA FirstSpeech ==
    ASSUME NEW system \in TextValue
    PROVE  /\ FirstMessage(system) \in Seq(ChatMessage)
           /\ Each(TextOfRole("user"), FirstMessage(system)) = << >>
           /\ Each(TextOfRole("system"), FirstMessage(system))
                = IF system = EmptyText THEN << >> ELSE <<system>>
<1> DEFINE m == [role |-> "system", content |-> StringContent(system)]
<1>1. m \in ChatMessage /\ MessageText(m) = <<system>>
  <2>1. "system" \in Roles
    BY DEF Roles
  <2>2. QED
    BY <2>1, StringMessage
<1>2. m \in Message /\ m.role = "system"
  BY <1>1 DEF ChatMessage
<1> HIDE DEF m
<1>3. CASE system = EmptyText
  <2>1. FirstMessage(system) = << >>
    BY <1>3 DEF FirstMessage
  <2>2. QED
    BY <1>3, <2>1, EachEmpty
<1>4. CASE system # EmptyText
  <2>1. FirstMessage(system) = <<m>>
    BY <1>4 DEF FirstMessage, m
  <2>2. <<m>> \in Seq(ChatMessage)
    BY <1>1
  <2>3. Each(TextOfRole("user"), <<m>>) = << >> /\ Each(TextOfRole("system"), <<m>>) = <<system>>
    BY <1>1, <1>2, TextOfRoleIs
  <2>4. QED
    BY <1>4, <2>1, <2>2, <2>3
<1>5. QED
  BY <1>3, <1>4

LEMMA FlattenTextType ==
    ASSUME NEW blocks \in Seq(ContentBlock)
    PROVE  FlattenText(blocks) \in TextValue
BY TextsInType, JoinedType DEF FlattenText

(* The translated request says what the client said, and asks it with the   *)
(* same knobs.                                                              *)
LEMMA TranslationSays ==
    ASSUME NEW a \in RequestShape, a.client = "anthropic"
    PROVE  LET t == AnthropicToOpenai(a)
           IN  /\ t.messages \in Seq(ChatMessage)
               /\ UserTexts(t) = Speech(a.messages, "user")
               /\ SystemTexts(t) = SystemParameter(a) \o Speech(a.messages, "system")
               /\ t.field = a.field /\ t.threshold = a.threshold
               /\ t.scope = a.scope /\ t.sticky = a.sticky
<1> DEFINE t == AnthropicToOpenai(a)
           system == FlattenText(a.system)
           rest == FlattenSeq([i \in DOMAIN a.messages |-> TranslateMessage(a.messages[i])])
           first == FirstMessage(system)
<1>1. a.messages \in Seq(AnthropicMessage) /\ a.system \in Seq(ContentBlock)
  BY DEF RequestShape
<1>2. t = [a EXCEPT !.messages = first \o rest]
  BY DEF AnthropicToOpenai, FirstMessage
<1>3. /\ t.messages = first \o rest
      /\ t.field = a.field /\ t.threshold = a.threshold
      /\ t.scope = a.scope /\ t.sticky = a.sticky
  <2> HIDE DEF t, first, rest
  <2>1. QED
    BY <1>2 DEF RequestShape
<1>4. system \in TextValue
  BY <1>1, FlattenTextType
<1>5. first \in Seq(ChatMessage) /\ rest \in Seq(ChatMessage)
  BY <1>1, <1>4, FirstSpeech, TranslatedSpeech
<1>6. /\ Each(TextOfRole("user"), first) = << >>
      /\ Each(TextOfRole("system"), first) = SystemParameter(a)
      /\ Each(TextOfRole("user"), rest) = Speech(a.messages, "user")
      /\ Each(TextOfRole("system"), rest) = Speech(a.messages, "system")
  <2>1. Each(TextOfRole("system"), first) = SystemParameter(a)
    BY <1>4, FirstSpeech DEF SystemParameter
  <2>2. Each(TextOfRole("user"), first) = << >>
    BY <1>4, FirstSpeech
  <2>3. QED
    BY <1>1, <2>1, <2>2, TranslatedSpeech
<1> HIDE DEF first, rest, system
<1>7. first \in Seq(Message) /\ rest \in Seq(Message) /\ first \o rest \in Seq(Message)
      /\ first \o rest \in Seq(ChatMessage)
  <2>1. ChatMessage \subseteq Message
    BY DEF ChatMessage
  <2> HIDE DEF ChatMessage
  <2>2. Seq(ChatMessage) \subseteq Seq(Message)
    BY <2>1
  <2>3. QED
    BY <1>5, <2>2
<1>8. ASSUME NEW role
      PROVE  TextsOf(WithRole(first \o rest, role))
               = Each(TextOfRole(role), first) \o Each(TextOfRole(role), rest)
  <2>1. Maps(TextOfRole(role), Message, TextValue)
    BY RoleMaps
  <2>2. ASSUME NEW s \in Seq(Message), NEW u \in Seq(Message)
        PROVE  Each(TextOfRole(role), s \o u)
                 = Each(TextOfRole(role), s) \o Each(TextOfRole(role), u)
    BY ONLY <2>1, EachConcat
  <2>3. Each(TextOfRole(role), first \o rest)
          = Each(TextOfRole(role), first) \o Each(TextOfRole(role), rest)
    BY <1>7, <2>2
  <2>4. TextsOf(WithRole(first \o rest, role)) = Each(TextOfRole(role), first \o rest)
    BY <1>7, RoleTextsAre
  <2>5. QED
    BY <2>3, <2>4, Zenon
<1>9. << >> \o Speech(a.messages, "user") = Speech(a.messages, "user")
  BY <1>1, SpeechIs, ConcatEmptySeq
<1>10. /\ UserTexts(t) = Speech(a.messages, "user")
       /\ SystemTexts(t) = SystemParameter(a) \o Speech(a.messages, "system")
  BY <1>3, <1>6, <1>8, <1>9, Zenon DEF UserTexts, SystemTexts
<1>11. QED
  BY <1>3, <1>7, <1>10 DEF t

-----------------------------------------------------------------------------
(* The decision follows from the prompt, the users' texts and the knobs.    *)
LEMMA SameDecision ==
    ASSUME NEW a, NEW b, NEW routing, NEW endpoints,
           a.field = b.field, a.threshold = b.threshold, a.scope = b.scope,
           a.sticky = b.sticky, UserTexts(a) = UserTexts(b),
           ScopedPrompt(a.messages, a.scope) = ScopedPrompt(b.messages, b.scope)
    PROVE  Decide(a, routing, endpoints) = Decide(b, routing, endpoints)
<1>1. HighWater(a.messages, routing) = HighWater(b.messages, routing)
  BY DEF HighWater, UserTexts
<1>2. ASSUME NEW decision
      PROVE  RouteDecision(a, decision, routing, endpoints)
               = RouteDecision(b, decision, routing, endpoints)
  BY DEF RouteDecision
<1>3. ASSUME NEW decided
      PROVE  ApplyStickyRoute(a, decided, routing) = ApplyStickyRoute(b, decided, routing)
  BY <1>1 DEF ApplyStickyRoute
<1>4. QED
  BY <1>2, <1>3, Zenon DEF Decide

LEMMA ChatIsItself ==
    ASSUME NEW a \in RequestShape, a.client = "chat"
    PROVE  Translated(a) = a /\ a.messages \in Seq(Message)
BY DEF Translated, RequestShape

(* What the adapter makes of a conversation is decided like the             *)
(* conversation that is asked directly.                                     *)
LEMMA AlikeDecided ==
    ASSUME NEW a \in RequestShape, NEW b \in RequestShape, Alike(a, b),
           NEW routing, NEW endpoints
    PROVE  Decide(Translated(a), routing, endpoints)
             = Decide(Translated(b), routing, endpoints)
<1> DEFINE t == AnthropicToOpenai(a)
<1>1. /\ a.client = "anthropic" /\ b.client = "chat" /\ a.scope # "all"
      /\ a.field = b.field /\ a.threshold = b.threshold
      /\ a.scope = b.scope /\ a.sticky = b.sticky
      /\ LatestHasText(b) /\ Said(a) = Said(b)
  BY DEF Alike, SameKnobs
<1>2. Translated(a) = t /\ Translated(b) = b /\ b.messages \in Seq(Message)
  BY <1>1, ChatIsItself DEF Translated
<1>3. /\ t.messages \in Seq(ChatMessage)
      /\ UserTexts(t) = Speech(a.messages, "user")
      /\ SystemTexts(t) = SystemParameter(a) \o Speech(a.messages, "system")
      /\ t.field = a.field /\ t.threshold = a.threshold
      /\ t.scope = a.scope /\ t.sticky = a.sticky
  BY <1>1, TranslationSays
<1> HIDE DEF t
<1>4. t.messages \in Seq(Message)
  <2>1. ChatMessage \subseteq Message
    BY DEF ChatMessage
  <2> HIDE DEF ChatMessage
  <2>2. Seq(ChatMessage) \subseteq Seq(Message)
    BY <2>1
  <2>3. QED
    BY <1>3, <2>2
<1>5. Said(a) = <<Merged(SystemTexts(t)), UserTexts(t)>>
      /\ Said(b) = <<Merged(SystemTexts(b)), UserTexts(b)>>
  BY <1>1, <1>3 DEF Said
<1>6. Merged(SystemTexts(t)) = Merged(SystemTexts(b)) /\ UserTexts(t) = UserTexts(b)
  <2>1. ASSUME NEW x, NEW y, NEW u, NEW v, <<x, y>> = <<u, v>>
        PROVE  x = u /\ y = v
    BY <2>1
  <2>2. <<Merged(SystemTexts(t)), UserTexts(t)>> = <<Merged(SystemTexts(b)), UserTexts(b)>>
    BY <1>1, <1>5, Zenon
  <2>3. QED
    BY <2>1, <2>2
<1>7. /\ WithRole(b.messages, "user") # << >>
      /\ MessageText(Last(WithRole(b.messages, "user"))) # None
  BY <1>1 DEF LatestHasText
<1>8. UserTexts(b) # << >>
  BY <1>2, <1>7, LatestIsLast DEF UserTexts
<1>9. WithRole(t.messages, "user") # << >>
  <2>1. TextsOf(<< >>) = << >>
    <3>1. << >> \in Seq(Message)
      OBVIOUS
    <3>2. QED
      BY <3>1, EachEmpty, TextsOfIs
  <2>2. QED
    BY <1>6, <1>8, <2>1 DEF UserTexts
<1>10. MessageText(Last(WithRole(t.messages, "user"))) # None
  <2> DEFINE asked == WithRole(t.messages, "user")
             Strings == {m \in Message : m.content.shape = "string"}
  <2>1. Maps(OfRole("user"), ChatMessage, Strings)
    <3> SUFFICES ASSUME NEW m \in ChatMessage PROVE OfRole("user")[m] \in Seq(Strings)
      BY DEF Maps
    <3>1. m \in Message /\ (m.role = "user" => m \in Strings)
      BY DEF ChatMessage
    <3>2. OfRole("user")[m] = IF m.role = "user" THEN <<m>> ELSE << >>
      BY <3>1 DEF OfRole
    <3> HIDE DEF Strings
    <3>3. << >> \in Seq(Strings) /\ (m \in Strings => <<m>> \in Seq(Strings))
      OBVIOUS
    <3>4. QED
      BY <3>1, <3>2, <3>3
  <2>2. asked \in Seq(Strings)
    <3> HIDE DEF Strings
    <3>1. QED
      BY <1>3, <1>4, <2>1, WithRoleIs, EachType
  <2>3. Last(asked) \in Strings
    <3> HIDE DEF Strings, asked
    <3>1. asked # << >>
      BY <1>9 DEF asked
    <3>2. QED
      BY <2>2, <3>1 DEF Last
  <2>4. \A m \in Strings : MessageText(m) # None
    BY DEF MessageText, Some, None
  <2>5. QED
    BY <2>3, <2>4
<1>11. ScopedPrompt(t.messages, t.scope) = ScopedPrompt(b.messages, b.scope)
  <2>1. ScopedPrompt(t.messages, t.scope)
          = PromptFrom(Merged(SystemTexts(t)), UserTexts(t), t.scope)
    BY <1>1, <1>3, <1>4, <1>9, <1>10, PromptIs DEF SystemTexts, UserTexts
  <2>2. ScopedPrompt(b.messages, b.scope)
          = PromptFrom(Merged(SystemTexts(b)), UserTexts(b), b.scope)
    BY <1>1, <1>2, <1>7, PromptIs DEF SystemTexts, UserTexts
  <2>3. QED
    BY <1>1, <1>3, <1>6, <2>1, <2>2
<1>12. Decide(t, routing, endpoints) = Decide(b, routing, endpoints)
  BY <1>1, <1>3, <1>6, <1>11, SameDecision
<1>13. QED
  BY <1>2, <1>12

-----------------------------------------------------------------------------
(* What the latch makes of a conversation.                                  *)

(* RungOf is the first place of the model, or 0.                            *)
LEMMA RungOfIs ==
    ASSUME NEW V, NEW ladder \in Seq(V), NEW model
    PROVE  LET n == RungOf(ladder, model)
           IN  /\ n \in 0..Len(ladder)
               /\ n > 0 => ladder[n] = model
<1> DEFINE I == {i \in 1..Len(ladder) : ladder[i] = model}
<1>1. RungOf(ladder, model) = IF I # {} THEN Min(I) ELSE 0
  BY DEF RungOf, SelectInSeq
<1>2. Len(ladder) \in Nat
  OBVIOUS
<1>3. I # {} => Min(I) \in I
  <2> SUFFICES ASSUME I # {} PROVE Min(I) \in I
    OBVIOUS
  <2>0. I \in SUBSET Nat
    BY <1>2
  <2> HIDE DEF I
  <2>1. PICK i \in I : \A j \in I : i <= j
    BY <2>0, LeastExists
  <2>2. QED
    BY <2>1 DEF Min
<1> DEFINE n == RungOf(ladder, model)
<1>4. \/ n = 0
      \/ n \in I
  BY <1>1, <1>3
<1> HIDE DEF n
<1>5. n \in 0..Len(ladder) /\ (n > 0 => ladder[n] = model)
  BY <1>2, <1>4
<1>6. QED
  BY <1>5 DEF n

LEMMA LadderType ==
    ASSUME NEW routing, routing.tiers \in Seq(Tier)
    PROVE  \E V : TierLadder(routing) \in Seq(V)
<1> DEFINE ladder == TierLadder(routing)
           V == {ladder[n] : n \in DOMAIN routing.tiers}
<1>1. DOMAIN routing.tiers = 1..Len(routing.tiers) /\ Len(routing.tiers) \in Nat
  OBVIOUS
<1>2. \E f : ladder = [n \in DOMAIN routing.tiers |-> f[n]]
  <2> DEFINE tiers == routing.tiers
             Before(i, j) == \/ tiers[i].min_score < tiers[j].min_score
                             \/ tiers[i].min_score = tiers[j].min_score /\ i < j
             Place(i) == Cardinality({j \in DOMAIN tiers : Before(j, i)}) + 1
             f == [n \in DOMAIN tiers |->
                     tiers[CHOOSE i \in DOMAIN tiers : Place(i) = n].model]
  <2>1. ladder = f
    BY Zenon DEF TierLadder
  <2>2. f = [n \in DOMAIN routing.tiers |-> f[n]]
    OBVIOUS
  <2>3. QED
    BY <2>1, <2>2
<1>3. PICK f : ladder = [n \in DOMAIN routing.tiers |-> f[n]]
  BY <1>2
<1> HIDE DEF ladder
<1>4. ladder \in Seq(V)
  BY <1>1, <1>3, IsASeq
<1>5. QED
  BY <1>4 DEF ladder

(* The rungs that the users' texts ask for, each alone.                     *)
Rungs(texts, routing) ==
    {RungOf(TierLadder(routing), ScoreComplexity(texts[i], routing).recommendation)
        : i \in DOMAIN texts}

LEMMA MaxIs ==
    ASSUME NEW b \in Nat, NEW S \in SUBSET (0..b), S # {}
    PROVE  Max(S) \in S /\ \A n \in S : n <= Max(S)
<1> DEFINE T == {m \in Nat : \A n \in S : n <= m}
<1>1. b \in T
  OBVIOUS
<1>2. PICK m \in T : \A k \in T : m <= k
  BY <1>1, LeastExists
<1>3. m \in S
  <2> SUFFICES ASSUME m \notin S PROVE FALSE
    OBVIOUS
  <2>1. \A n \in S : n < m /\ n \in Nat
    BY <1>2
  <2>2. m > 0
    <3>1. PICK n : n \in S
      OBVIOUS
    <3>2. n < m /\ n \in Nat /\ m \in Nat
      BY <2>1, <3>1
    <3>3. QED
      BY <3>2
  <2>3. m - 1 \in T
    BY <2>1, <2>2, <1>2
  <2>4. QED
    BY <1>2, <2>3
<1>4. \A n \in S : m >= n
  BY <1>2
<1>5. QED
  BY <1>3, <1>4 DEF Max

LEMMA MaxOfTwo ==
    ASSUME NEW n \in Nat
    PROVE  Max({1, n}) = IF n > 1 THEN n ELSE 1
<1>1. {1, n} \in SUBSET (0..(n + 1)) /\ {1, n} # {} /\ n + 1 \in Nat
  OBVIOUS
<1>2. Max({1, n}) \in {1, n} /\ \A k \in {1, n} : k <= Max({1, n})
  BY <1>1, MaxIs
<1> DEFINE m == Max({1, n})
<1> HIDE DEF m
<1>3. m \in {1, n} /\ 1 <= m /\ n <= m
  BY <1>2 DEF m
<1>4. QED
  BY <1>3 DEF m

LEMMA HighWaterIs ==
    ASSUME NEW ms \in Seq(Message), NEW routing, routing.tiers \in Seq(Tier)
    PROVE  LET texts == TextsOf(WithRole(ms, "user"))
               high == HighWater(ms, routing)
           IN  /\ high \in 0..Len(TierLadder(routing))
               /\ high \in {0} \cup Rungs(texts, routing)
               /\ \A n \in Rungs(texts, routing) : n \in Nat /\ n <= high
<1> DEFINE texts == TextsOf(WithRole(ms, "user"))
           ladder == TierLadder(routing)
           S == {0} \cup Rungs(texts, routing)
           high == HighWater(ms, routing)
<1>1. high = Max(S)
  BY DEF HighWater, Rungs
<1>2. PICK V : ladder \in Seq(V)
  BY LadderType
<1> HIDE DEF ladder
<1>3. Len(ladder) \in Nat
  BY <1>2
<1>4. \A model : RungOf(ladder, model) \in 0..Len(ladder)
  BY <1>2, RungOfIs
<1>5. Rungs(texts, routing) \subseteq 0..Len(ladder)
  BY <1>4 DEF Rungs, ladder
<1>6. S \in SUBSET (0..Len(ladder)) /\ S # {}
  BY <1>3, <1>5
<1> HIDE DEF S, texts, high
<1>7. Max(S) \in S /\ \A n \in S : n <= Max(S)
  BY <1>3, <1>6, MaxIs
<1>8. high \in 0..Len(ladder) /\ high \in S /\ \A n \in S : n \in Nat /\ n <= high
  <2>1. \A n \in S : n \in 0..Len(ladder)
    BY <1>6
  <2>2. high \in S /\ \A n \in S : n <= high
    BY <1>1, <1>7
  <2>3. \A n \in S : n \in Nat
    BY <1>3, <2>1
  <2>4. QED
    BY <2>1, <2>2, <2>3
<1>9. QED
  BY <1>8 DEF S, high, ladder, texts

(* A latched turn stands where the highest of its users' texts asks, or at  *)
(* the foot of the ladder.                                                  *)
LEMMA LatchedAtHighWater ==
    ASSUME NEW a, a.messages \in Seq(Message), NEW routing, routing.tiers \in Seq(Tier),
           NEW endpoints,
           a.sticky, a.scope = "none", a.field = "auto", a.threshold = NoHeader,
           LatestHasText(a), SystemTexts(a) = << >>
    PROVE  Max({1, RungOf(TierLadder(routing), Decide(a, routing, endpoints).chosen)})
             = Max({1, HighWater(a.messages, routing)})
<1> DEFINE ladder == TierLadder(routing)
           high == HighWater(a.messages, routing)
           texts == UserTexts(a)
           last == Last(texts)
           decision == ScoreComplexity(last, routing)
           decided == [mode |-> "scored", chosen |-> decision.recommendation]
           rung == RungOf(ladder, decision.recommendation)
           final == Decide(a, routing, endpoints)
<1>1. /\ texts \in Seq(TextValue) /\ texts # << >>
      /\ MessageText(Last(WithRole(a.messages, "user"))) # None
      /\ WithRole(a.messages, "user") # << >>
  BY LatestIsLast DEF LatestHasText, UserTexts
<1>2. ScopedPrompt(a.messages, a.scope) = last
  <2>1. ScopedPrompt(a.messages, a.scope) = PromptFrom(Merged(SystemTexts(a)), texts, a.scope)
    <3>1. a.scope # "all"
      OBVIOUS
    <3>2. QED
      BY <1>1, <3>1, PromptIs DEF SystemTexts, UserTexts
  <2>2. Merged(SystemTexts(a)) = None
    BY DEF Merged
  <2>3. QED
    BY <2>1, <2>2 DEF PromptFrom
<1>3. RouteDecision(a, decision, routing, endpoints) = decided
  <2>1. ResolvePin(a.field, routing, endpoints) = None
    BY DEF ResolvePin
  <2>2. QED
    BY <2>1 DEF RouteDecision
<1>4. final = Latch(decided, ladder, high)
  <2>1. final = ApplyStickyRoute(a, RouteDecision(a, decision, routing, endpoints), routing)
    BY <1>2, Zenon DEF Decide
  <2> HIDE DEF decision
  <2>2. final = ApplyStickyRoute(a, decided, routing)
    BY <1>3, <2>1, Zenon
  <2>3. decided.mode \notin {"pinned", "refused"}
    OBVIOUS
  <2> HIDE DEF decided
  <2>4. QED
    BY <2>2, <2>3 DEF ApplyStickyRoute
<1>5. PICK V : ladder \in Seq(V)
  BY LadderType
<1>6. /\ high \in 0..Len(ladder)
      /\ high \in {0} \cup Rungs(texts, routing)
      /\ \A n \in Rungs(texts, routing) : n \in Nat /\ n <= high
  BY HighWaterIs DEF UserTexts
<1>7. rung \in Rungs(texts, routing)
  <2>1. Len(texts) \in DOMAIN texts /\ last = texts[Len(texts)]
    <3> HIDE DEF texts
    <3>1. QED
      BY <1>1 DEF Last
  <2>2. QED
    BY <2>1 DEF Rungs
<1>8. high > 0 => RungOf(ladder, ladder[high]) = high
  <2> SUFFICES ASSUME high > 0 PROVE RungOf(ladder, ladder[high]) = high
    OBVIOUS
  <2>1. high \in Rungs(texts, routing)
    BY <1>6
  <2>2. PICK model : high = RungOf(ladder, model)
    BY <2>1 DEF Rungs
  <2>3. ladder[high] = model
    BY <1>5, <2>2, RungOfIs
  <2>4. QED
    BY <2>2, <2>3
<1>9. Len(ladder) \in Nat /\ rung \in 0..Len(ladder) /\ rung <= high /\ high \in Nat
  <2>1. rung \in 0..Len(ladder)
    BY <1>5, RungOfIs
  <2>2. Len(ladder) \in Nat
    BY <1>5
  <2> HIDE DEF ladder, rung, high, texts
  <2>3. QED
    BY <1>6, <1>7, <2>1, <2>2
<1>10. decided.chosen = decision.recommendation
  OBVIOUS
<1>11. /\ Max({1, rung}) = IF rung > 1 THEN rung ELSE 1
       /\ Max({1, high}) = IF high > 1 THEN high ELSE 1
  BY <1>9, MaxOfTwo
<1>12. final = IF Len(ladder) > 1 /\ high > Max({1, rung})
               THEN [mode |-> "sticky", chosen |-> ladder[high]] ELSE decided
  BY <1>4, <1>10, Zenon DEF Latch
<1> DEFINE there == RungOf(ladder, final.chosen)
<1>13. there = IF Len(ladder) > 1 /\ high > Max({1, rung}) THEN high ELSE rung
  <2>1. CASE Len(ladder) > 1 /\ high > Max({1, rung})
    <3>1. final.chosen = ladder[high]
      BY <1>12, <2>1
    <3>2. high > 0
      <4> HIDE DEF rung, high, ladder
      <4>1. QED
        BY <1>9, <1>11, <2>1
    <3>3. QED
      BY <1>8, <2>1, <3>1, <3>2, Zenon
  <2>2. CASE ~(Len(ladder) > 1 /\ high > Max({1, rung}))
    <3>1. final.chosen = decision.recommendation
      BY <1>10, <1>12, <2>2, Zenon
    <3>2. QED
      BY <2>2, <3>1, Zenon
  <2>3. QED
    BY <2>1, <2>2
<1> HIDE DEF there, rung, high, ladder
<1>14. there \in Nat /\ Max({1, there}) = IF there > 1 THEN there ELSE 1
  BY <1>9, <1>13, MaxOfTwo
<1>15. Max({1, there}) = Max({1, high})
  BY <1>6, <1>9, <1>11, <1>13, <1>14
<1>16. QED
  BY <1>15 DEF there, high, ladder

-----------------------------------------------------------------------------
(* What was decided for a request is what its question and the              *)
(* configuration decide, for as long as it is remembered.                   *)
AsDecided(r) ==
    /\ pc[r] = "idle" => route[r] = Refused
    /\ pc[r] # "idle" => ask[r] \in DOMAIN Asks
    /\ route[r] # Refused => route[r] = Decision(r).route

RouteInv ==
    /\ DOMAIN pc = Requests /\ DOMAIN ask = Requests /\ DOMAIN route = Requests
    /\ conf \in DOMAIN Setups
    /\ \A r \in Requests : AsDecided(r)

LEMMA DecisionKept ==
    ASSUME NEW q \in Requests, conf' = conf, ask'[q] = ask[q]
    PROVE  Decision(q)' = Decision(q)
BY DEF Decision

(* All steps but two leave question and decision alone.                     *)
LEMMA MovesOnKeeps ==
    ASSUME RouteInv, NEW r \in Requests, conf' = conf, ask' = ask, route' = route,
           NEW to, to # "idle", pc' = [pc EXCEPT ![r] = to], pc[r] # "idle"
    PROVE  RouteInv'
<1>1. DOMAIN pc' = Requests /\ DOMAIN ask' = Requests /\ DOMAIN route' = Requests
      /\ conf' \in DOMAIN Setups
  BY DEF RouteInv
<1>2. \A q \in Requests : pc'[q] = "idle" <=> pc[q] = "idle"
  BY DEF RouteInv
<1>3. \A q \in Requests : Decision(q)' = Decision(q)
  BY DecisionKept
<1>4. \A q \in Requests : AsDecided(q)'
  BY <1>2, <1>3 DEF RouteInv, AsDecided
<1>5. QED
  BY <1>1, <1>4 DEF RouteInv

LEMMA RouteInvStep ==
    ASSUME RouteInv, [Next]_vars
    PROVE  RouteInv'
<1> DEFINE Kept(r, from, to) ==
        UNCHANGED <<conf, ask, route>> /\ Step(r, from, to)
<1>1. ASSUME NEW r \in Requests, NEW from, NEW to, from # "idle", to # "idle",
             Kept(r, from, to)
      PROVE  RouteInv'
  BY <1>1, MovesOnKeeps DEF Step
<1> HIDE DEF Kept
<1>2. ASSUME NEW r \in Requests, Arrive(r) PROVE RouteInv'
  <2>1. PICK i \in MayAsk[r], to \in {"admission", "answered"} :
           /\ ask' = [ask EXCEPT ![r] = i] /\ Step(r, "idle", to)
           /\ UNCHANGED <<conf, route>>
    BY <1>2 DEF Arrive
  <2>2. i \in DOMAIN Asks
    BY <2>1, GatewayAssumption
  <2>3. DOMAIN pc' = Requests /\ DOMAIN ask' = Requests /\ DOMAIN route' = Requests
        /\ conf' \in DOMAIN Setups
    BY <2>1 DEF RouteInv, Step
  <2>4. AsDecided(r)'
    BY <2>1, <2>2 DEF RouteInv, AsDecided, Step
  <2>5. ASSUME NEW q \in Requests, q # r PROVE AsDecided(q)'
    <3>1. pc'[q] = pc[q] /\ ask'[q] = ask[q] /\ route'[q] = route[q]
      BY <2>1, <2>5 DEF RouteInv, Step
    <3>2. Decision(q)' = Decision(q)
      BY <2>1, <3>1, DecisionKept
    <3>3. QED
      BY <3>1, <3>2 DEF RouteInv, AsDecided
  <2>6. QED
    BY <2>3, <2>4, <2>5 DEF RouteInv
<1>3. ASSUME NEW r \in Requests, Route(r) PROVE RouteInv'
  <2>1. PICK to \in {"answered", "gate", "key"} :
           /\ Step(r, "routing", to)
           /\ route' = [route EXCEPT ![r] = Decision(r).route]
           /\ UNCHANGED <<conf, ask>>
    BY <1>3 DEF Route
  <2>2. DOMAIN pc' = Requests /\ DOMAIN ask' = Requests /\ DOMAIN route' = Requests
        /\ conf' \in DOMAIN Setups
    BY <2>1 DEF RouteInv, Step
  <2>3. \A q \in Requests : Decision(q)' = Decision(q)
    BY <2>1, DecisionKept
  <2>4. AsDecided(r)'
    BY <2>1, <2>3 DEF RouteInv, AsDecided, Step
  <2>5. ASSUME NEW q \in Requests, q # r PROVE AsDecided(q)'
    BY <2>1, <2>3, <2>5 DEF RouteInv, AsDecided, Step
  <2>6. QED
    BY <2>2, <2>4, <2>5 DEF RouteInv
<1>4. ASSUME NEW r \in Requests, Handle(r), ~Route(r) PROVE RouteInv'
  <2>1. \E from, to : from # "idle" /\ to # "idle" /\ Kept(r, from, to)
    <3>1. CASE Admit(r)
      BY <3>1 DEF Admit, Kept
    <3>2. CASE RefuseLimited(r)
      BY <3>2 DEF RefuseLimited, Kept
    <3>3. CASE CountKey(r)
      BY <3>3 DEF CountKey, Kept
    <3>4. CASE Gate(r)
      BY <3>4 DEF Gate, Kept
    <3>5. CASE Lookup(r)
      BY <3>5 DEF Lookup, Kept
    <3>6. CASE CountHit(r)
      BY <3>6 DEF CountHit, Kept
    <3>7. CASE ShowHit(r)
      BY <3>7 DEF ShowHit, Kept
    <3>8. CASE CountMiss(r)
      BY <3>8 DEF CountMiss, Kept
    <3>9. CASE Plan(r)
      BY <3>9 DEF Plan, Kept
    <3>10. CASE Upstream(r)
      BY <3>10 DEF Upstream, Kept
    <3>11. CASE Observe(r)
      BY <3>11 DEF Observe, Kept
    <3>12. CASE Publish(r)
      BY <3>12 DEF Publish, Kept
    <3>13. CASE Store(r)
      BY <3>13 DEF Store, Kept
    <3>14. CASE Send(r)
      BY <3>14 DEF Send, Kept
    <3>15. QED
      BY <1>4, <3>1, <3>2, <3>3, <3>4, <3>5, <3>6, <3>7, <3>8, <3>9, <3>10, <3>11,
         <3>12, <3>13, <3>14 DEF Handle
  <2>2. QED
    BY <1>1, <2>1
<1>5. CASE ScrapeRing \/ ScrapeCounters \/ UNCHANGED vars
  <2>1. UNCHANGED <<conf, pc, ask, route>>
    BY <1>5 DEF ScrapeRing, ScrapeCounters, vars
  <2>2. \A q \in Requests : Decision(q)' = Decision(q)
    BY <2>1, DecisionKept
  <2>3. QED
    BY <2>1, <2>2 DEF RouteInv, AsDecided
<1>6. QED
  BY <1>2, <1>3, <1>4, <1>5 DEF Next

(* What was asked and decided, from the invariant.                          *)
LEMMA DecidedFrom ==
    ASSUME RouteInv, NEW r \in Requests, route[r] # Refused
    PROVE  /\ Asks[ask[r]] \in RequestShape
           /\ Ask(r) = Translated(Asks[ask[r]])
           /\ Setup.routing.tiers \in Seq(Tier)
           /\ route[r] = Decide(Ask(r), Setup.routing, DOMAIN Setup.upstream)
<1>1. ask[r] \in DOMAIN Asks /\ conf \in DOMAIN Setups /\ route[r] = Decision(r).route
  BY DEF RouteInv, AsDecided
<1>2. Translations[ask[r]] = Translated(Asks[ask[r]])
  BY <1>1 DEF Translations
<1>3. Decisions[conf][ask[r]]
        = DecisionOf(Translations[ask[r]], Setups[conf].routing,
                     Decide(Translations[ask[r]], Setups[conf].routing,
                            DOMAIN Setups[conf].upstream))
  BY <1>1 DEF Decisions
<1>4. route[r] = Decide(Translations[ask[r]], Setups[conf].routing,
                        DOMAIN Setups[conf].upstream)
  BY <1>1, <1>3 DEF Decision, DecisionOf
<1>5. QED
  BY <1>1, <1>2, <1>4, GatewayAssumption DEF Ask, Setup

LEMMA RouteInvAdapter == RouteInv => AdapterRoutesAlike
<1> SUFFICES ASSUME RouteInv, NEW q \in Requests, NEW r \in Requests,
                    route[q] # Refused, route[r] # Refused,
                    Alike(Asks[ask[q]], Asks[ask[r]])
             PROVE  route[q] = route[r]
  BY DEF AdapterRoutesAlike
<1> DEFINE routing == Setup.routing
           endpoints == DOMAIN Setup.upstream
<1>1. /\ Asks[ask[q]] \in RequestShape /\ Asks[ask[r]] \in RequestShape
      /\ route[q] = Decide(Translated(Asks[ask[q]]), routing, endpoints)
      /\ route[r] = Decide(Translated(Asks[ask[r]]), routing, endpoints)
  BY DecidedFrom
<1>2. Decide(Translated(Asks[ask[q]]), routing, endpoints)
        = Decide(Translated(Asks[ask[r]]), routing, endpoints)
  BY <1>1, AlikeDecided
<1>3. QED
  BY <1>1, <1>2

LEMMA TranslatedType ==
    ASSUME NEW a \in RequestShape
    PROVE  Translated(a).messages \in Seq(Message)
<1>1. CASE a.client = "chat"
  BY <1>1, ChatIsItself
<1>2. CASE a.client = "anthropic"
  <2>1. AnthropicToOpenai(a).messages \in Seq(ChatMessage)
    BY <1>2, TranslationSays
  <2>2. ChatMessage \subseteq Message
    BY DEF ChatMessage
  <2> HIDE DEF ChatMessage
  <2>3. Seq(ChatMessage) \subseteq Seq(Message)
    BY <2>2
  <2>4. QED
    BY <1>2, <2>1, <2>3 DEF Translated
<1>3. QED
  BY <1>1, <1>2 DEF RequestShape

LEMMA RouteInvLatch == RouteInv => LatchHolds
<1> SUFFICES ASSUME RouteInv, NEW q \in Requests, NEW r \in Requests,
                    LaterTurn(q, r), SystemTexts(Ask(r)) = << >>
             PROVE  Rung(r) <= Rung(q)
  BY DEF LatchHolds
<1> DEFINE routing == Setup.routing
           High(x) == HighWater(Ask(x).messages, routing)
<1>1. ASSUME NEW x \in {q, r}
      PROVE  /\ Rung(x) = Max({1, High(x)})
             /\ Ask(x).messages \in Seq(Message) /\ routing.tiers \in Seq(Tier)
  <2>1. Latched(x) /\ SystemTexts(Ask(x)) = << >>
    BY <1>1 DEF LaterTurn
  <2>2. x \in Requests /\ route[x] # Refused
    BY <1>1, <2>1 DEF Latched
  <2>3. /\ Asks[ask[x]] \in RequestShape /\ Ask(x) = Translated(Asks[ask[x]])
        /\ routing.tiers \in Seq(Tier)
        /\ route[x] = Decide(Ask(x), routing, DOMAIN Setup.upstream)
    BY <2>2, DecidedFrom
  <2>4. Ask(x).messages \in Seq(Message)
    BY <2>3, TranslatedType
  <2>5. Max({1, RungOf(TierLadder(routing),
                       Decide(Ask(x), routing, DOMAIN Setup.upstream).chosen)}) = Max({1, High(x)})
    <3>1. /\ Ask(x).sticky /\ Ask(x).scope = "none" /\ Ask(x).field = "auto"
          /\ Ask(x).threshold = NoHeader /\ LatestHasText(Ask(x))
      BY <2>1 DEF Latched
    <3>2. QED
      BY <2>1, <2>3, <2>4, <3>1, LatchedAtHighWater
  <2>6. QED
    BY <2>3, <2>4, <2>5 DEF Rung
<1> DEFINE texts(x) == TextsOf(WithRole(Ask(x).messages, "user"))
<1>2. ASSUME NEW x \in {q, r}
      PROVE  /\ High(x) \in Nat /\ texts(x) \in Seq(TextValue)
             /\ High(x) \in {0} \cup Rungs(texts(x), routing)
             /\ \A n \in Rungs(texts(x), routing) : n \in Nat /\ n <= High(x)
  <2>1. Ask(x).messages \in Seq(Message) /\ routing.tiers \in Seq(Tier)
    BY <1>1
  <2>2. /\ High(x) \in 0..Len(TierLadder(routing))
        /\ High(x) \in {0} \cup Rungs(texts(x), routing)
        /\ \A n \in Rungs(texts(x), routing) : n \in Nat /\ n <= High(x)
    BY <2>1, HighWaterIs
  <2>3. High(x) \in Nat
    <3> HIDE DEF High
    <3>1. QED
      BY <2>2
  <2>4. QED
    BY <2>1, <2>2, <2>3, RoleTextsAre
<1>3. Rungs(texts(r), routing) \subseteq Rungs(texts(q), routing)
  <2>1. IsPrefix(texts(r), texts(q))
    BY DEF LaterTurn, UserTexts
  <2> HIDE DEF texts
  <2>2. \A i \in DOMAIN texts(r) : i \in DOMAIN texts(q) /\ texts(q)[i] = texts(r)[i]
    BY <1>2, <2>1 DEF IsPrefix
  <2>3. QED
    BY <2>2 DEF Rungs
<1>4. High(r) <= High(q)
  <2> HIDE DEF High, texts
  <2>1. High(r) \in Nat /\ High(q) \in Nat
    BY <1>2
  <2>2. CASE High(r) = 0
    BY <2>1, <2>2
  <2>3. CASE High(r) \in Rungs(texts(r), routing)
    BY <1>2, <1>3, <2>3
  <2>4. QED
    BY <1>2, <2>2, <2>3
<1>5. /\ High(r) \in Nat /\ High(q) \in Nat
      /\ Rung(r) = Max({1, High(r)}) /\ Rung(q) = Max({1, High(q)})
  BY <1>1, <1>2
<1> HIDE DEF High
<1>6. /\ Rung(r) = IF High(r) > 1 THEN High(r) ELSE 1
      /\ Rung(q) = IF High(q) > 1 THEN High(q) ELSE 1
  BY <1>5, MaxOfTwo
<1>7. QED
  BY <1>4, <1>5, <1>6

LEMMA RouteInvHolds == Spec => []RouteInv
<1>1. Init => RouteInv
  BY DEF Init, RouteInv, AsDecided
<1>2. RouteInv /\ [Next]_vars => RouteInv'
  BY RouteInvStep
<1>3. QED
  BY <1>1, <1>2, PTL DEF Spec

(* In a sticky conversation without system messages a later turn is never   *)
(* routed below an earlier one, whatever the ladder and the messages.       *)
THEOREM LatchNeverSlips == Spec => []LatchHolds
BY RouteInvHolds, RouteInvLatch, PTL

(* The same conversation is routed alike through both protocols, whatever   *)
(* tool calls and tool results lie between its turns.                       *)
THEOREM AdapterIsTransparent == Spec => []AdapterRoutesAlike
BY RouteInvHolds, RouteInvAdapter, PTL
=============================================================================
