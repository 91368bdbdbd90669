--------------------------- MODULE ResponseCache ---------------------------
(***************************************************************************)
(* The exact-match response cache (ResponseCache in lib.rs) and the         *)
(* requests that look it up before delivery and fill it after.  Lookup and  *)
(* store are two critical sections with the whole delivery in between: two  *)
(* requests for one key may both miss, and the answer is stored under the   *)
(* model that served, which need not be the one that was looked up.         *)
(*                                                                         *)
(* A key is the pair of an upstream model id and a request body without     *)
(* model and stream (cache_key hashes the two).                             *)
(***************************************************************************)
EXTENDS Integers, Sequences, FiniteSets, FiniteSetsExt

CONSTANTS
    Clients,     \* concurrent requests
    Endpoints,   \* the configured [gateway.models.<name>]
    UpstreamOf,  \* endpoint -> the model id it sends upstream
    Bodies,      \* what requests ask for
    Sizes,       \* lengths an answer may have
    MaxEntries,  \* max_entries
    MaxBytes,    \* max_bytes
    Ttl,         \* ttl, NeverExpires for 0
    MaxTime      \* bound: the clock stops here

NeverExpires == 0

UpstreamIds == {UpstreamOf[m] : m \in Endpoints}
Keys == UpstreamIds \X Bodies
Answers == [from : UpstreamIds, asked : Bodies, size : Sizes]

ASSUME CacheAssumption ==
    /\ IsFiniteSet(Clients)
    /\ UpstreamOf \in [Endpoints -> UpstreamIds]
    /\ Sizes \subseteq Nat \ {0}
    /\ MaxEntries \in Nat \ {0}
    /\ MaxBytes \in Nat \ {0}
    /\ Ttl \in Nat
    /\ MaxTime \in Nat

VARIABLES
    now,
    entries,   \* key -> [body, storedAt]
    lru,       \* the keys, least recently used first
    bytes,     \* the length of all bodies
    phase,     \* where each request stands
    request,   \* the endpoint and body of each request
    answer,    \* what each request was answered with
    latest     \* history: when and what a stored key was last stored with

cacheVars == <<entries, lru, bytes>>
vars == <<now, entries, lru, bytes, phase, request, answer, latest>>

Nothing == [none |-> TRUE]

-----------------------------------------------------------------------------
(* The cache's own operations, as functions of its three fields.            *)

Remove(map, k) == [j \in DOMAIN map \ {k} |-> map[j]]

(* retain: the queue's keys one by one, all but k.                          *)
Without(queue, k) ==
    LET keep[n \in 0..Len(queue)] ==
          IF n = 0 THEN << >>
          ELSE IF queue[n] = k THEN keep[n - 1]
          ELSE Append(keep[n - 1], queue[n])
    IN  keep[Len(queue)]

Monus(a, b) == IF a < b THEN 0 ELSE a - b

SizeOf(map, keys) ==
    MapThenSumSet(LAMBDA k : map[k].body.size, keys \cap DOMAIN map)

(* An answer that reaches its time to live is past it.                      *)
Expired(e) == Ttl # NeverExpires /\ now - e.storedAt >= Ttl

(* Mutant of Touch: a hit leaves the queue alone.                           *)
TouchNot(k) == lru' = lru

Touch(k) == lru' = Append(Without(lru, k), k)

(* drop_key.                                                                *)
DropKey(k) ==
    /\ entries' = Remove(entries, k)
    /\ bytes' = Monus(bytes, entries[k].body.size)
    /\ lru' = Without(lru, k)

(* evict: the queue is popped until both limits hold.  The number of pops is*)
(* the smallest one that gets there, or the whole queue.                    *)
Popped(queue, n) == {queue[i] : i \in 1..n}

Enough(map, queue, size, n) ==
    \/ n = Len(queue)
    \/ /\ Cardinality(DOMAIN map \ Popped(queue, n)) <= MaxEntries
       /\ Monus(size, SizeOf(map, Popped(queue, n))) <= MaxBytes

Evict(map, queue, size) ==
    LET n == CHOOSE n \in 0..Len(queue) :
                /\ Enough(map, queue, size, n)
                /\ \A i \in 0..(n - 1) : ~Enough(map, queue, size, i)
        gone == Popped(queue, n)
    IN  /\ entries' = [k \in DOMAIN map \ gone |-> map[k]]
        /\ bytes' = Monus(size, SizeOf(map, gone))
        /\ lru' = SubSeq(queue, n + 1, Len(queue))

(* Mutant of Put: the replaced body is not taken off the counter.           *)
PutForgettingOld(k, body) ==
    IF body.size > MaxBytes THEN UNCHANGED cacheVars
    ELSE Evict([j \in DOMAIN entries \cup {k} |->
                   IF j = k THEN [body |-> body, storedAt |-> now]
                            ELSE entries[j]],
               Append(Without(lru, k), k),
               bytes + body.size)

(* put.                                                                     *)
Put(k, body) ==
    LET old == IF k \in DOMAIN entries THEN entries[k].body.size ELSE 0
    IN  IF body.size > MaxBytes THEN UNCHANGED cacheVars
        ELSE Evict([j \in DOMAIN entries \cup {k} |->
                       IF j = k THEN [body |-> body, storedAt |-> now]
                                ELSE entries[j]],
                   Append(Without(lru, k), k),
                   Monus(bytes, old) + body.size)

-----------------------------------------------------------------------------
Init ==
    /\ now = 0
    /\ entries = [k \in {} |-> {}]
    /\ lru = << >>
    /\ bytes = 0
    /\ phase = [c \in Clients |-> "idle"]
    /\ request = [c \in Clients |-> Nothing]
    /\ answer = [c \in Clients |-> Nothing]
    /\ latest = [k \in {} |-> {}]

Tick ==
    /\ now < MaxTime
    /\ now' = now + 1
    /\ UNCHANGED <<cacheVars, phase, request, answer, latest>>

(* A cacheable request that is to be delivered from m.                      *)
Asks(c, m, b) ==
    /\ phase[c] \in {"idle", "hit"}
    /\ request' = [request EXCEPT ![c] = [model |-> m, body |-> b]]

(* Mutant of Hit: a hit makes the entry young again.                        *)
HitRefreshing(c, m, b) ==
    LET k == <<UpstreamOf[m], b>>
    IN  /\ Asks(c, m, b)
        /\ k \in DOMAIN entries
        /\ ~Expired(entries[k])
        /\ Touch(k)
        /\ entries' = [entries EXCEPT ![k].storedAt = now]
        /\ phase' = [phase EXCEPT ![c] = "hit"]
        /\ answer' = [answer EXCEPT ![c] = entries[k].body]
        /\ UNCHANGED <<now, bytes, latest>>

(* get finds a live entry: the request is answered from the cache, and no   *)
(* upstream is called.                                                      *)
Hit(c, m, b) ==
    LET k == <<UpstreamOf[m], b>>
    IN  /\ Asks(c, m, b)
        /\ k \in DOMAIN entries
        /\ ~Expired(entries[k])
        /\ Touch(k)
        /\ phase' = [phase EXCEPT ![c] = "hit"]
        /\ answer' = [answer EXCEPT ![c] = entries[k].body]
        /\ UNCHANGED <<now, entries, bytes, latest>>

(* get finds nothing, or something too old, which it drops.                 *)
Miss(c, m, b) ==
    LET k == <<UpstreamOf[m], b>>
    IN  /\ Asks(c, m, b)
        /\ \/ k \notin DOMAIN entries /\ UNCHANGED cacheVars
           \/ k \in DOMAIN entries /\ Expired(entries[k]) /\ DropKey(k)
        /\ phase' = [phase EXCEPT ![c] = "miss"]
        /\ answer' = [answer EXCEPT ![c] = Nothing]
        /\ latest' = [j \in DOMAIN entries' |-> latest[j]]
        /\ UNCHANGED now

(* Delivery ends with a storable answer (200, JSON, non-empty content, no   *)
(* error, no tool call) from whichever endpoint of the plan served.         *)
Deliver(c) ==
    /\ phase[c] = "miss"
    /\ \E m \in Endpoints, n \in Sizes :
          answer' = [answer EXCEPT ![c] =
                        [from |-> UpstreamOf[m], asked |-> request[c].body,
                         size |-> n]]
    /\ phase' = [phase EXCEPT ![c] = "delivered"]
    /\ UNCHANGED <<now, cacheVars, request, latest>>

(* It ends with nothing that may be stored, or the client left.             *)
DeliverNothing(c) ==
    /\ phase[c] = "miss"
    /\ phase' = [phase EXCEPT ![c] = "idle"]
    /\ request' = [request EXCEPT ![c] = Nothing]
    /\ UNCHANGED <<now, cacheVars, answer, latest>>

(* Mutant of StoreKey: the key the request was looked up with.              *)
StoreKeyOfLookup(c) == <<UpstreamOf[request[c].model], request[c].body>>

(* The store computes its key anew, from the endpoint that served.          *)
StoreKey(c) == <<answer[c].from, request[c].body>>

Store(c) ==
    /\ phase[c] = "delivered"
    /\ Put(StoreKey(c), answer[c])
    /\ latest' = [k \in DOMAIN entries' |->
                    IF k = StoreKey(c) /\ answer[c].size <= MaxBytes
                    THEN [body |-> answer[c], storedAt |-> now] ELSE latest[k]]
    /\ phase' = [phase EXCEPT ![c] = "idle"]
    /\ request' = [request EXCEPT ![c] = Nothing]
    /\ answer' = [answer EXCEPT ![c] = Nothing]
    /\ UNCHANGED now

Next ==
    \/ Tick
    \/ \E c \in Clients :
          \/ \E m \in Endpoints, b \in Bodies : Hit(c, m, b) \/ Miss(c, m, b)
          \/ Deliver(c) \/ DeliverNothing(c) \/ Store(c)

Spec == Init /\ [][Next]_vars

-----------------------------------------------------------------------------
Request == [model : Endpoints, body : Bodies]

(* Types of the cache's fields and of the requests.                         *)
TypeOK ==
    /\ now \in Nat
    /\ DOMAIN entries \subseteq Keys
    /\ \A k \in DOMAIN entries : entries[k] \in [body : Answers, storedAt : Nat]
    /\ lru \in Seq(Keys)
    /\ bytes \in Nat
    /\ phase \in [Clients -> {"idle", "hit", "miss", "delivered"}]
    /\ request \in [Clients -> Request \cup {Nothing}]
    /\ answer \in [Clients -> Answers \cup {Nothing}]
    /\ \A k \in DOMAIN latest : latest[k] \in [body : Answers, storedAt : Nat]

(* The queue lists every stored key exactly once, the counter is the length *)
(* of the stored bodies, and both limits hold after every critical section. *)
FieldsAgree ==
    /\ {lru[i] : i \in DOMAIN lru} = DOMAIN entries
    /\ \A i, j \in DOMAIN lru : lru[i] = lru[j] => i = j
    /\ bytes = SizeOf(entries, DOMAIN entries)
    /\ bytes <= MaxBytes
    /\ Cardinality(DOMAIN entries) <= MaxEntries

(* ADR-0033 rules 1, 2 and 5: what a hit replays was given by the upstream  *)
(* model the request goes to, in answer to the same body, however many      *)
(* requests failed over in between.                                         *)
NoForeignReplay ==
    \A c \in Clients : phase[c] = "hit" =>
        /\ answer[c].from = UpstreamOf[request[c].model]
        /\ answer[c].asked = request[c].body

(* A hit replays the last answer that was stored under its key, less than   *)
(* ttl after that answer was stored: a hit in between refreshes the place in*)
(* the queue and not the age, and no older answer outlives a replacement.   *)
HitsAreFresh ==
    [][\A c \in Clients, m \in Endpoints, b \in Bodies :
          Hit(c, m, b) =>
             LET last == latest[<<UpstreamOf[m], b>>]
             IN  /\ answer'[c] = last.body
                 /\ Ttl # NeverExpires => now - last.storedAt < Ttl]_vars

(* The cache implements the bounded map: the queue is its order of use, and *)
(* a client is given what the map holds.                                    *)
Before == {<<lru[p[1]], lru[p[2]]>> : p \in
              {q \in (DOMAIN lru) \X (DOMAIN lru) : q[1] < q[2]}}

Given == [c \in Clients |-> IF phase[c] = "hit" THEN answer[c] ELSE Nothing]

Promise == INSTANCE BoundedCache
    WITH content <- entries, before <- Before, given <- Given

KeepsPromise == Promise!Spec
=============================================================================
