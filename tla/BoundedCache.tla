---------------------------- MODULE BoundedCache ----------------------------
(***************************************************************************)
(* What the response cache promises: a partial map from keys to answers,    *)
(* bounded in number and in size, that forgets what was used longest ago    *)
(* and nothing else, and never returns an answer past its time to live.     *)
(*                                                                         *)
(* Recency is a strict order on the stored keys: <<j, k>> \in before says   *)
(* that j was used before k.  There is no queue and no byte counter here.   *)
(***************************************************************************)
EXTENDS Integers, FiniteSets, FiniteSetsExt

CONSTANTS Clients, Keys, Answers, Nothing, MaxEntries, MaxBytes, Ttl

VARIABLES
    now,
    content,  \* key -> [body, storedAt]
    before,   \* the order of use of the stored keys
    given     \* the answer that each client got from the cache, or Nothing

NeverExpires == 0

Expired(e) == Ttl # NeverExpires /\ now - e.storedAt >= Ttl

SizeOf(map, keys) == MapThenSumSet(LAMBDA k : map[k].body.size, keys)

Fits(map, keys) ==
    Cardinality(keys) <= MaxEntries /\ SizeOf(map, keys) <= MaxBytes

(* The sets of keys an eviction may leave: whoever is younger than a key    *)
(* that stays, stays.                                                       *)
Suffixes(keys, order) ==
    {kept \in SUBSET keys :
        \A j \in kept, k \in keys : <<j, k>> \in order => k \in kept}

OnlyAmong(order, keys) == {p \in order : p[1] \in keys /\ p[2] \in keys}

(* Using k makes it the youngest of the stored keys.                        *)
Used(k, keys, order) ==
    OnlyAmong(order, keys \ {k}) \cup {<<j, k>> : j \in keys \ {k}}

-----------------------------------------------------------------------------
Init ==
    /\ now = 0
    /\ content = [k \in {} |-> {}]
    /\ before = {}
    /\ given = [c \in Clients |-> Nothing]

Pass ==
    /\ now' = now + 1
    /\ UNCHANGED <<content, before, given>>

(* A lookup that finds something makes it the youngest.                     *)
Hit(c, k) ==
    /\ k \in DOMAIN content
    /\ ~Expired(content[k])
    /\ before' = Used(k, DOMAIN content, before)
    /\ given' = [given EXCEPT ![c] = content[k].body]
    /\ UNCHANGED <<now, content>>

(* A lookup finds nothing, or something too old, which it removes.          *)
Miss(c) ==
    /\ given' = [given EXCEPT ![c] = Nothing]
    /\ \/ UNCHANGED <<content, before>>
       \/ \E k \in DOMAIN content :
             LET rest == DOMAIN content \ {k}
             IN  /\ Expired(content[k])
                 /\ content' = [j \in rest |-> content[j]]
                 /\ before' = OnlyAmong(before, rest)
    /\ UNCHANGED now

(* A store replaces the key's answer, makes it the youngest and forgets as  *)
(* few of the others as the limits allow, oldest first.                     *)
Store(k, body) ==
    LET keys  == DOMAIN content \cup {k}
        map   == [j \in keys |-> IF j = k THEN [body |-> body, storedAt |-> now]
                                          ELSE content[j]]
        order == Used(k, keys, before)
    IN  /\ body.size <= MaxBytes
        /\ k \in DOMAIN content'
        /\ content'[k].body = body
        /\ \E kept \in Suffixes(keys, order) :
              /\ Fits(map, kept)
              /\ \A more \in Suffixes(keys, order) :
                    Fits(map, more) => more \subseteq kept
              /\ content' = [j \in kept |-> map[j]]
              /\ before' = OnlyAmong(order, kept)
        /\ UNCHANGED <<now, given>>

Next ==
    \/ Pass
    \/ \E c \in Clients : Miss(c) \/ \E k \in Keys : Hit(c, k)
    \/ \E k \in Keys, a \in Answers : Store(k, a)

Spec == Init /\ [][Next]_<<now, content, before, given>>
=============================================================================
