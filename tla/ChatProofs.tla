----------------------------- MODULE ChatProofs -----------------------------
(***************************************************************************)
(* Proofs about ChatTerminal, for any number of threads, prompts and       *)
(* deltas: the conversations in memory, on disk and in the list stay sound *)
(* whatever the worker, the upstream, the user and the disk do, and no     *)
(* answer that was kept and saved is lost unless a stale list is opened.   *)
(***************************************************************************)
EXTENDS ChatTerminal, SequenceTheorems, TLAPS

-----------------------------------------------------------------------------
(* Sound conversations, after n prompts with the outcomes o.                *)

Occurs(s, t) == \E i \in DOMAIN s : s[i].turn = t

Distinct(s) == \A i, j \in DOMAIN s : s[i] = s[j] => i = j

(* An answer stands behind its prompt, and is one of a completed reply.     *)
Answered(s, o) ==
    \A i \in DOMAIN s : s[i].role = "assistant" =>
        /\ i > 1
        /\ s[i - 1] = User(s[i].turn)
        /\ o[s[i].turn] = "done"

Withdrawn(s, o) == \A i \in DOMAIN s : o[s[i].turn] = "withdrawn" => i = 1

Sound(s, n, o) ==
    /\ s \in Conversations
    /\ \A i \in DOMAIN s : s[i].turn <= n
    /\ Distinct(s) /\ Answered(s, o) /\ Withdrawn(s, o)

-----------------------------------------------------------------------------
(* The invariants.                                                          *)

Events == {"delta", "done", "empty", "error", "cancelled", "discard"}

(* An event that ends a reply is the worker's last.                         *)
OneEnd == \A i \in DOMAIN channel : channel[i] # "delta" => job = "none"

(* The types, with what TypeOK leaves open: the files of all threads, the   *)
(* channel, and that the reply in flight is that of the last prompt.        *)
StateOK ==
    /\ TypeOK
    /\ disk \in [Threads -> Conversations \cup {Torn}]
    /\ channel \in Seq(Events)
    /\ OneEnd
    /\ busy => up /\ pending.turn = turns /\ turns >= 1

(* The outcomes, but a withdrawal that did not get to the disk counts as no *)
(* answer: of such a prompt nothing is promised.                            *)
Ends ==
    [t \in 1..MaxTurns |->
        IF outcome[t] = "withdrawn" /\ t \in unsaved THEN "unanswered" ELSE outcome[t]]

AllSound ==
    /\ Sound(messages, turns, Ends)
    /\ \A id \in Threads : disk[id] = Torn \/ Sound(disk[id], turns, Ends)
    /\ \A id \in DOMAIN listing : Sound(listing[id], turns, Ends)

(* Nothing is known yet of the turns to come.                               *)
Fresh ==
    \A t \in 1..MaxTurns : t > turns =>
        outcome[t] = "none" /\ kept[t] = Nowhere /\ t \notin unsaved

(* The turn in flight has no outcome yet, and its prompt is nowhere but at  *)
(* the end of the conversation in memory, and in its file if it was saved.  *)
InFlight ==
    busy =>
        /\ outcome[turns] = "none" /\ kept[turns] = Nowhere /\ turns \notin unsaved
        /\ IF pending.remember
           THEN /\ messages # << >>
                /\ messages[Len(messages)] = User(turns)
           ELSE ~Occurs(messages, turns)
        /\ \A id \in Threads :
              \/ ~Occurs(disk[id], turns)
              \/ id = thread /\ pending.remember /\ disk[id] = messages
        /\ \A id \in DOMAIN listing : ~Occurs(listing[id], turns)

ChatInv == AllSound /\ Fresh /\ InFlight

(* An answer is in no conversation but its own, and what exists belongs to  *)
(* an id that was drawn.                                                    *)
AtHome ==
    /\ up => thread <= drawn
    /\ \A t \in 1..MaxTurns :
          /\ kept[t] <= drawn
          /\ Holds(messages, t) => kept[t] = thread
          /\ \A id \in Threads : Holds(disk[id], t) => kept[t] = id
          /\ \A id \in DOMAIN listing : Holds(listing[id], t) => kept[t] = id
    /\ \A id \in Threads : disk[id] # NoFile => id <= drawn
    /\ \A id \in DOMAIN listing : id <= drawn

(* What is in memory holds every answer kept in its thread that ever got to *)
(* the disk.                                                                *)
MemoryKeeps ==
    up => \A t \in 1..MaxTurns :
             kept[t] # Nowhere /\ kept[t] = thread => Holds(messages, t) \/ t \in unsaved

-----------------------------------------------------------------------------
(* What the handlers do to a sound conversation.                            *)

Message == [role : {"user", "assistant"}, turn : 1..MaxTurns]

LEMMA MessagesOf ==
    ASSUME NEW s \in Conversations
    PROVE  /\ Len(s) \in Nat /\ DOMAIN s = 1..Len(s)
           /\ \A i \in DOMAIN s : /\ s[i] \in Message
                                  /\ s[i].role \in {"user", "assistant"}
                                  /\ s[i].turn \in 1..MaxTurns
                                  /\ s[i] = [role |-> s[i].role, turn |-> s[i].turn]
<1>1. s \in Seq(Message)
  BY DEF Conversations, Message
<1>2. Len(s) \in Nat /\ DOMAIN s = 1..Len(s)
  BY <1>1, LenProperties
<1>3. \A i \in DOMAIN s : s[i] \in Message
  BY ONLY <1>1, <1>2, ElementOfSeq
<1>4. QED
  BY <1>2, <1>3 DEF Message

(* A prompt is added.                                                       *)
LEMMA PromptAdded ==
    ASSUME NEW n \in Nat, n + 1 <= MaxTurns, NEW o \in [1..MaxTurns -> Outcomes],
           NEW s, Sound(s, n, o), o[n + 1] = "none"
    PROVE  /\ Sound(Append(s, User(n + 1)), n + 1, o)
           /\ Append(s, User(n + 1)) # << >>
           /\ LET a == Append(s, User(n + 1)) IN a[Len(a)] = User(n + 1)
<1> DEFINE m == User(n + 1)
           a == Append(s, m)
<1>1. m \in Message /\ m.role = "user" /\ m.turn = n + 1
  BY ChatAssumption DEF User, Message
<1>2. s \in Seq(Message) /\ \A i \in DOMAIN s : s[i] \in Message /\ s[i].turn <= n
  BY MessagesOf DEF Sound, Conversations, Message
<1> HIDE DEF m
<1>3. /\ a \in Seq(Message) /\ Len(a) = Len(s) + 1 /\ Len(s) \in Nat
      /\ a[Len(s) + 1] = m /\ \A i \in 1..Len(s) : a[i] = s[i]
      /\ DOMAIN s = 1..Len(s) /\ DOMAIN a = 1..(Len(s) + 1)
  BY <1>1, <1>2, AppendProperties, LenProperties
<1> HIDE DEF a
<1>4. \A i \in DOMAIN a : (i \in DOMAIN s /\ a[i] = s[i]) \/ (i = Len(s) + 1 /\ a[i] = m)
  BY <1>3
<1>5. \A i \in DOMAIN a : a[i].turn <= n + 1
  BY <1>1, <1>2, <1>4 DEF Message
<1>6. Distinct(a)
  <2> SUFFICES ASSUME NEW i \in DOMAIN a, NEW j \in DOMAIN a, a[i] = a[j] PROVE i = j
    BY DEF Distinct
  <2>1. CASE i \in DOMAIN s /\ j \in DOMAIN s
    BY <1>3, <2>1 DEF Sound, Distinct
  <2>2. \A k \in DOMAIN s : s[k] # m
    BY <1>1, <1>2 DEF Message
  <2>3. QED
    BY <1>4, <2>1, <2>2
<1>7. Answered(a, o)
  <2> SUFFICES ASSUME NEW i \in DOMAIN a, a[i].role = "assistant"
               PROVE  i > 1 /\ a[i - 1] = User(a[i].turn) /\ o[a[i].turn] = "done"
    BY DEF Answered
  <2>1. i \in DOMAIN s /\ a[i] = s[i]
    BY <1>1, <1>4
  <2>2. i > 1 /\ s[i - 1] = User(s[i].turn) /\ o[s[i].turn] = "done"
    BY <2>1 DEF Sound, Answered
  <2>3. a[i - 1] = s[i - 1]
    BY <1>3, <2>1, <2>2
  <2>4. QED
    BY <2>1, <2>2, <2>3
<1>8. Withdrawn(a, o)
  BY <1>1, <1>4 DEF Sound, Withdrawn
<1>9. a # << >> /\ a[Len(a)] = m
  BY <1>3
<1>10. QED
  BY <1>3, <1>5, <1>6, <1>7, <1>8, <1>9 DEF Sound, Conversations, Message, a, m

(* Another prompt was asked.                                                *)
LEMMA OneMoreTurn ==
    ASSUME NEW n \in Nat, NEW o, NEW s, Sound(s, n, o)
    PROVE  Sound(s, n + 1, o)
<1>1. \A i \in DOMAIN s : s[i].turn \in Int /\ s[i].turn <= n
  BY MessagesOf DEF Sound
<1>2. \A i \in DOMAIN s : s[i].turn <= n + 1
  BY <1>1
<1>3. QED
  BY <1>2 DEF Sound

(* A conversation that does not hold a turn does not care how it ended.     *)
LEMMA OfOthers ==
    ASSUME NEW n, NEW o \in [1..MaxTurns -> Outcomes], NEW t \in 1..MaxTurns, NEW v,
           NEW s, Sound(s, n, o), ~Occurs(s, t)
    PROVE  Sound(s, n, [o EXCEPT ![t] = v])
<1> DEFINE p == [o EXCEPT ![t] = v]
<1>1. \A i \in DOMAIN s : s[i].turn \in 1..MaxTurns /\ s[i].turn # t
  BY MessagesOf DEF Sound, Occurs
<1>2. \A i \in DOMAIN s : p[s[i].turn] = o[s[i].turn]
  BY <1>1
<1> HIDE DEF p
<1>3. Answered(s, p)
  BY <1>2 DEF Sound, Answered
<1>4. Withdrawn(s, p)
  BY <1>2 DEF Sound, Withdrawn
<1>5. QED
  BY <1>3, <1>4 DEF Sound, p

(* A turn that ends, but is not withdrawn, disturbs nobody.                 *)
LEMMA NotWithdrawn ==
    ASSUME NEW n, NEW o \in [1..MaxTurns -> Outcomes], NEW t \in 1..MaxTurns,
           NEW v, v # "withdrawn", o[t] = "none",
           NEW s, Sound(s, n, o)
    PROVE  Sound(s, n, [o EXCEPT ![t] = v])
<1> DEFINE p == [o EXCEPT ![t] = v]
<1>1. \A i \in DOMAIN s : s[i].turn \in 1..MaxTurns
  BY MessagesOf DEF Sound
<1>2. \A i \in DOMAIN s :
         \/ p[s[i].turn] = o[s[i].turn]
         \/ p[s[i].turn] # "withdrawn" /\ o[s[i].turn] = "none"
  BY <1>1
<1> HIDE DEF p
<1>3. Answered(s, p)
  BY <1>2 DEF Sound, Answered
<1>4. Withdrawn(s, p)
  BY <1>2 DEF Sound, Withdrawn
<1>5. QED
  BY <1>3, <1>4 DEF Sound, p

(* Rolling back takes the last message, and with it the turn.               *)
LEMMA RolledBack ==
    ASSUME NEW n \in 1..MaxTurns, NEW o \in [1..MaxTurns -> Outcomes], o[n] = "none",
           NEW s, Sound(s, n, o), s # << >>, s[Len(s)] = User(n), NEW v
    PROVE  /\ Sound(Front(s), n, [o EXCEPT ![n] = v])
           /\ ~Occurs(Front(s), n)
           /\ \A t : Holds(s, t) => Holds(Front(s), t)
           /\ Front(s) = << >> => Sound(s, n, [o EXCEPT ![n] = v])
<1> DEFINE f == Front(s)
           p == [o EXCEPT ![n] = v]
<1>1. /\ s \in Conversations /\ Len(s) \in Nat /\ DOMAIN s = 1..Len(s)
      /\ \A i \in DOMAIN s : s[i].turn \in 1..MaxTurns
      /\ \A i \in DOMAIN s : s[i] = [role |-> s[i].role, turn |-> s[i].turn]
      /\ \A i \in DOMAIN s : s[i].role \in {"user", "assistant"}
  BY MessagesOf DEF Sound
<1>2. Len(s) >= 1
  BY <1>1, EmptySeq DEF Conversations
<1>3. /\ f \in Conversations /\ Len(f) = Len(s) - 1 /\ DOMAIN f = 1..(Len(s) - 1)
      /\ \A i \in DOMAIN f : i \in DOMAIN s /\ f[i] = s[i]
  <2>1. s \in Seq(Message)
    BY <1>1, <1>2 DEF Conversations, Message
  <2>2. f = SubSeq(s, 1, Len(s) - 1)
    BY DEF Front
  <2> HIDE DEF f
  <2>3. /\ f \in Seq(Message) /\ Len(f) = Len(s) - 1
        /\ \A i \in 1..(Len(s) - 1) : f[i] = s[i]
    BY <1>1, <1>2, <2>1, <2>2, SubSeqProperties
  <2>4. DOMAIN f = 1..(Len(s) - 1)
    BY <2>3, LenProperties
  <2>5. QED
    BY <1>1, <2>3, <2>4 DEF Conversations, Message
<1> HIDE DEF f
<1>4. Sound(f, n, o)
  <2>1. \A i \in DOMAIN f : f[i].turn <= n
    BY <1>3 DEF Sound
  <2>2. Distinct(f)
    BY <1>3 DEF Sound, Distinct
  <2>3. Answered(f, o)
    <3> SUFFICES ASSUME NEW i \in DOMAIN f, f[i].role = "assistant"
                 PROVE  i > 1 /\ f[i - 1] = User(f[i].turn) /\ o[f[i].turn] = "done"
      BY DEF Answered
    <3>1. i > 1 /\ s[i - 1] = User(s[i].turn) /\ o[s[i].turn] = "done"
      BY <1>3 DEF Sound, Answered
    <3>2. i - 1 \in DOMAIN f
      BY <1>1, <1>3, <3>1
    <3>3. QED
      BY <1>3, <3>1, <3>2
  <2>4. Withdrawn(f, o)
    BY <1>3 DEF Sound, Withdrawn
  <2>5. QED
    BY <1>3, <2>1, <2>2, <2>3, <2>4 DEF Sound
<1>5. \A i \in DOMAIN s : s[i].turn = n => s[i] = User(n) /\ i = Len(s)
  <2> SUFFICES ASSUME NEW i \in DOMAIN s, s[i].turn = n
               PROVE  s[i] = User(n) /\ i = Len(s)
    OBVIOUS
  <2>1. s[i].role # "assistant"
    BY DEF Sound, Answered
  <2>2. s[i] = User(n)
    BY <1>1, <2>1 DEF User
  <2>3. QED
    BY <1>1, <1>2, <2>2 DEF Sound, Distinct
<1>6. ~Occurs(f, n)
  BY <1>1, <1>3, <1>5 DEF Occurs
<1>7. Sound(f, n, p)
  BY <1>4, <1>6, OfOthers
<1>8. \A t : Holds(s, t) => Holds(f, t)
  <2> SUFFICES ASSUME NEW t, NEW i \in DOMAIN s, s[i] = Assistant(t)
               PROVE  i \in DOMAIN f /\ f[i] = s[i]
    BY DEF Holds
  <2>1. i # Len(s)
    BY DEF User, Assistant
  <2>2. i \in DOMAIN f
    BY <1>1, <1>3, <2>1
  <2>3. QED
    BY <1>3, <2>2
<1>9. ASSUME f = << >> PROVE Sound(s, n, p)
  <2>1. \A i \in DOMAIN s : i = 1
    BY <1>1, <1>2, <1>3, <1>9
  <2>2. \A i \in DOMAIN s : s[i].role # "assistant"
    BY <2>1 DEF Sound, Answered
  <2>3. Answered(s, p)
    BY <2>2 DEF Answered
  <2>4. Withdrawn(s, p)
    BY <2>1 DEF Withdrawn
  <2>5. QED
    BY <2>3, <2>4 DEF Sound
<1>10. QED
  BY <1>6, <1>7, <1>8, <1>9 DEF f

(* A completed reply is added behind its prompt.                            *)
LEMMA Completed ==
    ASSUME NEW n \in 1..MaxTurns, NEW o \in [1..MaxTurns -> Outcomes], o[n] = "none",
           NEW s, Sound(s, n, o), s # << >>, s[Len(s)] = User(n)
    PROVE  /\ Sound(Append(s, Assistant(n)), n, [o EXCEPT ![n] = "done"])
           /\ \A i \in DOMAIN s : /\ i \in DOMAIN Append(s, Assistant(n))
                                  /\ Append(s, Assistant(n))[i] = s[i]
           /\ Holds(Append(s, Assistant(n)), n)
           /\ Append(s, Assistant(n)) # << >>
<1> DEFINE m == Assistant(n)
           a == Append(s, m)
           p == [o EXCEPT ![n] = "done"]
<1>1. m \in Message /\ m.role = "assistant" /\ m.turn = n
  BY DEF Assistant, Message
<1>2. /\ s \in Seq(Message) /\ Len(s) \in Nat /\ DOMAIN s = 1..Len(s)
  BY MessagesOf DEF Sound, Conversations, Message
<1>3. Len(s) >= 1
  BY <1>2, EmptySeq
<1>4. Sound(s, n, p)
  BY NotWithdrawn
<1>5. p[n] = "done"
  OBVIOUS
<1>6. m # User(n) /\ \A i \in DOMAIN s : s[i] # m
  <2>1. \A i \in DOMAIN s : s[i].role = "assistant" => s[i].turn # n
    BY DEF Sound, Answered
  <2>2. QED
    BY <1>1, <2>1 DEF User
<1> HIDE DEF m, p
<1>7. /\ a \in Seq(Message) /\ Len(a) = Len(s) + 1
      /\ a[Len(s) + 1] = m /\ \A i \in 1..Len(s) : a[i] = s[i]
      /\ DOMAIN a = 1..(Len(s) + 1)
  BY <1>1, <1>2, AppendProperties, LenProperties
<1> HIDE DEF a
<1>8. \A i \in DOMAIN a : (i \in DOMAIN s /\ a[i] = s[i]) \/ (i = Len(s) + 1 /\ a[i] = m)
  BY <1>2, <1>7
<1>9. \A i \in DOMAIN a : a[i].turn <= n
  BY <1>1, <1>8 DEF Sound
<1>10. Distinct(a)
  <2> SUFFICES ASSUME NEW i \in DOMAIN a, NEW j \in DOMAIN a, a[i] = a[j] PROVE i = j
    BY DEF Distinct
  <2>1. CASE i \in DOMAIN s /\ j \in DOMAIN s
    BY <1>2, <1>7, <2>1 DEF Sound, Distinct
  <2>2. QED
    BY <1>6, <1>8, <2>1
<1>11. Answered(a, p)
  <2> SUFFICES ASSUME NEW i \in DOMAIN a, a[i].role = "assistant"
               PROVE  i > 1 /\ a[i - 1] = User(a[i].turn) /\ p[a[i].turn] = "done"
    BY DEF Answered
  <2>1. CASE i \in DOMAIN s
    <3>1. i > 1 /\ s[i - 1] = User(s[i].turn) /\ p[s[i].turn] = "done" /\ a[i] = s[i]
      BY <1>2, <1>4, <1>7, <2>1 DEF Sound, Answered
    <3>2. a[i - 1] = s[i - 1]
      BY <1>2, <1>7, <2>1, <3>1
    <3>3. QED
      BY <3>1, <3>2
  <2>2. CASE i = Len(s) + 1 /\ a[i] = m
    <3>1. i > 1 /\ i - 1 = Len(s) /\ a[Len(s)] = s[Len(s)]
      BY <1>2, <1>3, <1>7, <2>2
    <3>2. QED
      BY <1>1, <1>5, <2>2, <3>1
  <2>3. QED
    BY <1>8, <2>1, <2>2
<1>12. Withdrawn(a, p)
  BY <1>1, <1>4, <1>5, <1>8 DEF Sound, Withdrawn
<1>13. Holds(a, n) /\ a # << >>
  BY <1>2, <1>3, <1>7 DEF Holds, m
<1>14. Sound(a, n, p)
  BY <1>7, <1>9, <1>10, <1>11, <1>12 DEF Sound, Conversations, Message
<1>15. \A i \in DOMAIN s : i \in DOMAIN a /\ a[i] = s[i]
  BY <1>2, <1>7
<1>16. QED
  BY <1>13, <1>14, <1>15 DEF a, p, m

-----------------------------------------------------------------------------
(* Types.                                                                   *)

(* What a save leaves on the disk and in the books.                         *)
LEMMA Persisted ==
    ASSUME StateOK, NEW s, NEW e, Persist(s, e)
    PROVE  /\ \A id \in Threads : id # thread => disk'[id] = disk[id]
           /\ \/ disk' = disk /\ unsaved' = unsaved /\ s = << >>
              \/ Written(s) /\ disk'[thread] = s /\ s # << >>
              \/ /\ unsaved' = unsaved \cup e /\ s # << >>
                 /\ disk' = disk \/ disk' = [disk EXCEPT ![thread] = Torn]
                 /\ disk'[thread] = disk[thread] \/ disk'[thread] = Torn
BY DEF StateOK, TypeOK, Persist, Written, WriteFails, diskVars

LEMMA PersistTypes ==
    ASSUME StateOK, NEW s \in Conversations, NEW e \in SUBSET (1..MaxTurns), Persist(s, e)
    PROVE  /\ disk' \in [Threads -> Conversations \cup {Torn}]
           /\ unsaved' \subseteq 1..MaxTurns
BY DEF StateOK, TypeOK, Persist, Written, WriteFails, diskVars

(* What ends a reply is the last event, so Idle leaves no worker behind.    *)
LEMMA IdleTypes ==
    ASSUME StateOK, Idle
    PROVE  /\ pending' = None /\ ~busy' /\ cancel' = FALSE /\ deltas' = 0
           /\ channel' = << >> /\ job' = job
BY DEF Idle, busy

LEMMA SpawnTypes ==
    ASSUME StateOK, turns' = turns + 1, turns < MaxTurns, up, up' = up,
           NEW kind \in {"stream", "whole", "remote"}, NEW remember \in BOOLEAN,
           Spawn(kind, remember)
    PROVE  /\ pending' \in [turn : 0..MaxTurns, remember : BOOLEAN]
           /\ pending'.turn = turns' /\ turns' >= 1 /\ turns' \in 0..MaxTurns
           /\ pending'.remember = remember
           /\ busy' /\ cancel' = FALSE /\ deltas' = 0 /\ channel' = << >>
           /\ job' \in {"none", "stream", "whole", "remote"}
<1>1. turns \in Nat /\ turns + 1 \in 0..MaxTurns /\ turns + 1 >= 1
  BY ChatAssumption DEF StateOK, TypeOK
<1>2. pending' = [turn |-> turns + 1, remember |-> remember]
  BY DEF Spawn
<1>3. pending'.turn # 0
  BY <1>1, <1>2
<1>4. QED
  BY <1>1, <1>2, <1>3 DEF Spawn, busy, None

LEMMA StateInvariant == Spec => []StateOK
<1> USE ChatAssumption
<1>1. Init => StateOK
  <2> SUFFICES ASSUME Init PROVE StateOK
    OBVIOUS
  <2>1. << >> \in Conversations /\ << >> \in Seq(Events)
    BY EmptySeq DEF Conversations
  <2>2. ~busy /\ OneEnd
    BY DEF Init, busy, OneEnd
  <2>3. /\ pending \in [turn : 0..MaxTurns, remember : BOOLEAN]
        /\ drawn \in 0..MaxThreads /\ unsaved \subseteq 1..MaxTurns
    BY DEF Init, None
  <2>4. DOMAIN listing = {}
    BY DEF Init
  <2>5. outcome \in [1..MaxTurns -> Outcomes] /\ kept \in [1..MaxTurns -> Threads \cup {Nowhere}]
    BY DEF Init, Outcomes
  <2>6. disk \in [Threads -> Conversations \cup {Torn}]
    BY <2>1 DEF Init, NoFile
  <2>7. /\ up \in BOOLEAN /\ remote \in BOOLEAN /\ cancel \in BOOLEAN
        /\ messages \in Conversations /\ thread \in Threads
        /\ job \in {"none", "stream", "whole", "remote"}
        /\ turns \in 0..MaxTurns /\ deltas \in 0..MaxDeltas
    <3>1. 0 \in 0..MaxTurns /\ 0 \in 0..MaxDeltas
      OBVIOUS
    <3>2. 1 \in Threads
      BY DEF Threads
    <3>3. QED
      BY <2>1, <3>1, <3>2 DEF Init
  <2>8. TypeOK
    BY <2>2, <2>3, <2>4, <2>5, <2>6, <2>7 DEF Init, TypeOK
  <2>9. QED
    BY <2>1, <2>2, <2>6, <2>8 DEF Init, StateOK
<1>2. StateOK /\ [Next]_vars => StateOK'
  <2> SUFFICES ASSUME StateOK, [Next]_vars PROVE StateOK'
    OBVIOUS
  <2> USE DEF StateOK, TypeOK
  <2>0. /\ << >> \in Conversations /\ << >> \in Seq(Events)
        /\ None \in [turn : 0..MaxTurns, remember : BOOLEAN]
        /\ turns \in Nat /\ MaxTurns \in Nat /\ 0 \in 0..MaxDeltas
        /\ 1 \in Threads
    BY EmptySeq DEF Conversations, None, Threads
  <2>00. NewThread => thread' \in Threads /\ drawn' \in 0..MaxThreads
    BY DEF NewThread, Threads
  <2>01. channel' = << >> => OneEnd'
    BY DEF OneEnd
  <2>02. UNCHANGED <<channel, job>> => OneEnd'
    BY DEF OneEnd
  <2>1. CASE Start
    <3>1. ~busy /\ job = "none"
      BY <2>1 DEF Start
    <3>2. thread' \in Threads /\ drawn' \in 0..MaxThreads
      BY <2>00, <2>1 DEF Start
    <3>3. ~busy'
      BY <2>1, <3>1 DEF Start, busy
    <3>4. listing' = [id \in {} |-> NoFile]
      BY <2>1 DEF Start
    <3>5. QED
      BY <2>0, <2>01, <2>02, <2>1, <3>1, <3>2, <3>3, <3>4
         DEF Start, workerVars, historyVars, diskVars
  <2>2. ASSUME Gone, disk' \in [Threads -> Conversations \cup {Torn}] PROVE StateOK'
    <3>1. ~busy'
      BY <2>2 DEF Gone, busy
    <3>2. QED
      BY <2>0, <2>01, <2>02, <2>2, <3>1 DEF Gone, historyVars
  <2>3. CASE Quit
    BY <2>2, <2>3 DEF Quit
  <2>4. CASE KillInSave
    BY <2>2, <2>4 DEF KillInSave
  <2>5. CASE Submit
    <3>1. /\ up /\ ~busy /\ turns < MaxTurns /\ turns' = turns + 1
          /\ UNCHANGED <<up, remote, thread, listing, drawn, outcome, kept>>
      BY <2>5 DEF Submit, Composing
    <3>2. turns' \in 0..MaxTurns
      BY <2>0, <2>01, <2>02, <3>1
    <3>3. /\ messages' \in Conversations
          /\ disk' \in [Threads -> Conversations \cup {Torn}]
          /\ unsaved' \subseteq 1..MaxTurns
      <4>1. CASE Ask(turns')
        <5>1. User(turns + 1) \in Message
          BY <2>0, <2>01, <2>02, <3>1 DEF User, Message
        <5>2. messages' \in Conversations
          BY <4>1, <5>1, <3>1, AppendProperties DEF Ask, Conversations, Message
        <5>3. Persist(messages', {})
          BY <4>1 DEF Ask
        <5>4. QED
          BY <5>2, <5>3, PersistTypes
      <4>2. CASE AskAside(turns') \/ AskInVain(turns')
        BY <4>2 DEF AskAside, AskInVain, diskVars
      <4>3. QED
        BY <2>5, <4>1, <4>2 DEF Submit
    <3>4. \/ SpawnNothing
          \/ \E kind \in {"stream", "whole", "remote"}, remember \in BOOLEAN :
                Spawn(kind, remember)
      BY <2>5 DEF Submit, Ask, AskAside, AskInVain
    <3>5. CASE SpawnNothing
      <4>1. ~busy' /\ pending' = pending /\ job' = job /\ cancel' = cancel
            /\ channel' = channel /\ deltas' = deltas
        BY <3>1, <3>5 DEF SpawnNothing, workerVars, busy
      <4>2. QED
        BY <2>02, <3>1, <3>2, <3>3, <4>1
    <3>6. ASSUME NEW kind \in {"stream", "whole", "remote"}, NEW remember \in BOOLEAN,
                 Spawn(kind, remember)
          PROVE  StateOK'
      <4>1. /\ pending' \in [turn : 0..MaxTurns, remember : BOOLEAN]
            /\ pending'.turn = turns' /\ turns' >= 1
            /\ busy' /\ cancel' = FALSE /\ deltas' = 0 /\ channel' = << >>
            /\ job' \in {"none", "stream", "whole", "remote"}
        BY <3>1, <3>6, SpawnTypes
      <4>2. QED
        BY <2>0, <2>01, <2>02, <3>1, <3>2, <3>3, <4>1
    <3>7. QED
      BY <3>4, <3>5, <3>6
  <2>6. ASSUME Composing, UNCHANGED <<up, remote, pending, workerVars, historyVars>>,
               messages' \in Conversations, thread' \in Threads, drawn' \in 0..MaxThreads,
               disk' \in [Threads -> Conversations \cup {Torn}],
               unsaved' \subseteq 1..MaxTurns,
               DOMAIN listing' \subseteq Threads,
               \A id \in DOMAIN listing' : listing'[id] \in Conversations
        PROVE  StateOK'
    <3>1. ~busy'
      BY <2>6 DEF Composing, busy
    <3>2. QED
      BY <2>02, <2>6, <3>1 DEF Composing, workerVars, historyVars
  <2>7. CASE New
    <3>1. disk' \in [Threads -> Conversations \cup {Torn}] /\ unsaved' \subseteq 1..MaxTurns
      BY <2>7, PersistTypes DEF New
    <3>2. thread' \in Threads /\ drawn' \in 0..MaxThreads
      BY <2>00, <2>7 DEF New
    <3>3. QED
      BY <2>0, <2>01, <2>02, <2>6, <2>7, <3>1, <3>2 DEF New
  <2>8. /\ DOMAIN Listed \subseteq Threads
        /\ \A id \in DOMAIN Listed : Listed[id] \in Conversations
    BY DEF Listed
  <2>9. CASE List
    BY <2>6, <2>8, <2>9 DEF List, diskVars
  <2>10. CASE Open
    <3> DEFINE entries == IF DOMAIN listing = {} THEN Listed ELSE listing
    <3>1. /\ Composing /\ Persist(messages, {}) /\ listing' = entries
          /\ \E id \in DOMAIN entries : thread' = id /\ messages' = entries[id]
          /\ UNCHANGED <<up, remote, drawn, pending, workerVars, historyVars>>
      BY <2>10 DEF Open
    <3>2. /\ DOMAIN entries \subseteq Threads
          /\ \A id \in DOMAIN entries : entries[id] \in Conversations
      BY <2>8
    <3> HIDE DEF entries
    <3>3. disk' \in [Threads -> Conversations \cup {Torn}] /\ unsaved' \subseteq 1..MaxTurns
      BY <3>1, PersistTypes
    <3>4. QED
      BY <2>6, <3>1, <3>2, <3>3
  <2>11. CASE Cancel
    BY <2>02, <2>11 DEF Cancel, loopVars, diskVars, historyVars, busy
  <2>12. CASE Worker
    <3>1. job # "none" /\ busy
      BY <2>12 DEF Worker, StreamItem, StreamEnds, WholeReply, RemoteReply, WorkerDies
    <3>2. WorkerOnly
      BY <2>12 DEF Worker, StreamItem, StreamEnds, WholeReply, RemoteReply, WorkerDies,
                   SendLast
    <3>3. /\ UNCHANGED <<up, remote, messages, thread, listing, disk, pending, cancel,
                         turns, outcome, kept, drawn, unsaved>>
          /\ busy'
      BY <3>1, <3>2 DEF WorkerOnly, loopVars, diskVars, historyVars, busy
    <3>4. \/ /\ \E event \in Events : channel' = Append(channel, event)
             /\ job' = "none" /\ deltas' = deltas
          \/ /\ channel' = Append(channel, "delta")
             /\ job' = job /\ deltas' = deltas + 1 /\ deltas < MaxDeltas
          \/ channel' = channel /\ job' = "none" /\ deltas' = deltas
      BY <2>12 DEF Worker, StreamItem, StreamEnds, WholeReply, RemoteReply, WorkerDies,
                   SendLast, Send, Events
    <3>5. deltas' \in 0..MaxDeltas /\ job' \in {"none", "stream", "whole", "remote"}
      BY <3>4
    <3>6. channel' \in Seq(Events) /\ OneEnd'
      <4>1. \A e \in Events :
               /\ Append(channel, e) \in Seq(Events)
               /\ \A i \in DOMAIN Append(channel, e) :
                     \/ i \in DOMAIN channel /\ Append(channel, e)[i] = channel[i]
                     \/ Append(channel, e)[i] = e
        BY AppendProperties, LenProperties
      <4>2. "delta" \in Events
        BY DEF Events
      <4>3. channel \in Seq(Events)
        BY DEF StateOK
      <4>4. \/ channel' = channel /\ job' = "none"
            \/ \E event \in Events : channel' = Append(channel, event) /\ job' = "none"
            \/ channel' = Append(channel, "delta") /\ job' = job
        BY <3>4
      <4>5. channel' \in Seq(Events)
        <5>1. \A e \in Events : Append(channel, e) \in Seq(Events)
          BY <4>1
        <5>2. ASSUME NEW e \in Events, channel' = Append(channel, e) PROVE channel' \in Seq(Events)
          BY ONLY <5>1, <5>2, Zenon
        <5>3. CASE channel' = channel
          BY <4>3, <5>3
        <5>4. QED
          BY <4>2, <4>4, <5>2, <5>3
      <4>6. ASSUME job' = "none" PROVE OneEnd'
        BY <4>6 DEF OneEnd
      <4>7. ASSUME channel' = Append(channel, "delta") /\ job' = job PROVE OneEnd'
        BY <4>1, <4>2, <4>7 DEF OneEnd
      <4>8. QED
        BY <4>4, <4>5, <4>6, <4>7
    <3>7. TypeOK'
      BY <3>3, <3>5
    <3>8. up' /\ pending'.turn = turns' /\ turns' >= 1
      BY <3>1, <3>3
    <3>9. QED
      BY <3>3, <3>6, <3>7, <3>8 DEF StateOK
  <2>13. CASE Poll /\ Head(channel) = "delta"
    <3>1. channel # << >> /\ channel' = Tail(channel)
          /\ UNCHANGED <<up, remote, messages, thread, listing, disk, pending, cancel,
                         job, deltas, turns, outcome, kept, drawn, unsaved>>
      BY <2>13 DEF Poll, Delta, Conclude, diskVars
    <3>2. /\ channel' \in Seq(Events)
          /\ \A i \in DOMAIN channel' : i + 1 \in DOMAIN channel /\ channel'[i] = channel[i + 1]
      BY <3>1, HeadTailProperties, LenProperties
    <3>3. OneEnd'
      BY <3>1, <3>2 DEF OneEnd
    <3>4. QED
      BY <3>1, <3>2, <3>3 DEF busy
  <2>14. CASE Poll /\ Head(channel) # "delta"
    <3>1. /\ up /\ busy /\ channel # << >> /\ Idle
          /\ Conclude(Verdict(Head(channel)))
          /\ UNCHANGED <<up, remote, thread, listing, drawn, turns>>
      BY <2>14 DEF Poll, Conclude
    <3>2. job = "none"
      BY <2>14, <3>1, HeadTailProperties, LenProperties, EmptySeq DEF OneEnd
    <3>3. pending.turn \in 1..MaxTurns /\ Assistant(pending.turn) \in Message
      BY <3>1 DEF Assistant, Message
    <3>4. /\ messages' \in Conversations
          /\ disk' \in [Threads -> Conversations \cup {Torn}]
          /\ unsaved' \subseteq 1..MaxTurns
      <4> DEFINE e == {pending.turn}
      <4>0. e \in SUBSET (1..MaxTurns)
        BY <3>3
      <4>1. CASE UNCHANGED <<messages, diskVars>>
        BY <4>1 DEF diskVars
      <4>2. CASE messages' = Append(messages, Assistant(pending.turn)) /\ Persist(messages', e)
        <5>1. messages' \in Conversations
          BY <3>3, <4>2, AppendProperties DEF Conversations, Message
        <5>2. QED
          BY <4>0, <4>2, <5>1, PersistTypes
      <4>3. CASE messages' = Front(messages) /\ Persist(messages', e)
        <5>1. \A i \in 1..(Len(messages) - 1) : messages[i] \in Message
          BY MessagesOf
        <5>2. messages' \in Conversations
          BY <4>3, <5>1, MessagesOf, SubSeqProperties DEF Front, Conversations, Message
        <5>3. QED
          BY <4>0, <4>3, <5>2, PersistTypes
      <4>4. QED
        BY <3>1, <4>1, <4>2, <4>3 DEF Conclude, FinishReply, RollBack, Keep
    <3>5. Verdict(Head(channel)) \in Outcomes
      BY DEF Verdict, Outcomes
    <3>6. outcome' \in [1..MaxTurns -> Outcomes] /\ kept' \in [1..MaxTurns -> Threads \cup {Nowhere}]
      BY <3>1, <3>3, <3>5 DEF Conclude
    <3>7. QED
      BY <2>0, <2>01, <2>02, <3>1, <3>2, <3>4, <3>6, IdleTypes
  <2>15. CASE Disconnected
    <3>1. /\ pending.turn \in 1..MaxTurns /\ "unanswered" \in Outcomes
          /\ outcome' = [outcome EXCEPT ![pending.turn] = "unanswered"]
      BY <2>15 DEF Disconnected, Outcomes
    <3>2. QED
      BY <2>0, <2>01, <2>02, <2>15, <3>1, IdleTypes
       DEF Disconnected, loopVars, diskVars
  <2>16. CASE AtRest \/ UNCHANGED vars
    BY <2>02, <2>16 DEF AtRest, vars, diskVars, busy
  <2>17. QED
    BY <2>1, <2>3, <2>4, <2>5, <2>7, <2>9, <2>10, <2>11, <2>12, <2>13, <2>14, <2>15, <2>16
       DEF Next, Loop
<1>3. QED
  BY <1>1, <1>2, PTL DEF Spec

-----------------------------------------------------------------------------
(* Soundness of all conversations.                                          *)

LEMMA EmptyIsSound ==
    ASSUME NEW n, NEW o PROVE Sound(<< >>, n, o)
<1>1. << >> \in Conversations
  BY EmptySeq DEF Conversations
<1>2. QED
  BY <1>1 DEF Sound, Distinct, Answered, Withdrawn

LEMMA NotYet ==
    ASSUME NEW n \in Nat, NEW o, NEW s, Sound(s, n, o) PROVE ~Occurs(s, n + 1)
<1>1. \A i \in DOMAIN s : s[i].turn \in Nat /\ s[i].turn <= n
  BY MessagesOf, ChatAssumption DEF Sound
<1>2. QED
  BY <1>1 DEF Occurs

LEMMA NotTorn ==
    ASSUME NEW t \in Nat, t >= 1 PROVE ~Occurs(Torn, t)
BY DEF Occurs, Torn

(* The outcomes as they count: their type, and a turn without one.          *)
LEMMA EndsTypes ==
    ASSUME StateOK
    PROVE  /\ Ends \in [1..MaxTurns -> Outcomes]
           /\ \A t \in 1..MaxTurns : outcome[t] = "none" => Ends[t] = "none"
BY DEF StateOK, TypeOK, Ends, Outcomes

(* A save that ends no turn does not change how they count: the answers it  *)
(* carries are those of completed replies.                                  *)
LEMMA EndsStay ==
    ASSUME StateOK, outcome' = outcome,
           \/ unsaved' = unsaved
           \/ \E s, n : Sound(s, n, Ends) /\ unsaved' = {t \in unsaved : ~Holds(s, t)}
    PROVE  Ends' = Ends
<1>1. CASE unsaved' = unsaved
  BY <1>1 DEF Ends
<1>2. ASSUME NEW s, NEW n, Sound(s, n, Ends), unsaved' = {t \in unsaved : ~Holds(s, t)}
      PROVE  Ends' = Ends
  <2>1. ASSUME NEW t \in 1..MaxTurns, t \in unsaved, t \notin unsaved'
        PROVE  outcome[t] # "withdrawn"
    <3>1. Ends[t] = "done"
      BY <1>2, <2>1 DEF Holds, Sound, Answered, Assistant
    <3>2. QED
      BY <2>1, <3>1 DEF Ends
  <2>2. QED
    BY <1>2, <2>1 DEF Ends
<1>3. QED
  BY <1>1, <1>2

(* The end of turn n with outcome v: it counts as such when the save, if    *)
(* there was one, succeeded; a withdrawal counts as no answer otherwise.    *)
LEMMA EndsAfter ==
    ASSUME StateOK, NEW n \in 1..MaxTurns, n \notin unsaved, NEW v \in Outcomes,
           outcome' = [outcome EXCEPT ![n] = v]
    PROVE  /\ unsaved' = unsaved => Ends' = [Ends EXCEPT ![n] = v]
           /\ \A s : (/\ Sound(s, n, [Ends EXCEPT ![n] = v])
                      /\ \A t \in unsaved' : t \in unsaved
                      /\ \A t \in unsaved : t \notin unsaved' => Holds(s, t))
                         => Ends' = [Ends EXCEPT ![n] = v]
           /\ unsaved' = unsaved \cup {n} =>
                 Ends' = [Ends EXCEPT ![n] = IF v = "withdrawn" THEN "unanswered" ELSE v]
<1>1. outcome \in [1..MaxTurns -> Outcomes] /\ Ends \in [1..MaxTurns -> Outcomes]
  BY EndsTypes DEF StateOK, TypeOK
<1>2. ASSUME unsaved' = unsaved PROVE Ends' = [Ends EXCEPT ![n] = v]
  BY <1>1, <1>2 DEF Ends
<1>3. ASSUME unsaved' = unsaved \cup {n}
      PROVE  Ends' = [Ends EXCEPT ![n] = IF v = "withdrawn" THEN "unanswered" ELSE v]
  BY <1>1, <1>3 DEF Ends
<1>4. ASSUME NEW s, Sound(s, n, [Ends EXCEPT ![n] = v]),
             \A t \in unsaved' : t \in unsaved,
             \A t \in unsaved : t \notin unsaved' => Holds(s, t)
      PROVE  Ends' = [Ends EXCEPT ![n] = v]
  <2>1. ASSUME NEW t \in 1..MaxTurns, t # n, t \in unsaved, t \notin unsaved'
        PROVE  outcome[t] # "withdrawn"
    <3>1. [Ends EXCEPT ![n] = v][t] = "done"
      BY <1>4, <2>1 DEF Holds, Sound, Answered, Assistant
    <3>2. Ends[t] = "done"
      BY <1>1, <2>1, <3>1
    <3>3. QED
      BY <2>1, <3>2 DEF Ends
  <2>2. n \notin unsaved'
    BY <1>4
  <2>3. \A t \in 1..MaxTurns : t # n => Ends'[t] = Ends[t]
    BY <1>1, <1>4, <2>1 DEF Ends
  <2>4. Ends'[n] = v
    BY <1>1, <2>2 DEF Ends
  <2>5. Ends' \in [1..MaxTurns -> Outcomes]
    BY <1>1, <2>3, <2>4 DEF Ends
  <2>6. QED
    BY <1>1, <2>3, <2>4, <2>5
<1>5. QED
  BY <1>2, <1>3, <1>4

(* With no reply in flight only the conversations matter.                   *)
LEMMA AtRestSound ==
    ASSUME StateOK, Fresh, ~busy', UNCHANGED <<turns, outcome, kept>>, Ends' = Ends,
           unsaved' \subseteq unsaved,
           Sound(messages', turns, Ends),
           \A id \in Threads : disk'[id] = Torn \/ Sound(disk'[id], turns, Ends),
           \A id \in DOMAIN listing' : Sound(listing'[id], turns, Ends)
    PROVE  ChatInv'
BY DEF ChatInv, AllSound, Fresh, InFlight

LEMMA PersistSound ==
    ASSUME StateOK, AllSound, Persist(messages, {}), outcome' = outcome
    PROVE  /\ Ends' = Ends /\ unsaved' \subseteq unsaved
           /\ \A id \in Threads : disk'[id] = Torn \/ Sound(disk'[id], turns, Ends)
<1>1. Sound(messages, turns, Ends)
  BY DEF AllSound
<1>2. /\ unsaved' \subseteq unsaved
      /\ unsaved' = unsaved \/ unsaved' = {t \in unsaved : ~Holds(messages, t)}
  BY Persisted DEF Written
<1>3. Ends' = Ends
  BY <1>1, <1>2, EndsStay
<1>4. \A id \in Threads : disk'[id] = disk[id] \/ disk'[id] = Torn \/ disk'[id] = messages
  BY Persisted
<1>5. QED
  BY <1>1, <1>2, <1>3, <1>4 DEF AllSound

LEMMA SubmitSound ==
    ASSUME StateOK, StateOK', ChatInv, Submit PROVE ChatInv'
<1> USE ChatAssumption
<1> DEFINE n == turns
           a == Append(messages, User(n + 1))
<1>1. /\ up /\ ~busy /\ n \in Nat /\ n + 1 \in 1..MaxTurns /\ turns' = n + 1
      /\ UNCHANGED <<up, remote, thread, listing, outcome, kept>>
      /\ thread \in Threads /\ DOMAIN disk = Threads
      /\ Ends \in [1..MaxTurns -> Outcomes]
  BY EndsTypes DEF Submit, Composing, StateOK, TypeOK
<1>2. /\ outcome[n + 1] = "none" /\ kept[n + 1] = Nowhere /\ n + 1 \notin unsaved
      /\ Ends[n + 1] = "none"
  BY <1>1, EndsTypes DEF ChatInv, Fresh
<1>4. /\ Sound(messages, n, Ends)
      /\ \A id \in Threads : disk[id] = Torn \/ Sound(disk[id], n, Ends)
      /\ \A id \in DOMAIN listing : Sound(listing[id], n, Ends)
  BY DEF ChatInv, AllSound
<1>5. /\ Sound(messages, n + 1, Ends) /\ ~Occurs(messages, n + 1)
      /\ \A id \in Threads : disk[id] = Torn \/ Sound(disk[id], n + 1, Ends)
      /\ \A id \in Threads : ~Occurs(disk[id], n + 1)
      /\ ~Occurs(Torn, n + 1)
      /\ \A id \in DOMAIN listing :
            Sound(listing[id], n + 1, Ends) /\ ~Occurs(listing[id], n + 1)
  BY <1>1, <1>4, OneMoreTurn, NotYet, NotTorn
<1>6. CASE Ask(n + 1)
  <2>1. Sound(a, n + 1, Ends) /\ a # << >> /\ a[Len(a)] = User(n + 1)
    BY <1>1, <1>2, <1>4, PromptAdded
  <2>2. messages' = a /\ Persist(a, {})
    BY <1>6 DEF Ask
  <2>3. pending' = pending \/ pending'.remember = TRUE
    BY <1>6 DEF Ask, Spawn, SpawnNothing
  <2> HIDE DEF a, n
  <2>4. /\ \A id \in Threads :
              \/ disk'[id] = disk[id] \/ disk'[id] = Torn
              \/ id = thread /\ disk'[id] = a
        /\ unsaved' \subseteq unsaved
        /\ unsaved' = unsaved \/ unsaved' = {t \in unsaved : ~Holds(a, t)}
    BY <2>2, Persisted DEF Written
  <2>5. Ends' = Ends
    BY <1>1, <2>1, <2>4, EndsStay
  <2>6. AllSound'
    BY <1>1, <1>5, <2>1, <2>2, <2>4, <2>5 DEF AllSound
  <2>7. InFlight'
    <3>1. CASE pending' = pending
      BY <1>1, <3>1 DEF InFlight, busy
    <3>2. CASE pending'.remember = TRUE
      <4>1. \A id \in Threads :
               \/ ~Occurs(disk'[id], n + 1)
               \/ id = thread /\ disk'[id] = a
        BY <1>5, <2>4
      <4>2. QED
        BY <1>1, <1>2, <1>5, <2>1, <2>2, <2>4, <3>2, <4>1 DEF InFlight
    <3>3. QED
      BY <2>3, <3>1, <3>2
  <2>8. Fresh'
    BY <1>1, <2>4 DEF ChatInv, Fresh, n
  <2>9. QED
    BY <2>6, <2>7, <2>8 DEF ChatInv
<1>7. CASE AskAside(n + 1) \/ AskInVain(n + 1)
  <2>1. messages' = messages /\ disk' = disk /\ unsaved' = unsaved
    BY <1>7 DEF AskAside, AskInVain, diskVars
  <2>2. pending' = pending \/ pending'.remember = FALSE
    BY <1>7 DEF AskAside, AskInVain, Spawn, SpawnNothing
  <2>3. Ends' = Ends
    BY <1>1, <2>1, EndsStay
  <2>4. AllSound'
    BY <1>1, <1>5, <2>1, <2>3 DEF AllSound
  <2>5. InFlight'
    <3>1. CASE pending' = pending
      BY <1>1, <3>1 DEF InFlight, busy
    <3>2. CASE pending'.remember = FALSE
      BY <1>1, <1>2, <1>5, <2>1, <3>2 DEF InFlight
    <3>3. QED
      BY <2>2, <3>1, <3>2
  <2>6. Fresh'
    BY <1>1, <2>1 DEF ChatInv, Fresh
  <2>7. QED
    BY <2>4, <2>5, <2>6 DEF ChatInv
<1>8. QED
  BY <1>1, <1>6, <1>7 DEF Submit

(* The end of a reply: the outcome of its turn, and what it does to the     *)
(* conversation.                                                            *)
LEMMA ConcludeSound ==
    ASSUME StateOK, StateOK', ChatInv, busy, NEW v \in Outcomes, Conclude(v),
           UNCHANGED <<up, remote, thread, listing, turns>>
    PROVE  ChatInv'
<1> USE ChatAssumption
<1> DEFINE n == turns
           p == [Ends EXCEPT ![n] = v]
<1>1. /\ n \in 1..MaxTurns /\ pending.turn = n /\ thread \in Threads
      /\ Ends[n] = "none" /\ Ends \in [1..MaxTurns -> Outcomes] /\ n \notin unsaved
      /\ DOMAIN disk = Threads /\ ~busy' /\ pending.remember \in BOOLEAN
  <2>1. turns \in 0..MaxTurns /\ turns >= 1 /\ pending.turn = n /\ thread \in Threads
        /\ DOMAIN disk = Threads /\ pending.remember \in BOOLEAN
    BY DEF StateOK, TypeOK
  <2>2. ~busy'
    BY IdleTypes DEF Conclude
  <2>3. outcome[n] = "none" /\ n \notin unsaved
    BY DEF ChatInv, InFlight
  <2>4. QED
    BY <2>1, <2>2, <2>3, EndsTypes
<1>2. /\ outcome' = [outcome EXCEPT ![n] = v]
      /\ turns' = n /\ listing' = listing /\ thread' = thread
  BY <1>1 DEF Conclude
<1>3. \A t \in 1..MaxTurns : t # n => kept'[t] = kept[t]
  BY <1>1 DEF Conclude, StateOK, TypeOK
<1>4. unsaved' \subseteq unsaved \cup {n}
  <2>1. unsaved' = unsaved \/ \E s : Persist(s, {n})
    BY <1>1 DEF Conclude, FinishReply, RollBack, Keep, diskVars
  <2>2. QED
    BY <2>1, Persisted DEF Written
<1>5. Fresh'
  BY <1>1, <1>2, <1>3, <1>4 DEF ChatInv, Fresh, StateOK, TypeOK
<1>6. InFlight'
  BY <1>1 DEF InFlight
<1>7. /\ Sound(messages, n, Ends)
      /\ \A id \in Threads : disk[id] = Torn \/ Sound(disk[id], n, Ends)
      /\ \A id \in DOMAIN listing : Sound(listing[id], n, Ends)
  BY DEF ChatInv, AllSound
<1>8. AllSound'
  <2>1. CASE v = "done" /\ pending.remember
    <3> DEFINE a == Append(messages, Assistant(n))
    <3>1. /\ \A id \in Threads : disk[id] = Torn \/ Sound(disk[id], n, p)
          /\ \A id \in DOMAIN listing : Sound(listing[id], n, p)
      BY <1>1, <1>7, <2>1, NotWithdrawn
    <3>2. messages # << >> /\ messages[Len(messages)] = User(n)
      BY <2>1 DEF ChatInv, InFlight
    <3>3. Sound(a, n, p) /\ a # << >>
      BY <1>1, <1>7, <2>1, <3>2, Completed
    <3>4. messages' = a /\ Persist(a, {n})
      BY <1>1, <2>1 DEF Conclude, FinishReply
    <3> HIDE DEF a
    <3>5. /\ \A id \in Threads : disk'[id] = disk[id] \/ disk'[id] = Torn \/ disk'[id] = a
          /\ unsaved' = unsaved \cup {n} \/ unsaved' = {t \in unsaved : ~Holds(a, t)}
      BY <3>3, <3>4, Persisted DEF Written
    <3>6. Ends' = p
      <4>1. CASE unsaved' = unsaved \cup {n}
        BY <1>1, <1>2, <2>1, <4>1, EndsAfter
      <4>2. CASE unsaved' = {t \in unsaved : ~Holds(a, t)}
        <5>1. /\ \A t \in unsaved' : t \in unsaved
              /\ \A t \in unsaved : t \notin unsaved' => Holds(a, t)
          BY <4>2
        <5>2. QED
          BY <1>1, <1>2, <3>3, <5>1, EndsAfter
      <4>3. QED
        BY <3>5, <4>1, <4>2
    <3> HIDE DEF p, n
    <3>7. QED
      BY <1>2, <3>1, <3>3, <3>4, <3>5, <3>6 DEF AllSound
  <2>2. CASE v = "withdrawn" /\ pending.remember
    <3> DEFINE f == Front(messages)
               q == [Ends EXCEPT ![n] = "unanswered"]
    <3>1. /\ messages # << >> /\ messages[Len(messages)] = User(n)
          /\ \A id \in Threads :
                ~Occurs(disk[id], n) \/ (id = thread /\ disk[id] = messages)
          /\ \A id \in DOMAIN listing : ~Occurs(listing[id], n)
      BY <2>2 DEF ChatInv, InFlight
    <3>2. /\ Sound(f, n, p) /\ (f = << >> => Sound(messages, n, p))
          /\ Sound(f, n, q)
      BY <1>1, <1>7, <3>1, RolledBack
    <3>3. /\ \A id \in Threads :
                disk[id] = Torn \/ Sound(disk[id], n, p) \/ (id = thread /\ disk[id] = messages)
          /\ \A id \in DOMAIN listing : Sound(listing[id], n, p)
      BY <1>1, <1>7, <3>1, OfOthers
    <3>4. /\ \A id \in Threads : disk[id] = Torn \/ Sound(disk[id], n, q)
          /\ \A id \in DOMAIN listing : Sound(listing[id], n, q)
      BY <1>1, <1>7, NotWithdrawn
    <3>5. messages' = f /\ Persist(f, {n})
      BY <1>1, <2>2 DEF Conclude, RollBack
    <3> HIDE DEF f
    <3>6. CASE f = << >>
      <4>1. disk' = disk /\ unsaved' = unsaved
        BY <3>5, <3>6, Persisted
      <4>2. Ends' = p
        BY <1>1, <1>2, <4>1, EndsAfter
      <4> HIDE DEF p, q, n
      <4>3. QED
        BY <1>2, <3>2, <3>3, <3>5, <3>6, <4>1, <4>2 DEF AllSound
    <3>7. CASE Written(f) /\ disk'[thread] = f
      <4>1. Ends' = p
        <5>1. /\ \A t \in unsaved' : t \in unsaved
              /\ \A t \in unsaved : t \notin unsaved' => Holds(f, t)
          BY <3>7 DEF Written
        <5>2. QED
          BY <1>1, <1>2, <3>2, <5>1, EndsAfter
      <4>2. \A id \in Threads : id # thread => disk'[id] = disk[id]
        BY <3>5, Persisted
      <4> HIDE DEF p, q, n
      <4>3. QED
        BY <1>2, <3>2, <3>3, <3>5, <3>7, <4>1, <4>2 DEF AllSound
    <3>8. CASE unsaved' = unsaved \cup {n} /\ (disk' = disk \/ disk' = [disk EXCEPT ![thread] = Torn])
      <4>1. Ends' = q
        BY <1>1, <1>2, <2>2, <3>8, EndsAfter
      <4>2. \A id \in Threads : disk'[id] = disk[id] \/ disk'[id] = Torn
        BY <1>1, <3>8
      <4> HIDE DEF p, q, n
      <4>3. QED
        BY <1>2, <3>2, <3>4, <3>5, <4>1, <4>2 DEF AllSound
    <3>9. QED
      BY <3>5, <3>6, <3>7, <3>8, Persisted
  <2>3. CASE v \notin {"done", "withdrawn"} \/ ~pending.remember
    <3>1. messages' = messages /\ disk' = disk /\ unsaved' = unsaved
      BY <2>3 DEF Conclude, FinishReply, RollBack, Keep, diskVars
    <3>2. Ends' = p
      BY <1>1, <1>2, <3>1, EndsAfter
    <3>3. /\ Sound(messages, n, p)
          /\ \A id \in Threads : disk[id] = Torn \/ Sound(disk[id], n, p)
          /\ \A id \in DOMAIN listing : Sound(listing[id], n, p)
      <4>1. CASE v # "withdrawn"
        BY <1>1, <1>7, <4>1, NotWithdrawn
      <4>2. CASE ~pending.remember
        <5>1. /\ ~Occurs(messages, n) /\ \A id \in Threads : ~Occurs(disk[id], n)
              /\ \A id \in DOMAIN listing : ~Occurs(listing[id], n)
          BY <4>2 DEF ChatInv, InFlight
        <5>2. QED
          BY <1>1, <1>7, <5>1, OfOthers
      <4>3. QED
        BY <2>3, <4>1, <4>2
    <3> HIDE DEF p, n
    <3>4. QED
      BY <1>2, <3>1, <3>2, <3>3 DEF AllSound
  <2>4. QED
    BY <1>1, <2>1, <2>2, <2>3
<1>9. QED
  BY <1>5, <1>6, <1>8 DEF ChatInv

LEMMA ChatInvariant == Spec => []ChatInv
<1> USE ChatAssumption
<1>1. Init => ChatInv
  <2> SUFFICES ASSUME Init PROVE ChatInv
    OBVIOUS
  <2>1. /\ messages = << >> /\ \A id \in Threads : disk[id] = << >>
        /\ DOMAIN listing = {} /\ ~busy /\ unsaved = {}
    BY DEF Init, NoFile, busy
  <2>2. AllSound
    BY <2>1, EmptyIsSound DEF AllSound
  <2>3. Fresh
    BY <2>1 DEF Init, Fresh
  <2>4. QED
    BY <2>1, <2>2, <2>3 DEF ChatInv, InFlight
<1>2. StateOK /\ StateOK' /\ ChatInv /\ [Next]_vars => ChatInv'
  <2> SUFFICES ASSUME StateOK, StateOK', ChatInv, [Next]_vars PROVE ChatInv'
    OBVIOUS
  <2>1. ASSUME UNCHANGED <<messages, thread, listing, diskVars, pending, turns, outcome, kept>>
        PROVE  ChatInv'
    <3>1. Ends' = Ends /\ UNCHANGED <<disk, unsaved>>
      BY <2>1 DEF Ends, diskVars
    <3>2. QED
      BY <2>1, <3>1 DEF ChatInv, AllSound, Fresh, InFlight, busy
  <2>2. Fresh /\ AllSound
    BY DEF ChatInv
  <2>3. ASSUME UNCHANGED <<unsaved, outcome>> PROVE Ends' = Ends /\ unsaved' \subseteq unsaved
    BY <2>3 DEF Ends
  <2>4. CASE Start
    <3>1. ~busy
      BY <2>4 DEF Start, StateOK, ChatInv
    <3>2. /\ ~busy' /\ messages' = << >> /\ DOMAIN listing' = {} /\ disk' = disk
          /\ UNCHANGED <<turns, outcome, kept, unsaved>>
      BY <2>4, <3>1 DEF Start, historyVars, diskVars, busy
    <3>3. QED
      BY <2>2, <2>3, <3>2, EmptyIsSound, AtRestSound DEF AllSound
  <2>5. CASE Quit \/ KillInSave
    <3>1. /\ ~busy' /\ UNCHANGED <<turns, outcome, kept, unsaved>>
          /\ messages' = << >> /\ DOMAIN listing' = {}
          /\ disk' = disk \/ disk' = [disk EXCEPT ![thread] = Torn]
      BY <2>5 DEF Quit, KillInSave, Gone, historyVars, busy
    <3>2. \A id \in Threads : disk'[id] = Torn \/ disk'[id] = disk[id]
      BY <3>1 DEF StateOK
    <3>3. QED
      BY <2>2, <2>3, <3>1, <3>2, EmptyIsSound, AtRestSound DEF AllSound
  <2>6. CASE Submit
    BY <2>6, SubmitSound
  <2>7. CASE New
    <3>1. /\ ~busy' /\ Persist(messages, {}) /\ messages' = << >> /\ listing' = listing
          /\ UNCHANGED <<turns, outcome, kept>>
      BY <2>7 DEF New, Composing, historyVars, busy
    <3>2. QED
      BY <2>2, <3>1, EmptyIsSound, PersistSound, AtRestSound DEF AllSound
  <2>8. \A id \in DOMAIN Listed : Sound(Listed[id], turns, Ends)
    BY <2>2 DEF AllSound, Listed
  <2>9. CASE List
    <3>1. /\ ~busy' /\ listing' = Listed
          /\ UNCHANGED <<turns, outcome, kept, messages, disk, unsaved>>
      BY <2>9 DEF List, Composing, historyVars, diskVars, busy
    <3>2. QED
      BY <2>2, <2>3, <2>8, <3>1, AtRestSound DEF AllSound
  <2>10. CASE Open
    <3> DEFINE entries == IF DOMAIN listing = {} THEN Listed ELSE listing
    <3>1. /\ ~busy' /\ Persist(messages, {}) /\ listing' = entries
          /\ \E id \in DOMAIN entries : messages' = entries[id]
          /\ UNCHANGED <<turns, outcome, kept>>
      BY <2>10 DEF Open, Composing, historyVars, busy
    <3>2. \A id \in DOMAIN entries : Sound(entries[id], turns, Ends)
      BY <2>2, <2>8 DEF AllSound
    <3> HIDE DEF entries
    <3>3. QED
      BY <2>2, <3>1, <3>2, PersistSound, AtRestSound
  <2>11. CASE Cancel
    BY <2>1, <2>11 DEF Cancel, loopVars, historyVars
  <2>12. CASE Worker
    <3>1. WorkerOnly
      BY <2>12 DEF Worker, StreamItem, StreamEnds, WholeReply, RemoteReply, WorkerDies,
                   SendLast
    <3>2. QED
      BY <2>1, <3>1 DEF WorkerOnly, loopVars, historyVars
  <2>13. CASE Poll
    <3>1. CASE Delta
      BY <2>1, <2>13, <3>1 DEF Poll, Delta
    <3>2. CASE Conclude(Verdict(Head(channel)))
      <4>1. Verdict(Head(channel)) \in Outcomes
        BY DEF Verdict, Outcomes
      <4>2. QED
        BY <2>13, <3>2, <4>1, ConcludeSound DEF Poll
    <3>3. QED
      BY <2>13, <3>1, <3>2 DEF Poll
  <2>14. CASE Disconnected
    <3>1. Conclude("unanswered")
      BY <2>14 DEF Disconnected, Conclude, Keep, loopVars, diskVars
    <3>2. busy /\ "unanswered" \in Outcomes /\ UNCHANGED <<up, remote, thread, listing, turns>>
      BY <2>14 DEF Disconnected, Outcomes, loopVars
    <3>3. QED
      BY <3>1, <3>2, ConcludeSound
  <2>15. CASE AtRest \/ UNCHANGED vars
    BY <2>1, <2>15 DEF AtRest, vars
  <2>16. QED
    BY <2>4, <2>5, <2>6, <2>7, <2>9, <2>10, <2>11, <2>12, <2>13, <2>14, <2>15
       DEF Next, Loop
<1>3. QED
  BY <1>1, <1>2, StateInvariant, PTL DEF Spec

-----------------------------------------------------------------------------
(* Answers that were kept.                                                  *)

LEMMA TornIsNone == Torn \notin Conversations
<1> SUFFICES ASSUME Torn \in Conversations PROVE FALSE
  OBVIOUS
<1>1. 1 \in DOMAIN Torn /\ Torn[1].role = "torn"
  BY DEF Torn
<1>2. QED
  BY <1>1, MessagesOf

(* An empty conversation and a torn file hold no answer.                    *)
LEMMA HoldsNothing == \A t : ~Holds(<< >>, t) /\ ~Holds(Torn, t)
BY DEF Holds, Torn, Assistant

(* A message behind a conversation adds at most itself to what it holds ... *)
LEMMA AppendHolds ==
    ASSUME NEW s \in Conversations, NEW m \in Message
    PROVE  \A t : Holds(Append(s, m), t) <=> Holds(s, t) \/ m = Assistant(t)
<1> DEFINE a == Append(s, m)
<1>1. s \in Seq(Message)
  BY DEF Conversations, Message
<1>2. /\ Len(s) \in Nat /\ DOMAIN s = 1..Len(s) /\ DOMAIN a = 1..(Len(s) + 1)
      /\ a[Len(s) + 1] = m /\ \A i \in 1..Len(s) : a[i] = s[i]
  BY <1>1, AppendProperties, LenProperties
<1> HIDE DEF a
<1>3. \A i \in DOMAIN a : (i \in DOMAIN s /\ a[i] = s[i]) \/ (i = Len(s) + 1 /\ a[i] = m)
  BY <1>2
<1>4. Len(s) + 1 \in DOMAIN a /\ \A i \in DOMAIN s : i \in DOMAIN a
  BY <1>2
<1>5. \A t : Holds(a, t) <=> Holds(s, t) \/ m = Assistant(t)
  BY <1>2, <1>3, <1>4 DEF Holds
<1>6. QED
  BY <1>5 DEF a

(* ... and one that was cut holds nothing new.                              *)
LEMMA FrontHolds ==
    ASSUME NEW s \in Conversations, s # << >>
    PROVE  \A t : Holds(Front(s), t) => Holds(s, t)
<1> DEFINE f == Front(s)
<1>1. s \in Seq(Message) /\ Len(s) \in Nat /\ DOMAIN s = 1..Len(s)
  BY LenProperties DEF Conversations, Message
<1>2. Len(s) >= 1
  BY <1>1, EmptySeq
<1>3. /\ f \in Seq(Message) /\ Len(f) = Len(s) - 1
      /\ \A i \in 1..(Len(s) - 1) : f[i] = s[i]
  BY <1>1, <1>2, SubSeqProperties DEF Front
<1>4. DOMAIN f = 1..(Len(s) - 1)
  BY <1>3, LenProperties
<1> HIDE DEF f
<1>5. \A t : Holds(f, t) => Holds(s, t)
  BY <1>1, <1>3, <1>4 DEF Holds
<1>6. QED
  BY <1>5 DEF f

(* A save brings no answer into a strange file: k tells where each belongs. *)
LEMMA SavedAtHome ==
    ASSUME StateOK, NEW s, NEW e, Persist(s, e), thread <= drawn, NEW k,
           \A t \in 1..MaxTurns : Holds(s, t) => k[t] = thread,
           \A t \in 1..MaxTurns : \A id \in Threads : Holds(disk[id], t) => k[t] = id,
           \A id \in Threads : disk[id] # NoFile => id <= drawn
    PROVE  /\ \A t \in 1..MaxTurns : \A id \in Threads : Holds(disk'[id], t) => k[t] = id
           /\ \A id \in Threads : disk'[id] # NoFile => id <= drawn
<1>1. \A id \in Threads :
         \/ disk'[id] = disk[id]
         \/ id = thread /\ (disk'[id] = s \/ disk'[id] = Torn)
  BY Persisted
<1>2. QED
  BY <1>1, HoldsNothing

LEMMA HomeInvariant == Spec => []AtHome
<1> USE ChatAssumption
<1>1. Init => AtHome
  <2> SUFFICES ASSUME Init PROVE AtHome
    OBVIOUS
  <2>1. /\ ~up /\ messages = << >> /\ drawn = 0 /\ DOMAIN listing = {}
        /\ \A t \in 1..MaxTurns : kept[t] = 0
        /\ \A id \in Threads : disk[id] = << >>
    BY DEF Init, NoFile, Nowhere
  <2>2. QED
    BY <2>1, HoldsNothing DEF AtHome, NoFile
<1>2. StateOK /\ StateOK' /\ ChatInv /\ AtHome /\ [Next]_vars => AtHome'
  <2> SUFFICES ASSUME StateOK, StateOK', ChatInv, AtHome, [Next]_vars PROVE AtHome'
    OBVIOUS
  <2>0. /\ drawn \in Nat /\ thread \in Threads /\ messages \in Conversations
        /\ kept \in [1..MaxTurns -> Threads \cup {Nowhere}]
        /\ \A id \in Threads : id \in Nat /\ id # Nowhere
        /\ \A t \in 1..MaxTurns : kept[t] \in Nat
        /\ DOMAIN listing \subseteq Threads
    <3>1. /\ drawn \in Nat /\ thread \in Threads /\ messages \in Conversations
          /\ kept \in [1..MaxTurns -> Threads \cup {Nowhere}]
          /\ DOMAIN listing \subseteq Threads
      BY DEF StateOK, TypeOK
    <3>2. \A id \in Threads : id \in Nat /\ id # Nowhere
      BY DEF Threads, Nowhere
    <3>3. \A t \in 1..MaxTurns : kept[t] \in Nat
      BY <3>1, <3>2 DEF Nowhere
    <3>4. QED
      BY <3>1, <3>2, <3>3
  <2>1. ASSUME UNCHANGED <<up, messages, thread, listing, disk, drawn, kept>>
        PROVE  AtHome'
    BY <2>1 DEF AtHome
  <2>2. ASSUME NewThread
        PROVE  thread' = drawn + 1 /\ drawn' = drawn + 1
    BY <2>2 DEF NewThread
  <2>3. CASE Start
    <3>1. /\ messages' = << >> /\ DOMAIN listing' = {} /\ disk' = disk /\ kept' = kept
          /\ thread' = drawn + 1 /\ drawn' = drawn + 1
      BY <2>2, <2>3 DEF Start, historyVars, diskVars
    <3>2. QED
      BY <2>0, <3>1, HoldsNothing DEF AtHome
  <2>4. CASE Quit \/ KillInSave
    <3>1. /\ up /\ ~up' /\ messages' = << >> /\ DOMAIN listing' = {}
          /\ drawn' = drawn /\ kept' = kept
          /\ disk' = disk \/ disk' = [disk EXCEPT ![thread] = Torn]
      BY <2>4 DEF Quit, KillInSave, Gone, historyVars
    <3>2. \A id \in Threads : disk'[id] = disk[id] \/ (id = thread /\ disk'[id] = Torn)
      BY <3>1 DEF StateOK
    <3>3. QED
      BY <2>0, <3>1, <3>2, HoldsNothing DEF AtHome
  <2>5. CASE Submit
    <3>1. /\ up /\ up' = up /\ thread' = thread /\ drawn' = drawn /\ kept' = kept
          /\ listing' = listing
      BY <2>5 DEF Submit, Composing
    <3>2. CASE Ask(turns + 1)
      <4> DEFINE m == User(turns + 1)
      <4>1. messages' = Append(messages, m) /\ Persist(messages', {})
        BY <3>2 DEF Ask
      <4>2. m \in Message /\ \A t : m # Assistant(t)
        BY <2>5 DEF Submit, User, Assistant, Message, StateOK, TypeOK
      <4>3. \A t : Holds(messages', t) <=> Holds(messages, t)
        BY <2>0, <4>1, <4>2, AppendHolds
      <4> HIDE DEF m
      <4>4. /\ \A t \in 1..MaxTurns : \A id \in Threads : Holds(disk'[id], t) => kept[t] = id
            /\ \A id \in Threads : disk'[id] # NoFile => id <= drawn
        BY <3>1, <4>1, <4>3, SavedAtHome DEF AtHome
      <4>5. QED
        BY <3>1, <4>3, <4>4 DEF AtHome
    <3>3. CASE AskAside(turns + 1) \/ AskInVain(turns + 1)
      <4>1. messages' = messages /\ disk' = disk
        BY <3>3 DEF AskAside, AskInVain, diskVars
      <4>2. QED
        BY <2>1, <3>1, <4>1
    <3>4. QED
      BY <2>5, <3>2, <3>3 DEF Submit
  <2>6. ASSUME Composing, Persist(messages, {})
        PROVE  /\ \A t \in 1..MaxTurns : \A id \in Threads : Holds(disk'[id], t) => kept[t] = id
               /\ \A id \in Threads : disk'[id] # NoFile => id <= drawn
    BY <2>6, SavedAtHome DEF AtHome, Composing
  <2>7. CASE New
    <3>1. /\ Composing /\ Persist(messages, {}) /\ messages' = << >> /\ listing' = listing
          /\ kept' = kept /\ thread' = drawn + 1 /\ drawn' = drawn + 1
      BY <2>2, <2>7 DEF New, historyVars
    <3>2. QED
      BY <2>0, <2>6, <3>1, HoldsNothing DEF AtHome
  <2>8. /\ \A id \in DOMAIN Listed : id \in Threads /\ Listed[id] = disk[id] /\ disk[id] # NoFile
    BY DEF Listed
  <2>9. CASE List
    <3>1. UNCHANGED <<up, messages, thread, disk, drawn, kept>> /\ listing' = Listed
      BY <2>9 DEF List, historyVars, diskVars
    <3>2. QED
      BY <2>8, <3>1 DEF AtHome
  <2>10. CASE Open
    <3> DEFINE entries == IF DOMAIN listing = {} THEN Listed ELSE listing
    <3>1. /\ Composing /\ Persist(messages, {}) /\ listing' = entries
          /\ up' = up /\ drawn' = drawn /\ kept' = kept
          /\ \E id \in DOMAIN entries : thread' = id /\ messages' = entries[id]
      BY <2>10 DEF Open, historyVars
    <3>2. \A id \in DOMAIN entries :
             id <= drawn /\ \A t \in 1..MaxTurns : Holds(entries[id], t) => kept[t] = id
      BY <2>8 DEF AtHome
    <3> HIDE DEF entries
    <3>3. QED
      BY <2>6, <3>1, <3>2 DEF AtHome
  <2>11. CASE Cancel
    BY <2>1, <2>11 DEF Cancel, loopVars, diskVars, historyVars
  <2>12. CASE Worker
    <3>1. WorkerOnly
      BY <2>12 DEF Worker, StreamItem, StreamEnds, WholeReply, RemoteReply, WorkerDies,
                   SendLast
    <3>2. QED
      BY <2>1, <3>1 DEF WorkerOnly, loopVars, diskVars, historyVars
  <2>13. CASE Poll
    <3>0. up /\ busy /\ UNCHANGED <<up, remote, thread, listing, drawn, turns>>
      BY <2>13 DEF Poll
    <3>1. CASE Delta
      BY <2>1, <3>0, <3>1 DEF Delta, diskVars
    <3>2. ASSUME NEW v \in Outcomes, Conclude(v) PROVE AtHome'
      <4> DEFINE n == turns
      <4>1. /\ n \in 1..MaxTurns /\ pending.turn = n /\ kept[n] = Nowhere
            /\ pending.remember => messages # << >>
        BY <3>0 DEF StateOK, TypeOK, ChatInv, InFlight
      <4>2. CASE v = "done" /\ pending.remember
        <5> DEFINE m == Assistant(n)
        <5>1. /\ messages' = Append(messages, m) /\ Persist(messages', {n})
              /\ kept' = [kept EXCEPT ![n] = thread]
          BY <3>2, <4>1, <4>2 DEF Conclude, FinishReply
        <5>2. m \in Message /\ \A t : m = Assistant(t) => t = n
          BY <4>1 DEF Assistant, Message
        <5>3. \A t : Holds(messages', t) => Holds(messages, t) \/ t = n
          BY <2>0, <5>1, <5>2, AppendHolds
        <5> HIDE DEF m
        <5>4. /\ kept'[n] = thread /\ \A t \in 1..MaxTurns : t # n => kept'[t] = kept[t]
          BY <2>0, <4>1, <5>1
        <5>5. /\ \A t \in 1..MaxTurns : Holds(messages', t) => kept'[t] = thread
              /\ \A t \in 1..MaxTurns : \A id \in Threads : Holds(disk[id], t) => kept'[t] = id
              /\ \A t \in 1..MaxTurns : \A id \in DOMAIN listing :
                    Holds(listing[id], t) => kept'[t] = id
          BY <2>0, <4>1, <5>3, <5>4 DEF AtHome
        <5>6. /\ \A t \in 1..MaxTurns : \A id \in Threads : Holds(disk'[id], t) => kept'[t] = id
              /\ \A id \in Threads : disk'[id] # NoFile => id <= drawn
          <6>1. thread <= drawn /\ \A id \in Threads : disk[id] # NoFile => id <= drawn
            BY <3>0 DEF AtHome
          <6>2. Persist(messages', {n})
            BY <5>1
          <6> HIDE DEF n
          <6>3. QED
            BY <5>5, <6>1, <6>2, SavedAtHome
        <5>7. \A t \in 1..MaxTurns : kept'[t] <= drawn
          BY <3>0, <5>4 DEF AtHome
        <5>8. QED
          BY <3>0, <5>5, <5>6, <5>7 DEF AtHome
      <4>3. CASE v = "withdrawn" /\ pending.remember
        <5>1. /\ messages' = Front(messages) /\ Persist(messages', {n}) /\ kept' = kept
          BY <3>2, <4>1, <4>3 DEF Conclude, RollBack
        <5>2. \A t : Holds(messages', t) => Holds(messages, t)
          BY <2>0, <4>1, <4>3, <5>1, FrontHolds
        <5>3. /\ \A t \in 1..MaxTurns : \A id \in Threads : Holds(disk'[id], t) => kept[t] = id
              /\ \A id \in Threads : disk'[id] # NoFile => id <= drawn
          BY <3>0, <5>1, <5>2, SavedAtHome DEF AtHome
        <5>4. QED
          BY <3>0, <5>1, <5>2, <5>3 DEF AtHome
      <4>4. CASE v \notin {"done", "withdrawn"} \/ ~pending.remember
        <5>1. messages' = messages /\ disk' = disk /\ kept' = kept
          BY <3>2, <4>4 DEF Conclude, FinishReply, RollBack, Keep, diskVars
        <5>2. QED
          BY <2>1, <3>0, <5>1
      <4>5. QED
        BY <4>2, <4>3, <4>4
    <3>3. QED
      <4>1. Verdict(Head(channel)) \in Outcomes
        BY DEF Verdict, Outcomes
      <4>2. QED
        BY <2>13, <3>1, <3>2, <4>1 DEF Poll
  <2>14. CASE Disconnected
    BY <2>1, <2>14 DEF Disconnected, loopVars, diskVars
  <2>15. CASE AtRest \/ UNCHANGED vars
    BY <2>1, <2>15 DEF AtRest, vars, diskVars
  <2>16. QED
    BY <2>3, <2>4, <2>5, <2>7, <2>9, <2>10, <2>11, <2>12, <2>13, <2>14, <2>15
       DEF Next, Loop
<1>3. QED
  BY <1>1, <1>2, StateInvariant, ChatInvariant, PTL DEF Spec

KeepsAll == MemoryKeeps /\ NothingIsLost

(* A save of a conversation that holds all that memory has to hold loses    *)
(* nothing, whether it succeeds or not: k tells where each answer belongs,  *)
(* and all but those of e were safe before.                                 *)
LEMMA PersistKeeps ==
    ASSUME StateOK, NEW s \in Conversations, NEW e \in SUBSET (1..MaxTurns), Persist(s, e),
           NEW k, \A t \in 1..MaxTurns : k[t] \in Threads \cup {Nowhere},
           \A t \in 1..MaxTurns : Holds(s, t) => k[t] = thread,
           \A t \in 1..MaxTurns : k[t] = thread => Holds(s, t) \/ t \in unsaved,
           \A t \in 1..MaxTurns : k[t] # Nowhere /\ t \notin e =>
               disk[k[t]] = Torn \/ Holds(disk[k[t]], t) \/ t \in unsaved,
           \A t \in e : k[t] # Nowhere => k[t] = thread /\ Holds(s, t)
    PROVE  /\ \A t \in 1..MaxTurns : k[t] = thread => Holds(s, t) \/ t \in unsaved'
           /\ \A t \in 1..MaxTurns : k[t] # Nowhere =>
                 disk'[k[t]] = Torn \/ Holds(disk'[k[t]], t) \/ t \in unsaved'
<1>1. \A id \in Threads : id # thread => disk'[id] = disk[id]
  BY Persisted
<1>2. CASE s = << >> /\ disk' = disk /\ unsaved' = unsaved
  BY <1>2, HoldsNothing
<1>3. CASE Written(s) /\ disk'[thread] = s
  <2>1. unsaved' = {t \in unsaved : ~Holds(s, t)}
    BY <1>3 DEF Written
  <2>2. ASSUME NEW t \in 1..MaxTurns, k[t] # Nowhere
        PROVE  disk'[k[t]] = Torn \/ Holds(disk'[k[t]], t) \/ t \in unsaved'
    <3>1. CASE k[t] = thread
      BY <1>3, <2>1, <3>1
    <3>2. CASE k[t] # thread
      <4>1. k[t] \in Threads /\ t \notin e /\ ~Holds(s, t)
        BY <2>2, <3>2
      <4>2. disk'[k[t]] = disk[k[t]]
        BY <1>1, <3>2, <4>1
      <4>3. QED
        BY <2>1, <2>2, <4>1, <4>2
    <3>3. QED
      BY <3>1, <3>2
  <2>3. QED
    BY <2>1, <2>2
<1>4. CASE /\ unsaved' = unsaved \cup e
           /\ disk'[thread] = disk[thread] \/ disk'[thread] = Torn
  BY <1>1, <1>4
<1>5. QED
  BY <1>2, <1>3, <1>4, Persisted

(* The prompt that is saved with the conversation costs it no answer.       *)
LEMMA SubmitKeeps ==
    ASSUME StateOK, StateOK', AtHome, KeepsAll, Submit PROVE KeepsAll'
<1> DEFINE m == User(turns + 1)
           a == Append(messages, m)
<1>1. /\ messages \in Conversations /\ thread \in Threads
      /\ \A t \in 1..MaxTurns : kept[t] \in Threads \cup {Nowhere}
      /\ m \in Message /\ \A t : m # Assistant(t)
  <2>1. turns + 1 \in 1..MaxTurns
    BY ChatAssumption DEF StateOK, TypeOK, Submit
  <2>2. m \in Message /\ \A t : m # Assistant(t)
    BY <2>1 DEF Message, User, Assistant
  <2>3. /\ messages \in Conversations /\ thread \in Threads
        /\ kept \in [1..MaxTurns -> Threads \cup {Nowhere}]
    BY DEF StateOK, TypeOK
  <2>4. QED
    BY <2>2, <2>3
<1>2. up /\ kept' = kept /\ thread' = thread
  BY DEF Submit, Composing
<1>3. CASE AskAside(turns + 1) \/ AskInVain(turns + 1)
  <2>1. messages' = messages /\ disk' = disk /\ unsaved' = unsaved
    BY <1>3 DEF AskAside, AskInVain, diskVars
  <2>2. QED
    BY <1>2, <2>1 DEF KeepsAll, MemoryKeeps, NothingIsLost
<1>4. CASE Ask(turns + 1)
  <2>1. messages' = a /\ Persist(a, {})
    BY <1>4 DEF Ask
  <2>2. \A t : Holds(a, t) <=> Holds(messages, t)
    BY <1>1, AppendHolds
  <2>3. a \in Conversations
    BY <2>1 DEF StateOK, TypeOK
  <2> HIDE DEF a, m
  <2>4. \A t \in 1..MaxTurns : Holds(a, t) => kept[t] = thread
    BY <2>2 DEF AtHome
  <2>5. \A t \in 1..MaxTurns : kept[t] = thread => Holds(a, t) \/ t \in unsaved
    BY <1>1, <1>2, <2>2 DEF KeepsAll, MemoryKeeps, Threads, Nowhere
  <2>6. /\ \A t \in 1..MaxTurns : kept[t] = thread => Holds(a, t) \/ t \in unsaved'
        /\ \A t \in 1..MaxTurns : kept[t] # Nowhere =>
              disk'[kept[t]] = Torn \/ Holds(disk'[kept[t]], t) \/ t \in unsaved'
    BY <1>1, <2>1, <2>3, <2>4, <2>5, PersistKeeps DEF KeepsAll, NothingIsLost
  <2>7. QED
    BY <1>2, <2>1, <2>6 DEF KeepsAll, MemoryKeeps, NothingIsLost
<1>5. QED
  BY <1>3, <1>4 DEF Submit

(* Neither a completed reply nor a rollback costs an answer.                *)
LEMMA ConcludeKeeps ==
    ASSUME StateOK, StateOK', ChatInv, AtHome, KeepsAll, busy, up,
           NEW v \in Outcomes, Conclude(v),
           UNCHANGED <<up, remote, thread, listing, turns>>
    PROVE  KeepsAll'
<1> USE ChatAssumption
<1> DEFINE n == turns
<1>1. /\ n \in 1..MaxTurns /\ pending.turn = n /\ thread \in Threads
      /\ messages \in Conversations /\ messages' \in Conversations
      /\ kept \in [1..MaxTurns -> Threads \cup {Nowhere}]
      /\ kept[n] = Nowhere /\ thread # Nowhere
      /\ pending.remember => messages # << >> /\ messages[Len(messages)] = User(n)
  BY DEF StateOK, TypeOK, ChatInv, InFlight, Threads, Nowhere
<1>2. /\ \A t \in 1..MaxTurns : kept[t] = thread => Holds(messages, t) \/ t \in unsaved
      /\ \A t \in 1..MaxTurns : Holds(messages, t) => kept[t] = thread
      /\ \A t \in 1..MaxTurns : kept[t] # Nowhere =>
            disk[kept[t]] = Torn \/ Holds(disk[kept[t]], t) \/ t \in unsaved
  BY <1>1 DEF KeepsAll, MemoryKeeps, NothingIsLost, AtHome
<1>3. CASE v = "done" /\ pending.remember
  <2> DEFINE m == Assistant(n)
             a == Append(messages, m)
  <2>1. messages' = a /\ Persist(a, {n}) /\ kept' = [kept EXCEPT ![n] = thread]
    BY <1>1, <1>3 DEF Conclude, FinishReply
  <2>2. m \in Message /\ \A t : m = Assistant(t) <=> t = n
    BY <1>1 DEF Assistant, Message
  <2>3. \A t : Holds(a, t) <=> Holds(messages, t) \/ t = n
    BY <1>1, <2>2, AppendHolds
  <2>4. kept'[n] = thread /\ \A t \in 1..MaxTurns : t # n => kept'[t] = kept[t]
    BY <1>1, <2>1
  <2>5. a \in Conversations /\ {n} \in SUBSET (1..MaxTurns)
    BY <1>1, <2>1
  <2> HIDE DEF a, m, n
  <2>6. /\ \A t \in 1..MaxTurns : kept'[t] \in Threads \cup {Nowhere}
        /\ \A t \in 1..MaxTurns : Holds(a, t) => kept'[t] = thread
        /\ \A t \in 1..MaxTurns : kept'[t] = thread => Holds(a, t) \/ t \in unsaved
        /\ \A t \in 1..MaxTurns : kept'[t] # Nowhere /\ t \notin {n} =>
              disk[kept'[t]] = Torn \/ Holds(disk[kept'[t]], t) \/ t \in unsaved
        /\ \A t \in {n} : kept'[t] # Nowhere => kept'[t] = thread /\ Holds(a, t)
    BY <1>1, <1>2, <2>3, <2>4
  <2>7. /\ \A t \in 1..MaxTurns : kept'[t] = thread => Holds(a, t) \/ t \in unsaved'
        /\ \A t \in 1..MaxTurns : kept'[t] # Nowhere =>
              disk'[kept'[t]] = Torn \/ Holds(disk'[kept'[t]], t) \/ t \in unsaved'
    <3>1. Persist(a, {n})
      BY <2>1
    <3> DEFINE k == kept'
    <3>2. /\ \A t \in 1..MaxTurns : k[t] \in Threads \cup {Nowhere}
          /\ \A t \in 1..MaxTurns : Holds(a, t) => k[t] = thread
          /\ \A t \in 1..MaxTurns : k[t] = thread => Holds(a, t) \/ t \in unsaved
          /\ \A t \in 1..MaxTurns : k[t] # Nowhere /\ t \notin {n} =>
                disk[k[t]] = Torn \/ Holds(disk[k[t]], t) \/ t \in unsaved
          /\ \A t \in {n} : k[t] # Nowhere => k[t] = thread /\ Holds(a, t)
      BY <2>6
    <3> HIDE DEF k
    <3>3. /\ \A t \in 1..MaxTurns : k[t] = thread => Holds(a, t) \/ t \in unsaved'
          /\ \A t \in 1..MaxTurns : k[t] # Nowhere =>
                disk'[k[t]] = Torn \/ Holds(disk'[k[t]], t) \/ t \in unsaved'
      BY <2>5, <3>1, <3>2, PersistKeeps
    <3>4. QED
      BY <3>3 DEF k
  <2>8. QED
    BY <2>1, <2>7 DEF KeepsAll, MemoryKeeps, NothingIsLost
<1>4. CASE v = "withdrawn" /\ pending.remember
  <2> DEFINE f == Front(messages)
  <2>1. messages' = f /\ Persist(f, {n}) /\ kept' = kept
    BY <1>1, <1>4 DEF Conclude, RollBack
  <2>2. \A t : Holds(messages, t) <=> Holds(f, t)
    <3>1. \A t : Holds(f, t) => Holds(messages, t)
      BY <1>1, <1>4, FrontHolds
    <3>2. outcome[n] = "none" /\ Sound(messages, n, Ends)
      BY DEF ChatInv, InFlight, AllSound
    <3>3. Ends[n] = "none" /\ Ends \in [1..MaxTurns -> Outcomes]
      BY <1>1, <3>2, EndsTypes
    <3>4. \A t : Holds(messages, t) => Holds(f, t)
      BY <1>1, <1>4, <3>2, <3>3, RolledBack
    <3>5. QED
      BY <3>1, <3>4
  <2>3. f \in Conversations /\ {n} \in SUBSET (1..MaxTurns)
    BY <1>1, <2>1
  <2> HIDE DEF f, n
  <2>4. /\ \A t \in 1..MaxTurns : kept[t] = thread => Holds(f, t) \/ t \in unsaved'
        /\ \A t \in 1..MaxTurns : kept[t] # Nowhere =>
              disk'[kept[t]] = Torn \/ Holds(disk'[kept[t]], t) \/ t \in unsaved'
    <3>1. /\ \A t \in 1..MaxTurns : kept[t] \in Threads \cup {Nowhere}
          /\ \A t \in 1..MaxTurns : Holds(f, t) => kept[t] = thread
          /\ \A t \in 1..MaxTurns : kept[t] = thread => Holds(f, t) \/ t \in unsaved
          /\ \A t \in {n} : kept[t] # Nowhere => kept[t] = thread /\ Holds(f, t)
      BY <1>1, <1>2, <2>2
    <3>2. QED
      BY <1>2, <2>1, <2>3, <3>1, PersistKeeps
  <2>5. QED
    BY <2>1, <2>4 DEF KeepsAll, MemoryKeeps, NothingIsLost
<1>5. CASE v \notin {"done", "withdrawn"} \/ ~pending.remember
  <2>1. messages' = messages /\ disk' = disk /\ unsaved' = unsaved /\ kept' = kept
    BY <1>5 DEF Conclude, FinishReply, RollBack, Keep, diskVars
  <2>2. QED
    BY <2>1 DEF KeepsAll, MemoryKeeps, NothingIsLost
<1>6. QED
  BY <1>3, <1>4, <1>5

(* Saving what is in memory loses nothing.                                  *)
LEMMA SwitchKeeps ==
    ASSUME StateOK, AtHome, KeepsAll, up, Persist(messages, {}), kept' = kept
    PROVE  NothingIsLost'
<1>1. /\ messages \in Conversations /\ thread \in Threads /\ thread # Nowhere
      /\ \A t \in 1..MaxTurns : kept[t] \in Threads \cup {Nowhere}
  BY ChatAssumption DEF StateOK, TypeOK, Threads, Nowhere
<1>2. /\ \A t \in 1..MaxTurns : kept[t] = thread => Holds(messages, t) \/ t \in unsaved
      /\ \A t \in 1..MaxTurns : Holds(messages, t) => kept[t] = thread
  BY <1>1 DEF KeepsAll, MemoryKeeps, AtHome
<1>3. \A t \in 1..MaxTurns : kept[t] # Nowhere =>
         disk'[kept[t]] = Torn \/ Holds(disk'[kept[t]], t) \/ t \in unsaved'
  BY <1>1, <1>2, PersistKeeps DEF KeepsAll, NothingIsLost
<1>4. QED
  BY <1>3 DEF NothingIsLost

(* What is opened is what its file holds, if it has not changed since it    *)
(* was listed.                                                              *)
LEMMA OpenKeeps ==
    ASSUME ~MayOpenStale, StateOK, AtHome, KeepsAll, Open PROVE KeepsAll'
<1> DEFINE entries == IF DOMAIN listing = {} THEN Listed ELSE listing
<1>1. /\ up /\ up' = up /\ kept' = kept /\ Persist(messages, {})
      /\ \E id \in DOMAIN entries :
            entries[id] = disk'[id] /\ thread' = id /\ messages' = entries[id]
  BY DEF Open, Composing, historyVars
<1>2. \A id \in DOMAIN entries : entries[id] \in Conversations
  BY DEF StateOK, TypeOK, Listed, NoFile
<1> HIDE DEF entries
<1>3. disk'[thread'] = messages' /\ messages' # Torn
  BY <1>1, <1>2, TornIsNone
<1>4. NothingIsLost'
  BY <1>1, SwitchKeeps
<1>5. MemoryKeeps'
  BY <1>3, <1>4 DEF MemoryKeeps, NothingIsLost
<1>6. QED
  BY <1>4, <1>5 DEF KeepsAll

(* A thread that is new keeps no answer.                                    *)
LEMMA NewKeepsNothing ==
    ASSUME StateOK, AtHome, NewThread
    PROVE  \A t \in 1..MaxTurns : kept[t] # thread'
BY ChatAssumption DEF StateOK, TypeOK, AtHome, NewThread, Threads, Nowhere

LEMMA KeepsAllInvariant == ASSUME ~MayOpenStale PROVE Spec => []KeepsAll
<1> USE ChatAssumption
<1>1. Init => KeepsAll
  BY DEF Init, KeepsAll, MemoryKeeps, NothingIsLost
<1>2. StateOK /\ StateOK' /\ ChatInv /\ AtHome /\ KeepsAll /\ [Next]_vars => KeepsAll'
  <2> SUFFICES ASSUME StateOK, StateOK', ChatInv, AtHome, KeepsAll, [Next]_vars
               PROVE  KeepsAll'
    OBVIOUS
  <2>1. ASSUME UNCHANGED <<up, messages, thread, diskVars, kept>>
        PROVE  KeepsAll'
    BY <2>1 DEF KeepsAll, MemoryKeeps, NothingIsLost, diskVars
  <2>2. CASE Start
    <3>1. NewThread /\ disk' = disk /\ unsaved' = unsaved /\ kept' = kept
      BY <2>2 DEF Start, historyVars, diskVars
    <3>2. QED
      BY <3>1, NewKeepsNothing DEF KeepsAll, MemoryKeeps, NothingIsLost
  <2>3. CASE Quit \/ KillInSave
    <3>1. /\ ~up' /\ kept' = kept /\ unsaved' = unsaved
          /\ disk' = disk \/ disk' = [disk EXCEPT ![thread] = Torn]
      BY <2>3 DEF Quit, KillInSave, Gone, historyVars
    <3>2. \A id : disk'[id] = disk[id] \/ disk'[id] = Torn \/ id \notin Threads
      BY <3>1 DEF StateOK
    <3>3. \A t \in 1..MaxTurns : kept[t] # Nowhere => kept[t] \in Threads
      BY DEF StateOK, TypeOK
    <3>4. QED
      BY <3>1, <3>2, <3>3 DEF KeepsAll, MemoryKeeps, NothingIsLost
  <2>4. CASE Submit
    BY <2>4, SubmitKeeps
  <2>5. CASE New
    <3>1. /\ up /\ Persist(messages, {}) /\ NewThread /\ kept' = kept
      BY <2>5 DEF New, Composing, historyVars
    <3>2. NothingIsLost'
      BY <3>1, SwitchKeeps
    <3>3. QED
      BY <3>1, <3>2, NewKeepsNothing DEF KeepsAll, MemoryKeeps
  <2>6. CASE List
    BY <2>1, <2>6 DEF List, historyVars
  <2>7. CASE Open
    BY <2>7, OpenKeeps
  <2>8. CASE Cancel
    BY <2>1, <2>8 DEF Cancel, loopVars, historyVars
  <2>9. CASE Worker
    <3>1. WorkerOnly
      BY <2>9 DEF Worker, StreamItem, StreamEnds, WholeReply, RemoteReply, WorkerDies,
                  SendLast
    <3>2. QED
      BY <2>1, <3>1 DEF WorkerOnly, loopVars, historyVars
  <2>10. CASE Poll
    <3>1. CASE Delta
      BY <2>1, <2>10, <3>1 DEF Poll, Delta
    <3>2. CASE Conclude(Verdict(Head(channel)))
      <4>1. Verdict(Head(channel)) \in Outcomes
        BY DEF Verdict, Outcomes
      <4>2. QED
        BY <2>10, <3>2, <4>1, ConcludeKeeps DEF Poll
    <3>3. QED
      BY <2>10, <3>1, <3>2 DEF Poll
  <2>11. CASE Disconnected
    BY <2>1, <2>11 DEF Disconnected, loopVars
  <2>12. CASE AtRest \/ UNCHANGED vars
    BY <2>1, <2>12 DEF AtRest, vars
  <2>13. QED
    BY <2>2, <2>3, <2>4, <2>5, <2>6, <2>7, <2>8, <2>9, <2>10, <2>11, <2>12
       DEF Next, Loop
<1>3. QED
  BY <1>1, <1>2, StateInvariant, ChatInvariant, HomeInvariant, PTL DEF Spec

-----------------------------------------------------------------------------
(* The theorems.                                                            *)

(* Types of the loop's state, the worker's and the files, for any number of *)
(* threads and prompts.                                                     *)
THEOREM TypeCorrect == Spec => []TypeOK
<1>1. StateOK => TypeOK
  BY DEF StateOK
<1>2. QED
  BY <1>1, StateInvariant, PTL

(* In every conversation, in memory or on disk, an answer stands right      *)
(* behind its own prompt and is a completed reply's, and no prompt occurs   *)
(* twice, whether saves succeed or fail (submit_prompt, finish_reply,       *)
(* rollback_user_turn, persist).                                            *)
THEOREM AnswersStandBehindPrompts == Spec => []AnswersBehindPrompts
<1>1. StateOK /\ ChatInv => AnswersBehindPrompts
  <2> SUFFICES ASSUME StateOK, ChatInv, NEW s \in Copies
               PROVE  Distinct(s) /\ Answered(s, outcome)
    BY DEF AnswersBehindPrompts, Distinct, Answered
  <2>1. Sound(s, turns, Ends)
    BY DEF ChatInv, AllSound, Copies
  <2>2. \A i \in DOMAIN s : s[i].turn \in 1..MaxTurns
    BY <2>1, MessagesOf DEF Sound
  <2>3. QED
    BY <2>1, <2>2 DEF Sound, Answered, Ends
<1>2. QED
  BY <1>1, StateInvariant, ChatInvariant, PTL

(* While a reply is in flight the conversation in memory ends with the      *)
(* prompt it answers, so rollback and finish touch no other turn.           *)
THEOREM PendingStaysLast == Spec => []PendingIsLast
<1>1. StateOK /\ ChatInv => PendingIsLast
  BY DEF StateOK, ChatInv, InFlight, PendingIsLast, Last
<1>2. QED
  BY <1>1, StateInvariant, ChatInvariant, PTL

(* A prompt that was taken back stays in no conversation but as its first   *)
(* message, as long as the save without it reached the disk: not in memory, *)
(* not in a file, and not by opening a conversation from a stale list       *)
(* (rollback_user_turn, and persist which saves no empty conversation).     *)
THEOREM WithdrawnOnlyAtFirst == Spec => []WithdrawnOnlyFirst
<1>1. ChatInv => WithdrawnOnlyFirst
  <2> SUFFICES ASSUME ChatInv, NEW s \in Copies, NEW i \in DOMAIN s,
                      outcome[s[i].turn] = "withdrawn", s[i].turn \notin unsaved
               PROVE  i = 1
    BY DEF WithdrawnOnlyFirst
  <2>1. Sound(s, turns, Ends)
    BY DEF ChatInv, AllSound, Copies
  <2>2. s[i].turn \in 1..MaxTurns
    BY <2>1, MessagesOf DEF Sound
  <2>3. Ends[s[i].turn] = "withdrawn"
    BY <2>2 DEF Ends
  <2>4. QED
    BY <2>1, <2>3 DEF Sound, Withdrawn
<1>2. QED
  BY <1>1, ChatInvariant, PTL

(* An answer that was kept stays in the file of its thread whatever the     *)
(* user does, quits, kills and failed saves included, unless a kill or a    *)
(* failed save tears that file, or the answer's own save failed and none    *)
(* that carries it has succeeded since: that is so as long as no            *)
(* conversation is opened from a list older than its file (handle_open      *)
(* reads the list, not the file).                                           *)
THEOREM NothingKeptIsLost == ASSUME ~MayOpenStale PROVE Spec => []NothingIsLost
<1>1. KeepsAll => NothingIsLost
  BY DEF KeepsAll
<1>2. QED
  BY <1>1, KeepsAllInvariant, PTL
=============================================================================
