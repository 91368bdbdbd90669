---------------------------- MODULE ChatTerminal ----------------------------
(***************************************************************************)
(* The interactive chat (App in app.rs): an event loop that owns the        *)
(* conversation, one worker thread per reply that talks to it through a     *)
(* channel and listens to a cancel flag, and the conversations on disk.     *)
(*                                                                         *)
(* The loop drains the channel and handles keys one after the other; the    *)
(* composer is disabled while a reply is in flight.  Any save may fail, and *)
(* nobody is told.  A turn is a number, a message its role and its turn;    *)
(* the texts, the transcript on screen and the settings of the routing are  *)
(* left out.                                                                *)
(***************************************************************************)
EXTENDS Integers, Sequences, SequencesExt

CONSTANTS
    MaxThreads,    \* bound: ids drawn in a behaviour
    MaxTurns,      \* bound: prompts of a behaviour
    MaxDeltas,     \* bound: deltas of a streamed reply
    SavesFail,     \* may a save fail?
    MayOpenStale   \* may the user open a conversation that has changed
                   \* since it was listed?

ASSUME ChatAssumption ==
    /\ MaxThreads \in Nat \ {0}
    /\ MaxTurns \in Nat
    /\ MaxDeltas \in Nat
    /\ SavesFail \in BOOLEAN
    /\ MayOpenStale \in BOOLEAN

VARIABLES
    up,        \* the process runs
    remote,    \* base_url is given: the gateway decides and replies
    messages,  \* the conversation, as it is sent with the next prompt
    thread,    \* the id it is saved under
    listing,   \* thread_list: the conversations as /threads last saw them
    pending,   \* the reply in flight; busy is pending # None
    cancel,    \* the worker's cancel flag
    channel,   \* events of the worker that the loop has not seen
    job,       \* what the worker thread does, "none" when it has ended
    deltas,    \* deltas of this reply
    disk,      \* what the file of each thread holds
    drawn,     \* ids that new_thread has drawn so far
    turns,     \* history: prompts submitted so far
    outcome,   \* history: how each turn ended
    kept,      \* history: the thread that each kept answer belongs to
    unsaved    \* history: turns whose end did not get to the disk: the save
               \* failed, and none has carried the answer there since

diskVars == <<disk, unsaved>>
loopVars == <<messages, thread, listing, drawn, diskVars>>
workerVars == <<cancel, channel, job, deltas>>
vars == <<up, remote, messages, thread, listing, pending, cancel, channel,
          job, deltas, drawn, turns, outcome, kept, diskVars>>
historyVars == <<turns, outcome, kept>>

None == [turn |-> 0, remember |-> FALSE]
Threads == 1..MaxThreads

NoFile == << >>
Nowhere == 0
Torn == <<[role |-> "torn", turn |-> 0]>>

User(t) == [role |-> "user", turn |-> t]
Assistant(t) == [role |-> "assistant", turn |-> t]

busy == pending # None

(* list_threads: the files that can be read.                                *)
Listed ==
    [id \in {t \in Threads : disk[t] \notin {NoFile, Torn}} |-> disk[id]]

Holds(conversation, t) ==
    \E i \in DOMAIN conversation : conversation[i] = Assistant(t)

(* save_thread succeeds: the file of the thread is written anew.            *)
Written(conversation) ==
    /\ disk' = [disk EXCEPT ![thread] = conversation]
    /\ unsaved' = {t \in unsaved : ~Holds(conversation, t)}

(* save_thread fails: before the file is opened, or half way through it.    *)
WriteFails(ended) ==
    /\ SavesFail
    /\ disk' \in {disk, [disk EXCEPT ![thread] = Torn]}
    /\ unsaved' = unsaved \cup ended

(* persist: the whole conversation is written, an empty one never, and the  *)
(* result is ignored.  ended: the turn whose end is to be saved, if any.    *)
Persist(conversation, ended) ==
    IF conversation = << >> THEN UNCHANGED diskVars
    ELSE Written(conversation) \/ WriteFails(ended)

-----------------------------------------------------------------------------
(* The process.                                                             *)

Init ==
    /\ up = FALSE
    /\ remote = FALSE
    /\ messages = << >>
    /\ thread = 1
    /\ listing = [id \in {} |-> NoFile]
    /\ pending = None
    /\ cancel = FALSE
    /\ channel = << >>
    /\ job = "none"
    /\ deltas = 0
    /\ disk = [id \in Threads |-> NoFile]
    /\ turns = 0
    /\ outcome = [t \in 1..MaxTurns |-> "none"]
    /\ kept = [t \in 1..MaxTurns |-> Nowhere]
    /\ drawn = 0
    /\ unsaved = {}

(* new_thread: an id that was never drawn; ids are told apart, no more, so  *)
(* it is the next one.                                                      *)
NewThread ==
    /\ drawn < MaxThreads
    /\ drawn' = drawn + 1
    /\ thread' = drawn'

Start ==
    /\ ~up
    /\ up' = TRUE
    /\ remote' \in BOOLEAN
    /\ NewThread
    /\ messages' = << >>
    /\ listing' = [id \in {} |-> NoFile]
    /\ UNCHANGED <<pending, workerVars, diskVars, historyVars>>

(* The process ends, and with it all that is in memory.                     *)
Gone ==
    /\ up' = FALSE
    /\ remote' = FALSE
    /\ messages' = << >>
    /\ thread' = 1
    /\ listing' = [id \in {} |-> NoFile]
    /\ pending' = None
    /\ cancel' = FALSE
    /\ channel' = << >>
    /\ job' = "none"
    /\ deltas' = 0
    /\ UNCHANGED <<drawn, unsaved, historyVars>>

(* Ctrl-D at any time, Ctrl-C or /quit when idle, or a kill between saves.  *)
Quit ==
    /\ up
    /\ Gone
    /\ UNCHANGED disk

-----------------------------------------------------------------------------
(* Keys of the composer, disabled while a reply is in flight.               *)
Composing == up /\ ~busy

(* start_worker.                                                            *)
Spawn(kind, remember) ==
    /\ pending' = [turn |-> turns', remember |-> remember]
    /\ job' = kind
    /\ cancel' = FALSE
    /\ channel' = << >>
    /\ deltas' = 0

SpawnNothing == UNCHANGED <<pending, workerVars>>

(* A prompt that takes part in the conversation: kept and saved before the  *)
(* worker starts.  Without a model for the route there is no worker.        *)
Ask(t) ==
    /\ messages' = Append(messages, User(t))
    /\ Persist(messages', {})
    /\ IF remote THEN Spawn("remote", TRUE)
       ELSE \/ \E kind \in {"stream", "whole"} : Spawn(kind, TRUE)
            \/ SpawnNothing

(* /btw: sent on its own, kept nowhere.                                     *)
AskAside(t) ==
    /\ IF remote THEN Spawn("remote", FALSE)
       ELSE \/ \E kind \in {"stream", "whole"} : Spawn(kind, FALSE)
            \/ SpawnNothing
    /\ UNCHANGED <<messages, diskVars>>

(* No decision: the prompt is taken back before it was saved.               *)
AskInVain(t) ==
    /\ ~remote
    /\ SpawnNothing
    /\ UNCHANGED <<messages, diskVars>>

(* Mutant of Submit: the composer stays enabled.                            *)
SubmitAnytime ==
    /\ up
    /\ turns < MaxTurns
    /\ turns' = turns + 1
    /\ Ask(turns') \/ AskAside(turns') \/ AskInVain(turns')
    /\ UNCHANGED <<up, remote, thread, listing, drawn, outcome, kept>>

Submit ==
    /\ Composing
    /\ turns < MaxTurns
    /\ turns' = turns + 1
    /\ Ask(turns') \/ AskAside(turns') \/ AskInVain(turns')
    /\ UNCHANGED <<up, remote, thread, listing, drawn, outcome, kept>>

(* /new.                                                                    *)
New ==
    /\ Composing
    /\ Persist(messages, {})
    /\ messages' = << >>
    /\ NewThread
    /\ UNCHANGED <<up, remote, listing, pending, workerVars, historyVars>>

(* /threads.                                                                *)
List ==
    /\ Composing
    /\ listing' = Listed
    /\ UNCHANGED <<up, remote, messages, thread, pending, workerVars, drawn,
                   diskVars, historyVars>>

(* /open: from what was listed last, after the current one was saved.       *)
Open ==
    LET entries == IF DOMAIN listing = {} THEN Listed ELSE listing
    IN  /\ Composing
        /\ Persist(messages, {})
        /\ listing' = entries
        /\ \E id \in DOMAIN entries :
              /\ MayOpenStale \/ entries[id] = disk'[id]
              /\ thread' = id
              /\ messages' = entries[id]
        /\ UNCHANGED <<up, remote, drawn, pending, workerVars, historyVars>>

(* Ctrl-C or Esc during a reply.                                            *)
Cancel ==
    /\ up /\ busy
    /\ cancel' = TRUE
    /\ UNCHANGED <<up, remote, loopVars, pending, channel, job, deltas,
                   historyVars>>

-----------------------------------------------------------------------------
(* The worker thread.                                                       *)
Send(event) == channel' = Append(channel, event)

WorkerOnly == UNCHANGED <<up, remote, loopVars, pending, cancel, historyVars>>

SendLast(event) ==
    /\ Send(event)
    /\ job' = "none"
    /\ UNCHANGED deltas
    /\ WorkerOnly

(* A streamed item: the flag is looked at before the item is.               *)
StreamItem ==
    /\ job = "stream"
    /\ \/ cancel /\ SendLast("cancelled")
       \/ ~cancel /\ SendLast("error")
       \/ /\ ~cancel
          /\ deltas < MaxDeltas
          /\ deltas' = deltas + 1
          /\ Send("delta")
          /\ UNCHANGED job
          /\ WorkerOnly

StreamEnds ==
    /\ job = "stream"
    /\ SendLast(IF cancel THEN "cancelled"
                ELSE IF deltas = 0 THEN "empty" ELSE "done")

(* Without streaming nobody looks at the flag.                              *)
WholeReply ==
    /\ job = "whole"
    /\ \E event \in {"done", "empty", "error"} : SendLast(event)

(* The gateway's reply, perhaps none; an error is one, cancelled or not.    *)
RemoteReply ==
    /\ job = "remote"
    /\ \/ cancel /\ SendLast("cancelled")
       \/ ~cancel /\ \E event \in {"done", "empty", "discard"} : SendLast(event)
       \/ SendLast("error")

(* The thread panics: its end of the channel closes.                        *)
WorkerDies ==
    /\ job # "none"
    /\ job' = "none"
    /\ UNCHANGED <<channel, deltas>>
    /\ WorkerOnly

-----------------------------------------------------------------------------
(* The loop's side: poll_worker.                                            *)

Idle ==
    /\ pending' = None
    /\ cancel' = FALSE
    /\ channel' = << >>
    /\ deltas' = 0
    /\ UNCHANGED job

(* Mutant of FinishReply: the reply is shown, but only saved with the next  *)
(* prompt.                                                                  *)
FinishReplyUnsaved ==
    /\ messages' = IF pending.remember
                   THEN Append(messages, Assistant(pending.turn)) ELSE messages
    /\ UNCHANGED diskVars

(* Mutant of FinishReply: an aside's reply is kept.                         *)
FinishReplyAlways ==
    /\ messages' = Append(messages, Assistant(pending.turn))
    /\ Persist(messages', {pending.turn})

(* finish_reply with a text.                                                *)
FinishReply ==
    IF pending.remember
    THEN /\ messages' = Append(messages, Assistant(pending.turn))
         /\ Persist(messages', {pending.turn})
    ELSE UNCHANGED <<messages, diskVars>>

(* Mutant of RollBack: the save is forgotten.                               *)
RollBackUnsaved ==
    /\ messages' = IF pending.remember THEN Front(messages) ELSE messages
    /\ UNCHANGED diskVars

(* rollback_user_turn.                                                      *)
RollBack ==
    IF pending.remember
    THEN /\ messages' = Front(messages)
         /\ Persist(messages', {pending.turn})
    ELSE UNCHANGED <<messages, diskVars>>

Keep == UNCHANGED <<messages, diskVars>>

(* What the event that ends a reply makes of the turn: a failure takes the  *)
(* prompt back only if the gateway was asked.                               *)
Verdict(event) ==
    CASE event = "done" -> "done"
      [] event = "empty" -> "unanswered"
      [] event = "discard" -> "withdrawn"
      [] OTHER -> IF remote THEN "withdrawn" ELSE "unanswered"

Delta ==
    /\ channel' = Tail(channel)
    /\ UNCHANGED <<messages, diskVars, pending, cancel, job, deltas, outcome,
                   kept>>

Conclude(verdict) ==
    /\ Idle
    /\ CASE verdict = "done" -> FinishReply
         [] verdict = "withdrawn" -> RollBack
         [] OTHER -> Keep
    /\ outcome' = [outcome EXCEPT ![pending.turn] = verdict]
    /\ kept' = IF verdict = "done" /\ pending.remember
               THEN [kept EXCEPT ![pending.turn] = thread] ELSE kept

(* The events one by one; the one that ends a reply is the last.            *)
Poll ==
    /\ up /\ busy
    /\ channel # << >>
    /\ \/ Head(channel) = "delta" /\ Delta
       \/ Head(channel) # "delta" /\ Conclude(Verdict(Head(channel)))
    /\ UNCHANGED <<up, remote, thread, listing, drawn, turns>>

(* Mutant of Disconnected: a closed channel is taken for an empty one.      *)
DisconnectedIgnored ==
    /\ up /\ busy
    /\ channel = << >>
    /\ job = "none"
    /\ UNCHANGED vars

(* The worker is gone and left nothing.                                     *)
Disconnected ==
    /\ up /\ busy
    /\ channel = << >>
    /\ job = "none"
    /\ Idle
    /\ outcome' = [outcome EXCEPT ![pending.turn] = "unanswered"]
    /\ UNCHANGED <<up, remote, loopVars, turns, kept>>

(* A kill while save_thread writes the file in place: with a prompt, before *)
(* a switch to another thread, or at the end of a reply.                    *)
KillInSave ==
    /\ up
    /\ \/ Composing /\ (messages # << >> \/ turns < MaxTurns)
       \/ /\ busy /\ pending.remember
          /\ channel # << >> /\ Last(channel) # "delta"
          /\ \/ Verdict(Last(channel)) = "done"
             \/ Verdict(Last(channel)) = "withdrawn" /\ Len(messages) > 1
    /\ Gone
    /\ disk' = [disk EXCEPT ![thread] = Torn]

-----------------------------------------------------------------------------
Worker == StreamItem \/ StreamEnds \/ WholeReply \/ RemoteReply \/ WorkerDies
Loop == Poll \/ Disconnected

(* Nobody has to start the chat again.                                      *)
AtRest == ~up /\ UNCHANGED vars

Next ==
    \/ Start \/ AtRest \/ Quit \/ KillInSave
    \/ Submit \/ New \/ List \/ Open \/ Cancel
    \/ Worker \/ Loop

Spec == Init /\ [][Next]_vars

(* The loop polls every 50 ms, and every upstream call times out.           *)
FairSpec == Spec /\ WF_vars(Worker) /\ WF_vars(Loop)

-----------------------------------------------------------------------------
Conversations == Seq([role : {"user", "assistant"}, turn : 1..MaxTurns])

Outcomes == {"none", "done", "unanswered", "withdrawn"}

(* Types of the loop's state, the worker's and the files.                   *)
TypeOK ==
    /\ up \in BOOLEAN /\ remote \in BOOLEAN /\ cancel \in BOOLEAN
    /\ messages \in Conversations
    /\ thread \in Threads
    /\ DOMAIN listing \subseteq Threads
    /\ \A id \in DOMAIN listing : listing[id] \in Conversations
    /\ pending \in [turn : 0..MaxTurns, remember : BOOLEAN]
    /\ job \in {"none", "stream", "whole", "remote"}
    /\ job # "none" => busy
    /\ deltas \in 0..MaxDeltas
    /\ \A id \in Threads : disk[id] \in Conversations \cup {Torn}
    /\ turns \in 0..MaxTurns
    /\ outcome \in [1..MaxTurns -> Outcomes]
    /\ kept \in [1..MaxTurns -> Threads \cup {Nowhere}]
    /\ drawn \in 0..MaxThreads
    /\ unsaved \subseteq 1..MaxTurns

(* The conversations there are: in memory and on disk.                      *)
Copies == {messages} \cup {disk[id] : id \in {t \in Threads : disk[t] # Torn}}

(* Every answer stands right behind its own prompt, no prompt occurs twice, *)
(* and only a reply that was completed is an answer: not a partial one, not *)
(* one that was cancelled, not one of an aside.                             *)
AnswersBehindPrompts ==
    \A s \in Copies : \A i \in DOMAIN s :
        /\ \A j \in DOMAIN s : s[i] = s[j] => i = j
        /\ s[i].role = "assistant" =>
              /\ i > 1
              /\ s[i - 1] = User(s[i].turn)
              /\ outcome[s[i].turn] = "done"

(* The conversation in memory while a reply is in flight ends with the      *)
(* prompt it answers: rollback and finish touch no other turn.              *)
PendingIsLast ==
    busy /\ pending.remember =>
        messages # << >> /\ Last(messages) = User(pending.turn)

(* A prompt that was taken back stays in no conversation, unless it is its  *)
(* first: then rollback leaves nothing to save, the file keeps the prompt,  *)
(* and opening it again brings it back (rollback_user_turn, persist); or    *)
(* unless the save without it failed, and the file keeps it for that.       *)
WithdrawnOnlyFirst ==
    \A s \in Copies : \A i \in DOMAIN s :
        outcome[s[i].turn] = "withdrawn" => i = 1 \/ s[i].turn \in unsaved

(* ADR-0030: "the active thread auto-saves as the conversation advances     *)
(* (after each turn and its reply), so nothing is lost on quit or crash".   *)
(* An answer that was kept stays in the file of its thread, unless a kill   *)
(* or a failed save tore that file, or the save of the answer failed, and   *)
(* then only until one that carries it succeeds.                            *)
NothingIsLost ==
    \A t \in 1..MaxTurns : kept[t] # Nowhere =>
        disk[kept[t]] = Torn \/ Holds(disk[kept[t]], t) \/ t \in unsaved

(* Whatever the upstream, the worker and the user do, the composer comes    *)
(* back.                                                                    *)
ComposerComesBack == busy ~> ~busy
=============================================================================
