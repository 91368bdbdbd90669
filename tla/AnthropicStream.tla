-------------------------- MODULE AnthropicStream --------------------------
(***************************************************************************)
(* A streamed answer on /v1/messages: the upstream's bytes pass through the *)
(* accounting of the chat endpoint (StreamAccounting), which waits for      *)
(* blank lines, and then through openai_sse_to_anthropic_stream, which      *)
(* waits for line ends and translates.  The translator stops reading, and   *)
(* drops the accounting, as soon as it has seen [DONE].                     *)
(*                                                                         *)
(* The upstream's text is a script of events.  Event k is the line          *)
(* "data: ..." and a blank line, both ended by LF or both by CRLF; its      *)
(* bytes are three pieces: the line up to some point inside it, the rest of *)
(* the line, the blank line.  A network chunk ends behind any piece; pos    *)
(* counts the pieces read.  An event's number stands for the text or the    *)
(* arguments it carries.                                                    *)
(***************************************************************************)
EXTENDS Integers, Sequences, FiniteSets, SequencesExt

CONSTANTS
    Scripts,  \* the upstream answers of the behaviours
    Calls     \* indices of tool calls

Kinds == {"text", "call", "args", "reason", "junk", "done"}
LineEnds == {"lf", "crlf"}

ASSUME ScriptAssumption ==
    /\ Calls \subseteq Nat
    /\ Scripts \subseteq Seq([kind : Kinds, call : Calls, end : LineEnds])

VARIABLES
    script,    \* what the upstream is going to send
    pos,       \* pieces read so far
    garbled,   \* events whose text was cut inside a character
    accounted, \* StreamAccounting.finished: the turn was charged and counted
    slots,     \* the translator's tool calls: index -> its arguments
    textIndex, \* the block of the text, NoBlock before the first delta
    reason,    \* the last event with a finish reason, 0 for none
    pending,   \* events ready for the client
    mode,      \* what the translator is doing
    out        \* history: the events the client has seen

trVars == <<slots, textIndex, reason>>
vars == <<script, pos, garbled, accounted, trVars, pending, mode, out>>

NoBlock == -1

Pieces == 3 * Len(script)

LinesRead(p) == (p + 1) \div 3

(* The accounting takes the text up to a "\n\n" out of its buffer: with     *)
(* CRLF the blank line makes none, and the event waits for a later one.     *)
Drained(p) ==
    {k \in 1..(p \div 3) : \E j \in k..(p \div 3) : script[j].end = "lf"}

(* The numbers of a finite set from the least to the greatest.              *)
InOrder(S) ==
    CHOOSE s \in [1..Cardinality(S) -> S] :
        \A i, j \in DOMAIN s : i < j => s[i] < s[j]

-----------------------------------------------------------------------------
(* Server-sent events to the client.                                        *)
MessageStart == [type |-> "message_start"]
BlockStart(n, kind) == [type |-> "content_block_start", index |-> n, kind |-> kind]
BlockDelta(n, parts) == [type |-> "content_block_delta", index |-> n, parts |-> parts]
BlockStop(n) == [type |-> "content_block_stop", index |-> n]
MessageDelta(k) == [type |-> "message_delta", reason |-> k]
MessageStop == [type |-> "message_stop"]

ClientEvent ==
    [type : {"message_start", "message_stop"}]
    \cup [type : {"content_block_start"}, index : Nat, kind : {"text", "tool_use"}]
    \cup [type : {"content_block_delta"}, index : Nat, parts : Seq(Nat)]
    \cup [type : {"content_block_stop"}, index : Nat]
    \cup [type : {"message_delta"}, reason : Nat]

-----------------------------------------------------------------------------
(* The translator, as a function of its fields t and the event number k.    *)

(* Mutant of FeedText: the block is started anew for every delta.           *)
FeedTextAnew(t, k) ==
    [t EXCEPT !.text = 0,
              !.events = @ \o <<BlockStart(0, "text"), BlockDelta(0, <<k>>)>>]

FeedText(t, k) ==
    [t EXCEPT !.text = 0,
              !.events = (IF t.text = NoBlock THEN @ \o <<BlockStart(0, "text")>>
                                              ELSE @) \o <<BlockDelta(0, <<k>>)>>]

(* The arguments the slot of call c holds, none before its first sight.     *)
Held(t, c) == IF c \in DOMAIN t.slots THEN t.slots[c] ELSE << >>

Piece(k) == IF script[k].kind = "args" THEN <<k>> ELSE << >>

SetSlot(t, c, parts) ==
    [t EXCEPT !.slots = [d \in DOMAIN @ \cup {c} |-> IF d = c THEN parts ELSE @[d]]]

(* Mutant of Ingest: a piece replaces what the slot held.                   *)
IngestOver(t, k) == SetSlot(t, script[k].call, Piece(k))

(* ingest_tool_call: the slot of the call, made on first sight, and its     *)
(* arguments with the new piece behind them.                                *)
Ingest(t, k) ==
    SetSlot(t, script[k].call, Held(t, script[k].call) \o Piece(k))

(* feed: one line.                                                          *)
Feed(t, k) ==
    CASE script[k].kind = "text" -> FeedText(t, k)
      [] script[k].kind \in {"call", "args"} -> Ingest(t, k)
      [] script[k].kind = "reason" -> [t EXCEPT !.reason = k]
      [] OTHER -> t

FeedLines(t, lines) == FoldLeft(Feed, t, lines)

(* finish: an empty text block if there was nothing at all, the text's end, *)
(* a whole block for every tool call by its index, and the end.             *)
ToolBlock(t, c, n) ==
    <<BlockStart(n, "tool_use")>>
    \o (IF t.slots[c] = << >> THEN << >> ELSE <<BlockDelta(n, t.slots[c])>>)
    \o <<BlockStop(n)>>

Finish(t) ==
    LET tools == InOrder(DOMAIN t.slots)
        empty == t.text = NoBlock /\ tools = << >>
        first == IF t.text = NoBlock /\ ~empty THEN 0 ELSE 1
    IN  (IF empty THEN <<BlockStart(0, "text")>> ELSE << >>)
        \o (IF first = 1 THEN <<BlockStop(0)>> ELSE << >>)
        \o FlattenSeq([i \in DOMAIN tools |->
                          ToolBlock(t, tools[i], first + i - 1)])
        \o <<MessageDelta(t.reason), MessageStop>>

Translator ==
    [text |-> textIndex, slots |-> slots, reason |-> reason, events |-> << >>]

Become(t) ==
    /\ textIndex' = t.text
    /\ slots' = t.slots
    /\ reason' = t.reason

-----------------------------------------------------------------------------
Init ==
    /\ script \in Scripts
    /\ pos = 0
    /\ garbled = {}
    /\ accounted = FALSE
    /\ slots = << >>
    /\ textIndex = NoBlock
    /\ reason = 0
    /\ pending = <<MessageStart>>
    /\ mode = "reading"
    /\ out = << >>

(* The stream is polled by the server as the client reads: what is pending  *)
(* goes out before the upstream is read again.                              *)
Emit ==
    /\ mode \in {"reading", "finished"}
    /\ pending # << >>
    /\ out' = Append(out, Head(pending))
    /\ pending' = Tail(pending)
    /\ UNCHANGED <<script, pos, garbled, accounted, trVars, mode>>

(* Both buffers decode a chunk on its own (from_utf8_lossy): a character    *)
(* that the chunk's end cuts in two is lost for both.                       *)
Garble(p) ==
    IF p % 3 = 1 /\ script[p \div 3 + 1].kind \in {"text", "args"}
    THEN {garbled, garbled \cup {p \div 3 + 1}} ELSE {garbled}

IsDone(k) == script[k].kind = "done"

(* Mutant of Accounts: the end of the stream does not settle the turn.      *)
AccountsOnDoneOnly(p, end) ==
    accounted \/ \E k \in Drained(p) : IsDone(k)

(* observe_chunk settles the turn when it drains a [DONE], finish() at the  *)
(* end of the upstream.                                                     *)
Accounts(p, end) ==
    accounted \/ end \/ \E k \in Drained(p) : IsDone(k)

(* A chunk: the accounting sees it first, then the translator takes its     *)
(* complete lines up to [DONE].                                             *)
Chunk ==
    /\ mode = "reading"
    /\ pending = << >>
    /\ \E p \in (pos + 1)..Pieces :
          LET new   == (LinesRead(pos) + 1)..LinesRead(p)
              stop  == {k \in new : IsDone(k)}
              lines == {k \in new : \A d \in stop : k < d}
              t     == FeedLines(Translator, InOrder(lines))
          IN  /\ pos' = p
              /\ garbled' \in Garble(p)
              /\ accounted' = Accounts(p, FALSE)
              /\ Become(t)
              /\ pending' = t.events \o
                            (IF stop = {} THEN << >> ELSE Finish(t))
              /\ mode' = IF stop = {} THEN "reading" ELSE "finished"
    /\ UNCHANGED <<script, out>>

(* Mutant of End: only [DONE] finishes the message.                         *)
EndSilently ==
    /\ mode = "reading"
    /\ pending = << >>
    /\ accounted' = Accounts(pos, TRUE)
    /\ mode' = "finished"
    /\ UNCHANGED <<script, pos, garbled, trVars, pending, out>>

(* The upstream closes the connection, early perhaps: whatever has no line  *)
(* end yet is not translated.                                               *)
End ==
    /\ mode = "reading"
    /\ pending = << >>
    /\ accounted' = Accounts(pos, TRUE)
    /\ pending' = Finish(Translator)
    /\ mode' = "finished"
    /\ UNCHANGED <<script, pos, garbled, trVars, out>>

(* The connection fails: the client's response is aborted.                  *)
Fail ==
    /\ mode = "reading"
    /\ pending = << >>
    /\ mode' = "aborted"
    /\ UNCHANGED <<script, pos, garbled, accounted, trVars, pending, out>>

(* The client goes away.                                                    *)
Leave ==
    /\ mode # "aborted"
    /\ pending # << >> \/ mode = "reading"
    /\ mode' = "aborted"
    /\ UNCHANGED <<script, pos, garbled, accounted, trVars, pending, out>>

Over == mode = "aborted" \/ (mode = "finished" /\ pending = << >>)

Poll == Emit \/ Chunk \/ End \/ Fail

Next == Poll \/ Leave \/ (Over /\ UNCHANGED vars)

Spec == Init /\ [][Next]_vars

(* A client that reads keeps the stream polled, and every upstream answers, *)
(* ends or times out.                                                       *)
FairSpec == Spec /\ WF_vars(Poll)

-----------------------------------------------------------------------------
(* Types of the translator's fields and of the buffers.                     *)
TypeOK ==
    /\ pos \in 0..Pieces
    /\ garbled \subseteq 1..Len(script)
    /\ accounted \in BOOLEAN
    /\ DOMAIN slots \subseteq Calls
    /\ slots \in [DOMAIN slots -> Seq(1..Len(script))]
    /\ textIndex \in {NoBlock, 0}
    /\ reason \in 0..Len(script)
    /\ mode \in {"reading", "finished", "aborted"}
    /\ pending \in Seq(ClientEvent)
    /\ out \in Seq(ClientEvent)

(* Whatever the upstream sends, and however the network cuts it, the client *)
(* sees a prefix of a well-formed message (WF-DESIGN-0011).                 *)
Message == INSTANCE MessageStream

WellFormed == Message!Spec

(* A complete message carries every piece of the answer the translator read *)
(* exactly once, in order: the text in its block, each tool call's arguments*)
(* in one block of its own, tool calls by index, and the last stop reason.  *)
ReadEvents ==
    {k \in 1..LinesRead(pos) : \A d \in 1..k : ~IsDone(d)}

Carried(events, n) ==
    FlattenSeq([i \in DOMAIN events |->
        IF events[i].type = "content_block_delta" /\ events[i].index = n
        THEN events[i].parts ELSE << >>])

NothingLost ==
    out # << >> /\ Last(out) = MessageStop =>
        LET texts == {k \in ReadEvents : script[k].kind = "text"}
            used  == {c \in Calls : \E k \in ReadEvents :
                         script[k].kind \in {"call", "args"} /\ script[k].call = c}
            block(c) == Cardinality({d \in used : d < c})
                        + IF texts = {} THEN 0 ELSE 1
            ends  == {k \in ReadEvents : script[k].kind = "reason"}
        IN  /\ texts # {} => Carried(out, 0) = InOrder(texts)
            /\ \A c \in used : Carried(out, block(c)) =
                  InOrder({k \in ReadEvents :
                              script[k].kind = "args" /\ script[k].call = c})
            /\ \E i \in DOMAIN out :
                  /\ out[i].type = "message_delta"
                  /\ out[i].reason = IF ends = {} THEN 0 ELSE Last(InOrder(ends))

(* The translator has read event k, a [DONE], before the accounting was     *)
(* shown the "\n\n" behind it: the network cut the stream in front of the   *)
(* blank line, or the upstream ends that event with CRLF.                   *)
Missed(k) ==
    /\ IsDone(k)
    /\ script[k].end = "crlf" \/ (pos % 3 = 2 /\ k = LinesRead(pos))

(* A turn whose message reached its end was charged and counted once, unless*)
(* the translator, which drops the accounting at [DONE], was ahead of it.   *)
AccountedUnlessMissed ==
    mode = "finished" /\ ~accounted => \E k \in 1..LinesRead(pos) : Missed(k)

(* WF-DESIGN-0011: a text delta of the client for each of the upstream.     *)
TextIntact ==
    \A i \in DOMAIN out : out[i].type = "content_block_delta" =>
        \A j \in DOMAIN out[i].parts : out[i].parts[j] \notin garbled

(* Every stream ends, and unless it breaks off the client is told.          *)
ClientIsTold ==
    <>(mode = "aborted" \/ (out # << >> /\ Last(out) = MessageStop))
=============================================================================
