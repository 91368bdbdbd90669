--------------------------- MODULE MessageStream ---------------------------
(***************************************************************************)
(* What a client of the Messages API may see of one streamed answer: the    *)
(* message starts, content blocks come one after the other, numbered from   *)
(* zero, each started, filled and stopped, at least one of them, then the   *)
(* stop reason and the end.  The stream may break off anywhere.             *)
(***************************************************************************)
EXTENDS Integers, Sequences

VARIABLES out  \* the events the client has seen

Started == {i \in DOMAIN out : out[i].type = "content_block_start"}
Stopped == {i \in DOMAIN out : out[i].type = "content_block_stop"}

Seen(type) == \E i \in DOMAIN out : out[i].type = type

(* A block is open when one more was started than stopped.                  *)
BlockOpen == \E i \in Started : \A j \in Stopped : j < i

(* The number of blocks started so far is the index of the next one.        *)
IsNextIndex(n) ==
    /\ \A i \in Started : out[i].index < n
    /\ n = 0 \/ \E i \in Started : out[i].index = n - 1

IsCurrent(n) ==
    \E i \in Started : out[i].index = n /\ \A j \in Started : j <= i

MayFollow(e) ==
    CASE e.type = "message_start" -> out = << >>
      [] e.type = "content_block_start" ->
            /\ out # << >>
            /\ ~BlockOpen
            /\ ~Seen("message_delta")
            /\ IsNextIndex(e.index)
      [] e.type \in {"content_block_delta", "content_block_stop"} ->
            BlockOpen /\ IsCurrent(e.index)
      [] e.type = "message_delta" ->
            Started # {} /\ ~BlockOpen /\ ~Seen("message_delta")
      [] e.type = "message_stop" ->
            Seen("message_delta") /\ ~Seen("message_stop")

Init == out = << >>

Next ==
    /\ Len(out') = Len(out) + 1
    /\ SubSeq(out', 1, Len(out)) = out
    /\ MayFollow(out'[Len(out')])

Spec == Init /\ [][Next]_out
=============================================================================
