------------------------- MODULE MCAnthropicStream -------------------------
(* Instances of AnthropicStream for TLC: every script of at most three      *)
(* events with text, two tool calls, a stop reason, noise and [DONE].       *)
(* An upstream ends its lines in one way, but for those of MixedScripts.    *)
EXTENDS AnthropicStream

Event(kind, call) == [kind |-> kind, call |-> call, end |-> "lf"]

MCEvents ==
    {Event("text", 0), Event("call", 0), Event("args", 0), Event("args", 1),
     Event("reason", 0), Event("junk", 0), Event("done", 0)}

MCScripts == UNION {[1..n -> MCEvents] : n \in 0..3}

(* Longer answers of the usual shape.                                       *)
LongScripts ==
    {<<a, b, c, Event("reason", 0), Event("done", 0)>> :
        a, b, c \in {Event("text", 0), Event("args", 0), Event("args", 1)}}

WithEnd(s, end) == [k \in DOMAIN s |-> [s[k] EXCEPT !.end = end]]

(* [DONE] and what stands around it, each event with its own line ends.     *)
MixedScripts ==
    {[k \in 1..3 |-> [s[k] EXCEPT !.end = ends[k]]] :
        s \in {<<Event("text", 0), Event("done", 0), Event("junk", 0)>>,
              <<Event("done", 0), Event("text", 0), Event("done", 0)>>},
        ends \in [1..3 -> LineEnds]}

AllScripts ==
    {WithEnd(s, end) : s \in MCScripts \cup LongScripts, end \in LineEnds}
    \cup MixedScripts

FewScripts ==
    {<< >>, <<Event("text", 0), Event("done", 0)>>,
     <<Event("args", 1), Event("call", 0), Event("done", 0)>>}
=============================================================================
