----------------------------- MODULE MCDelivery -----------------------------
(* Instances of Delivery for TLC: a local tier that falls back to a spare   *)
(* endpoint, and a cloud tier; with a gap, a middle tier without endpoint.  *)
EXTENDS Delivery, TLC

CONSTANTS local, spare, middle, cloud

MCNames == {local, spare, cloud}
MCLadder == <<local, cloud>>
MCFallbacks == (local :> <<spare>>) @@ (spare :> << >>) @@ (cloud :> << >>)
MCWindow == (local :> 1) @@ (spare :> 2) @@ (cloud :> 2)

GapNames == {local, spare, middle, cloud}
GapLadder == <<local, middle, spare, cloud>>
GapFallbacks == (local :> << >>) @@ (spare :> <<local>>) @@ (cloud :> << >>)

Ask(chosen, policy, stream) ==
    [chosen |-> chosen, policy |-> policy, offline |-> FALSE,
     stream |-> stream, tokens |-> 1]

(* Requests from every tier, with a fallback, up and down, and offline.     *)
PlainInputs ==
    {Ask(local, "escalate", FALSE), Ask(cloud, "degrade", FALSE),
     Ask(spare, "degrade", FALSE),
     [Ask(cloud, "escalate", FALSE) EXCEPT !.offline = TRUE, !.tokens = 2]}

StreamInputs == {Ask(local, "same-tier", TRUE), Ask(cloud, "degrade", TRUE)}

Interchangeable == Permutations(Requests)
=============================================================================
