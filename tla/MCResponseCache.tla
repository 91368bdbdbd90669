-------------------------- MODULE MCResponseCache --------------------------
(* Instances of ResponseCache for TLC: three endpoints, two of which send   *)
(* the same model id upstream.                                              *)
EXTENDS ResponseCache, TLC

CONSTANTS local, cloud, mirror

MCUpstreamOf == (local :> "small") @@ (cloud :> "large") @@ (mirror :> "large")

Interchangeable == Permutations(Clients) \cup Permutations(Bodies)
=============================================================================
