--------------------------- MODULE MCRateLimiter ---------------------------
(* Instances of RateLimiter for TLC; the clients are interchangeable.       *)
EXTENDS RateLimiter, TLC

Interchangeable == Permutations(Clients)
=============================================================================
