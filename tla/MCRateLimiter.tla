---------------------------- MODULE MCRateLimiter ----------------------------
(* RateLimiter with three addresses, a map limit of one and a short idle time. *)
EXTENDS RateLimiter, TLC

Symmetry == Permutations(Ips)
=============================================================================
