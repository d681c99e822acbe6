--------------------------- MODULE MCRateLimiter ----------------------------
(* RateLimiter for TLC: handlers are interchangeable model values. *)
EXTENDS RateLimiter, TLC

HandlerSymmetry == Permutations(Handlers)
=============================================================================
