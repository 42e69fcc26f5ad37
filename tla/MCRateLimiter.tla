---------------------------- MODULE MCRateLimiter ----------------------------
(***************************************************************************)
(* RateLimiter for TLC: one client, both buckets, a window of three ticks  *)
(* and a clock long enough for requests to expire twice.                   *)
(***************************************************************************)
EXTENDS RateLimiter
=============================================================================
