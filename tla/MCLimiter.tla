------------------------------ MODULE MCLimiter ------------------------------
(* Three waiters for a bucket of two tokens, one assigned per tick.        *)
EXTENDS Limiter
=============================================================================
