---------------------------- MODULE MCRateLimiter ---------------------------
(***************************************************************************)
(* Two goroutines and two hosts, each goroutine free to turn to either     *)
(* host; the jitter lets a delay be two or three ticks, so that callers    *)
(* with different delays overtake each other.                              *)
(***************************************************************************)
EXTENDS RateLimiter
=============================================================================
