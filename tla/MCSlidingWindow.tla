-------------------------- MODULE MCSlidingWindow --------------------------
(***************************************************************************)
(* SlidingWindow on a small instance.  Five requests over two threads and  *)
(* a limit of two let the limit be overshot, filled, and freed again by    *)
(* eviction and by the key's TTL within MaxClock ticks.                    *)
(***************************************************************************)
EXTENDS SlidingWindow, TLC

CONSTANTS r1, r2, r3, r4, r5

MCRequests == {r1, r2, r3, r4, r5}
MCSymmetry == Permutations(MCRequests)
=============================================================================
