------------------------------ MODULE MCQuota ------------------------------
(***************************************************************************)
(* Quota for a user with two requests in flight.  The days and the answers *)
(* are enough to use up a day, cross two midnights and outlive a TTL.      *)
(***************************************************************************)
EXTENDS Quota, TLC

CONSTANTS c1, c2

MCSymmetry == Permutations({c1, c2})
=============================================================================
