---------------------------- MODULE MCResponseCache ----------------------------
(***************************************************************************)
(* ResponseCache with small sets; the elements of each are interchangeable. *)
(***************************************************************************)
EXTENDS ResponseCache, TLC

MCSymmetry ==
    UNION {Permutations(S) : S \in {Requests, Conversations, Providers, Models, Questions}}
=============================================================================
