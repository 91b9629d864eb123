----------------------------- MODULE MCSession -----------------------------
(***************************************************************************)
(* Session with small sets; threads and tokens are interchangeable.        *)
(***************************************************************************)
EXTENDS Session, TLC

MCSymmetry == Permutations(Requests) \cup Permutations(Tokens)
=============================================================================
