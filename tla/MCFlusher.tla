----------------------------- MODULE MCFlusher -----------------------------
(***************************************************************************)
(* One gateway, two usage keys, a batch of two entries and a buffer that   *)
(* can hold one more, two faults at any point.                             *)
(***************************************************************************)
EXTENDS SoloFlusher
=============================================================================
