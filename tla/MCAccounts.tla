----------------------------- MODULE MCAccounts -----------------------------
(***************************************************************************)
(* Accounts with one row of each kind to seed, as in main.py: a plan, the  *)
(* organization "personal", which has one place, and a user.               *)
(***************************************************************************)
EXTENDS Accounts

CONSTANTS plan, personal, other, s1

MCStartup == <<plan, personal, s1>>
MCMaxUsers == [o \in Orgs |-> IF o = personal THEN 1 ELSE 2]
=============================================================================
