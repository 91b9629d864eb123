-------------------------- MODULE MCModelRegistry --------------------------
(***************************************************************************)
(* ModelRegistry with two nodes and two models, the name of one contained  *)
(* in that of the other: a client writes either, or the family's name.     *)
(***************************************************************************)
EXTENDS ModelRegistry

CONSTANTS n1, n2

MCNodeSeq == <<n1, n2>>
MCModels == {"llama3:8b", "codellama3:8b"}
MCNames == MCModels \cup {"llama3"}
MCTagged == [name \in MCNames |-> IF name = "llama3" THEN {"llama3:8b"} ELSE {}]
MCContaining == [name \in MCNames |-> IF name = "codellama3:8b" THEN {name} ELSE MCModels]
=============================================================================
