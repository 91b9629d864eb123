---------------------------- MODULE MCInference ----------------------------
(***************************************************************************)
(* Inference with two requests and a chain of fallbacks that names the      *)
(* primary in its middle.                                                   *)
(***************************************************************************)
EXTENDS Inference

MCFallbacks == <<"vllm", "ollama", "mistral">>
=============================================================================
