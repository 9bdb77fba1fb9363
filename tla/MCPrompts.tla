------------------------------- MODULE MCPrompts -------------------------------
(* Instances of Prompts for TLC. *)
EXTENDS Prompts, TLC

Symmetry == Permutations(Requests) \cup Permutations(Versions) \cup Permutations(PromptIds)
===============================================================================
