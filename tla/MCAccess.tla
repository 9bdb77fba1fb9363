------------------------------- MODULE MCAccess -------------------------------
(* Instances of Access for TLC. *)
EXTENDS Access, TLC

CONSTANTS r1

\* All the ventures are in one region.
MCHomeOf == [v \in Ventures |-> r1]

Symmetry == Permutations(Ids) \cup Permutations(Requests)
===============================================================================
