--------------------------- MODULE MCJobTransactions ---------------------------
(* Instances of JobTransactions for TLC. *)
EXTENDS JobTransactions, TLC

\* Every document has a storage key of its own.
MCKeyOf == [d \in Docs |-> d]

\* One fault of each kind.
OneOfEach == [k \in FaultKinds |-> 1]

Symmetry == Permutations(Workers) \cup Permutations(Clients)
===============================================================================
