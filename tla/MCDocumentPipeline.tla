--------------------------- MODULE MCDocumentPipeline ---------------------------
(* Instances of DocumentPipeline for TLC. *)
EXTENDS DocumentPipeline, TLC

\* Every document has a storage key of its own.
MCKeyOf == [d \in Docs |-> d]

\* Whatever is registered or uploaded goes to one key, which its clients chose.
MCSharedKey == [d \in Docs |-> CHOOSE k \in Keys : TRUE]

Faultless == [k \in FaultKinds |-> 0]
OneInterrupt == [Faultless EXCEPT !["interrupt"] = 1]
TwoInterrupts == [Faultless EXCEPT !["interrupt"] = 2]
OneOverrun == [Faultless EXCEPT !["overrun"] = 1]
OverrunAndLostCommit == [OneOverrun EXCEPT !["lost_commit"] = 1]
OneOfEach == [k \in FaultKinds |-> 1]

Symmetry == Permutations(Workers) \cup Permutations(Clients)
===============================================================================
