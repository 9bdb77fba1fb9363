------------------------------ MODULE MCSampling ------------------------------
(* Instances of Sampling for TLC. *)
EXTENDS Sampling

CONSTANTS j1, j2, d1, d2

MCVentureOf == [d \in Documents |-> j1]

MCRowOf == [d \in Documents |->
    [id |-> d, type |-> IF d = d1 THEN "contract" ELSE "other", words |-> {},
     status |-> "parsed", processed |-> TRUE, at |-> 1]]

Everything == [percentage |-> 100, maxItems |-> 0, minScore |-> 0, processedOnly |-> FALSE,
               types |-> {}, statuses |-> {}]

MCSettings == {[parameters |-> Everything, rules |-> {}]}
===============================================================================
