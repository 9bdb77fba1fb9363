------------------------------ MODULE MCVentures ------------------------------
(* Instances of Ventures for TLC. *)
EXTENDS Ventures, TLC

MCTexts == {"", "eu", "EU", "US"}

MCNormalizeCode == [c \in MCTexts |-> IF c = "eu" THEN "EU" ELSE c]

MCDrafts ==
    {[name |-> "a", parties |-> <<"p", "", "q">>, metadata |-> {}],
     [name |-> "", parties |-> <<"p", "q">>, metadata |-> {}],
     [name |-> "a", parties |-> <<"p", "">>, metadata |-> {}]}

\* A status left blank, parties left blank, too few parties, two fields at once.
MCChanges ==
    {[name |-> "b"], [name |-> ""], [status |-> "active"], [status |-> ""], [status |-> "paused"],
     [parties |-> <<"", "q", "r">>], [parties |-> <<"q", "">>],
     [name |-> "a", metadata |-> {"k"}]}

Symmetry == Permutations(Requests) \cup Permutations(Regions)
===============================================================================
