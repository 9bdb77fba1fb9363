------------------------------ MODULE MCPreviews ------------------------------
(* Instances of Previews for TLC. *)
EXTENDS Previews, TLC

MCKinds == {[type |-> "contract", words |-> {"principal"}],
            [type |-> "financial", words |-> {}],
            [type |-> "other", words |-> {"governance"}],
            [type |-> "other", words |-> {}]}

MCStages == {[status |-> "queued", processed |-> FALSE],
             [status |-> "parsed", processed |-> TRUE]}

Ask(percentage, maxItems, minScore, processedOnly) ==
    [percentage |-> percentage, maxItems |-> maxItems, minScore |-> minScore,
     processedOnly |-> processedOnly, types |-> {}, statuses |-> {}]

\* Shares that round up, shares out of range, and each other parameter on its own.
MCInputs ==
    {Ask(share, 0, 0, FALSE) : share \in {1, 34, 100}}
    \cup {Ask(0, -1, -5, FALSE), Ask(34, 0, 60, TRUE), Ask(34, 0, 120, FALSE), Ask(100, 2, 60, FALSE)}
    \cup {[Ask(50, 0, 0, FALSE) EXCEPT !.types = {"contract", "other"}, !.statuses = {"queued"}]}

MCRuleChoices == {{}, {"governance"}, {"main_contract", "financial"}, {"unprocessed"}}

Symmetry == Permutations(Documents)
===============================================================================
