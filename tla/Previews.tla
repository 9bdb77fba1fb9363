------------------------------- MODULE Previews -------------------------------
(***************************************************************************)
(* Previews of a sample (internal/features/sampling, PreviewUseCase): the  *)
(* documents of a joint venture come, move on and go, and people ask which *)
(* of them a choice of parameters and rules would select.  The preview     *)
(* reads the documents in one query and changes nothing.                   *)
(*                                                                         *)
(* An operator whose name starts with Slip, here and in SampleSelection,   *)
(* is a plausible mistake in the definition below it.                      *)
(***************************************************************************)
EXTENDS SampleSelection, Sequences, Functions

CONSTANTS
    Documents,
    Kinds,       \* [type, words] a document may be registered with
    Stages,      \* [status, processed] a document may be in
    Times,       \* of uploading
    Inputs,      \* parameters as people give them
    RuleChoices, \* sets of qualitative rules
    NoPreview

ASSUME InputsAssumption ==
    /\ Kinds \subseteq [type : DocumentTypes, words : SUBSET Words]
    /\ Stages \subseteq [status : DocumentStatuses, processed : BOOLEAN]
    /\ Times \subseteq Nat
    /\ Inputs \subseteq [percentage : Int, maxItems : Int, minScore : Int,
                         processedOnly : BOOLEAN, types : SUBSET DocumentTypes,
                         statuses : SUBSET DocumentStatuses]
    /\ RuleChoices \subseteq SUBSET QualitativeRules

VARIABLES
    rows,     \* of the documents there are
    preview   \* the last answer, while nothing has happened since

vars == <<rows, preview>>

Row(d, kind, stage, at) ==
    [id |-> d, type |-> kind.type, words |-> kind.words,
     status |-> stage.status, processed |-> stage.processed, at |-> at]

Register(d) ==
    /\ d \notin DOMAIN rows
    /\ \E kind \in Kinds, stage \in Stages, at \in Times :
         rows' = [e \in DOMAIN rows \cup {d} |->
                    IF e = d THEN Row(d, kind, stage, at) ELSE rows[e]]
    /\ preview' = NoPreview

\* Its processing goes on, or is done again.
Advance(d) ==
    /\ d \in DOMAIN rows
    /\ \E stage \in Stages :
         rows' = [rows EXCEPT ![d].status = stage.status, ![d].processed = stage.processed]
    /\ preview' = NoPreview

Remove(d) ==
    /\ d \in DOMAIN rows
    /\ rows' = Restrict(rows, DOMAIN rows \ {d})
    /\ preview' = NoPreview

\* ORDER BY uploaded_at DESC says nothing of documents uploaded at once.
FindByJVID ==
    {s \in [1..Cardinality(DOMAIN rows) -> Range(rows)] :
        /\ IsInjective(s)
        /\ \A i, j \in DOMAIN s : i < j => s[i].at >= s[j].at}

Preview(input, rules) ==
    /\ preview = NoPreview
    /\ \E docs \in FindByJVID :
         preview' = [docs |-> docs, input |-> input, rules |-> rules,
                     sample |-> BuildPreview(docs, input, rules)]
    /\ UNCHANGED rows

Init == rows = <<>> /\ preview = NoPreview

Next ==
    \/ \E d \in Documents : Register(d) \/ Advance(d) \/ Remove(d)
    \/ \E input \in Inputs, rules \in RuleChoices : Preview(input, rules)

Spec == Init /\ [][Next]_vars

-------------------------------------------------------------------------------

\* What the sample of the last preview had to choose from.
Filtered == {i \in DOMAIN preview.docs :
    MatchesFilters(preview.docs[i], NormalizeParameters(preview.input))}

\* A document outside the sample does not outrank one inside it, unless a filter or the
\* minimum score keeps it out.
TakesTheTop == preview # NoPreview =>
    \A i \in preview.sample, j \in Filtered \ preview.sample :
        Outranks(preview.docs[j], preview.docs[i], preview.rules)
        => Score(preview.docs[j], preview.rules) < NormalizeParameters(preview.input).minScore

\* Whatever the minimum score, a document that a chosen rule matches gives way to nothing
\* but documents that score 90 or more.
RulesGiveWayToTheBest == preview # NoPreview =>
    \A i \in preview.sample, j \in Filtered \ preview.sample :
        ByRule(preview.docs[j], preview.rules) => Score(preview.docs[i], preview.rules) >= 90

\* A sample is empty only when no document qualifies; it keeps to the number asked for; and
\* it has the share asked for of the documents that qualify, rounded up, where that is less.
KeepsToItsLimits == preview # NoPreview =>
    LET p == NormalizeParameters(preview.input)
        fit == Cardinality(Candidates(preview.docs, p, preview.rules))
        chosen == Cardinality(preview.sample)
    IN  /\ chosen = 0 <=> fit = 0
        /\ p.maxItems > 0 => chosen <= p.maxItems
        /\ 100 * (chosen - 1) < fit * p.percentage
        /\ p.maxItems = 0 \/ chosen < p.maxItems => 100 * chosen >= fit * p.percentage
===============================================================================
