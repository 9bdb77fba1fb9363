--------------------------- MODULE SampleSelection ---------------------------
(***************************************************************************)
(* How a sample is chosen (internal/features/sampling, BuildPreview):      *)
(* filters, a score for each document, qualitative rules that let a        *)
(* document in whatever its score, a ranking, and a limit given as a       *)
(* percentage and as a number.                                             *)
(*                                                                         *)
(* A row of a document keeps what these definitions read of it: of its     *)
(* name, which of the words the rules look for it contains.  Reasons are   *)
(* left out but for whether one of them comes from a qualitative rule.     *)
(* Documents are given in the order the query lists them, and are named    *)
(* by their place in it.                                                   *)
(***************************************************************************)
EXTENDS Integers, FiniteSets

DocumentTypes == {"contract", "financial", "report", "other"}

DocumentStatuses == {"upload_pending", "uploaded", "registered", "queued", "processing",
                     "parsed", "ocr_completed", "indexed", "failed", "deleted"}

Words == {"principal", "governance", "finance"}

QualitativeRules == {"main_contract", "governance", "financial", "unprocessed"}

\* A missing or impossible percentage means all of the documents.
NormalizeParameters(p) ==
    [percentage |-> IF p.percentage \in 1..100 THEN p.percentage ELSE 100,
     maxItems |-> IF p.maxItems < 0 THEN 0 ELSE p.maxItems,
     minScore |-> IF p.minScore < 0 THEN 0 ELSE IF p.minScore > 100 THEN 100 ELSE p.minScore,
     processedOnly |-> p.processedOnly, types |-> p.types, statuses |-> p.statuses]

\* An empty list of types or of statuses filters nothing.
MatchesFilters(d, p) ==
    /\ d.status # "deleted"
    /\ p.processedOnly => d.processed
    /\ p.types = {} \/ d.type \in p.types
    /\ p.statuses = {} \/ d.status \in p.statuses

MatchesRule(rule, d) ==
    \/ rule = "main_contract" /\ d.type = "contract" /\ "principal" \in d.words
    \/ rule = "governance" /\ "governance" \in d.words
    \/ rule = "financial" /\ (d.type = "financial" \/ "finance" \in d.words)
    \/ rule = "unprocessed" /\ ~d.processed /\ d.status \notin {"indexed", "deleted"}

ByRule(d, rules) == \E rule \in rules : MatchesRule(rule, d)

TypeWeight == [contract |-> 45, financial |-> 35, report |-> 20, other |-> 0]

StatusWeight(s) ==
    CASE s \in {"indexed", "parsed", "ocr_completed"} -> 15
      [] s \in {"queued", "processing", "uploaded"}   -> 10
      [] OTHER                                        -> 0

\* 100 at most, as the weights are.
ScoreDocument(d) ==
    20 + TypeWeight[d.type] + StatusWeight(d.status) + (IF "principal" \in d.words THEN 20 ELSE 0)

Score(d, rules) == IF ByRule(d, rules) /\ ScoreDocument(d) < 90 THEN 90 ELSE ScoreDocument(d)

SlipEligible(d, p, rules) == MatchesFilters(d, p) /\ ScoreDocument(d) >= p.minScore

Eligible(d, p, rules) ==
    /\ MatchesFilters(d, p)
    /\ Score(d, rules) >= p.minScore \/ ByRule(d, rules)

\* Strictly: a higher score, or as high and uploaded later.
Outranks(d, e, rules) ==
    \/ Score(d, rules) > Score(e, rules)
    \/ Score(d, rules) = Score(e, rules) /\ d.at > e.at

SlipPrecedes(docs, rules, i, j) == i < j

\* The sort is stable: it keeps the listing's order where it has no reason to change it.
Precedes(docs, rules, i, j) ==
    \/ Outranks(docs[i], docs[j], rules)
    \/ ~Outranks(docs[j], docs[i], rules) /\ i < j

SlipLimit(count, p) == (count * p.percentage) \div 100

\* The percentage is rounded up; the number wins when it is lower.
QuantitativeLimit(count, p) ==
    LET share == (count * p.percentage + 99) \div 100
    IN  IF p.maxItems > 0 /\ p.maxItems < share THEN p.maxItems ELSE share

Candidates(docs, p, rules) == {i \in DOMAIN docs : Eligible(docs[i], p, rules)}

Rank(docs, p, rules, i) ==
    Cardinality({j \in Candidates(docs, p, rules) : j # i /\ Precedes(docs, rules, j, i)})

\* The places of the documents of the sample.
BuildPreview(docs, input, rules) ==
    LET p == NormalizeParameters(input)
        limit == QuantitativeLimit(Cardinality(Candidates(docs, p, rules)), p)
    IN  {i \in Candidates(docs, p, rules) : Rank(docs, p, rules, i) < limit}
===============================================================================
