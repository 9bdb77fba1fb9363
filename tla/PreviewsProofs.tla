---------------------------- MODULE PreviewsProofs ----------------------------
(***************************************************************************)
(* What holds of every preview, for any documents, parameters and rules.   *)
(***************************************************************************)
EXTENDS Previews, FiniteSetTheorems, TLAPS

DocumentRows == [id : Documents, type : DocumentTypes, words : SUBSET Words,
                 status : DocumentStatuses, processed : BOOLEAN, at : Nat]

Parameters == [percentage : 1..100, maxItems : Nat, minScore : 0..100,
               processedOnly : BOOLEAN, types : SUBSET DocumentTypes,
               statuses : SUBSET DocumentStatuses]

-------------------------------------------------------------------------------
(* The choice of a sample. *)

\* Whatever people ask for, the parameters used are in range.
LEMMA NormalizedParameters ==
    ASSUME NEW input \in Inputs
    PROVE  NormalizeParameters(input) \in Parameters
<1>1. PICK a, b, c : /\ a = IF input.percentage \in 1..100 THEN input.percentage
                            ELSE 100
                     /\ b = IF input.maxItems < 0 THEN 0 ELSE input.maxItems
                     /\ c = IF input.minScore < 0 THEN 0
                            ELSE IF input.minScore > 100 THEN 100 ELSE input.minScore
  OBVIOUS
<1>2. input \in [percentage : Int, maxItems : Int, minScore : Int,
                 processedOnly : BOOLEAN, types : SUBSET DocumentTypes,
                 statuses : SUBSET DocumentStatuses]
  BY InputsAssumption DEF InputsAssumption
<1>3. a \in 1..100 /\ b \in Nat /\ c \in 0..100
  BY <1>1, <1>2
<1>4. NormalizeParameters(input) =
        [percentage |-> a, maxItems |-> b, minScore |-> c,
         processedOnly |-> input.processedOnly, types |-> input.types,
         statuses |-> input.statuses]
  BY <1>1 DEF NormalizeParameters
<1> QED BY <1>2, <1>3, <1>4 DEF Parameters

LEMMA Scores ==
    ASSUME NEW d \in DocumentRows, NEW rules
    PROVE  ScoreDocument(d) \in Int /\ Score(d, rules) \in Int
BY DEF Score, ScoreDocument, TypeWeight, StatusWeight, DocumentRows, DocumentTypes

\* The share of n documents, rounded up, and the number asked for.
LEMMA Limits ==
    ASSUME NEW n \in Nat, NEW p \in Parameters
    PROVE  /\ QuantitativeLimit(n, p) \in 0..n
           /\ n > 0 => QuantitativeLimit(n, p) > 0
           /\ p.maxItems > 0 => QuantitativeLimit(n, p) <= p.maxItems
<1>1. PICK share \in 1..100 : share = p.percentage
  BY DEF Parameters
<1>2. PICK max \in Nat : max = p.maxItems
  BY DEF Parameters
<1>3. n * share \in Nat /\ n * share <= 100 * n /\ n <= n * share
  BY <1>1
<1>4. PICK m \in Nat : m = n * share
  BY <1>3
<1>5. (m + 99) \div 100 \in 0..n /\ (n > 0 => (m + 99) \div 100 > 0)
  BY <1>3, <1>4
<1>6. PICK q \in 0..n : q = (m + 99) \div 100 /\ (n > 0 => q > 0)
  BY <1>5
<1>7. QuantitativeLimit(n, p) = IF max > 0 /\ max < q THEN max ELSE q
  BY <1>1, <1>2, <1>4, <1>6 DEF QuantitativeLimit
<1> QED BY <1>2, <1>6, <1>7

LEMMA Order ==
    ASSUME NEW n \in Nat, NEW docs \in [1..n -> DocumentRows], NEW rules,
           NEW i \in 1..n, NEW j \in 1..n, NEW k \in 1..n
    PROVE  /\ Precedes(docs, rules, k, j) /\ Precedes(docs, rules, j, i)
                => Precedes(docs, rules, k, i)
           /\ Precedes(docs, rules, j, i) /\ j # i => ~Precedes(docs, rules, i, j)
           /\ i # j => Precedes(docs, rules, i, j) \/ Precedes(docs, rules, j, i)
<1>1. PICK a \in Int, b \in Int, c \in Int :
        a = Score(docs[i], rules) /\ b = Score(docs[j], rules) /\ c = Score(docs[k], rules)
  BY Scores
<1>2. PICK x \in Nat, y \in Nat, z \in Nat : x = docs[i].at /\ y = docs[j].at /\ z = docs[k].at
  BY DEF DocumentRows
<1>3. /\ Precedes(docs, rules, k, j) <=> c > b \/ (c = b /\ (z > y \/ (z = y /\ k < j)))
      /\ Precedes(docs, rules, j, i) <=> b > a \/ (b = a /\ (y > x \/ (y = x /\ j < i)))
      /\ Precedes(docs, rules, k, i) <=> c > a \/ (c = a /\ (z > x \/ (z = x /\ k < i)))
      /\ Precedes(docs, rules, i, j) <=> a > b \/ (a = b /\ (x > y \/ (x = y /\ i < j)))
  <2>1. Precedes(docs, rules, k, j) <=> c > b \/ (c = b /\ (z > y \/ (z = y /\ k < j)))
    BY <1>1, <1>2 DEF Precedes, Outranks
  <2>2. Precedes(docs, rules, j, i) <=> b > a \/ (b = a /\ (y > x \/ (y = x /\ j < i)))
    BY <1>1, <1>2 DEF Precedes, Outranks
  <2>3. Precedes(docs, rules, k, i) <=> c > a \/ (c = a /\ (z > x \/ (z = x /\ k < i)))
    BY <1>1, <1>2 DEF Precedes, Outranks
  <2>4. Precedes(docs, rules, i, j) <=> a > b \/ (a = b /\ (x > y \/ (x = y /\ i < j)))
    BY <1>1, <1>2 DEF Precedes, Outranks
  <2> QED BY <2>1, <2>2, <2>3, <2>4
<1>4. Precedes(docs, rules, k, j) /\ Precedes(docs, rules, j, i) => Precedes(docs, rules, k, i)
  BY <1>3
<1>5. Precedes(docs, rules, j, i) /\ j # i => ~Precedes(docs, rules, i, j)
  BY <1>3
<1>6. i # j => Precedes(docs, rules, i, j) \/ Precedes(docs, rules, j, i)
  BY <1>3
<1> QED BY <1>4, <1>5, <1>6

\* One that precedes another has fewer before it.
LEMMA Ranks ==
    ASSUME NEW n \in Nat, NEW docs \in [1..n -> DocumentRows], NEW rules, NEW p,
           NEW i \in Candidates(docs, p, rules), NEW j \in Candidates(docs, p, rules),
           j # i, Precedes(docs, rules, j, i)
    PROVE  /\ Rank(docs, p, rules, j) \in Nat /\ Rank(docs, p, rules, i) \in Nat
           /\ Rank(docs, p, rules, j) < Rank(docs, p, rules, i)
<1> DEFINE C == Candidates(docs, p, rules)
           Before(m) == {k \in C : k # m /\ Precedes(docs, rules, k, m)}
<1>1. C \subseteq 1..n
  BY DEF Candidates
<1>2. IsFiniteSet(C)
  BY <1>1, FS_Interval, FS_Subset
<1>3. Before(j) \subseteq Before(i) /\ j \in Before(i) /\ j \notin Before(j)
  <2>1. j \in Before(i) /\ j \notin Before(j)
    OBVIOUS
  <2>2. ASSUME NEW k \in Before(j) PROVE k \in Before(i)
    BY <1>1, <2>2, Order
  <2> QED BY <2>1, <2>2
<1>4. IsFiniteSet(Before(i)) /\ IsFiniteSet(Before(j))
  BY <1>2, FS_Subset
<1>5. Cardinality(Before(j)) <= Cardinality(Before(i)) /\ Cardinality(Before(j)) # Cardinality(Before(i))
  <2> HIDE DEF Before
  <2> QED BY <1>3, <1>4, FS_Subset
<1>6. Cardinality(Before(j)) \in Nat /\ Cardinality(Before(i)) \in Nat
  BY <1>4, FS_CardinalityType
<1> QED BY <1>5, <1>6 DEF Rank

\* Who is left out does not precede anyone who is chosen.
LEMMA LeftOut ==
    ASSUME NEW n \in Nat, NEW docs \in [1..n -> DocumentRows], NEW rules, NEW input \in Inputs,
           NEW i \in BuildPreview(docs, input, rules), NEW j \in 1..n,
           j \notin BuildPreview(docs, input, rules),
           Eligible(docs[j], NormalizeParameters(input), rules)
    PROVE  ~Outranks(docs[j], docs[i], rules)
<1> SUFFICES ASSUME Outranks(docs[j], docs[i], rules) PROVE FALSE
  OBVIOUS
<1>1. PICK p \in Parameters : p = NormalizeParameters(input)
  BY NormalizedParameters
<1>2. PICK limit : limit = QuantitativeLimit(Cardinality(Candidates(docs, p, rules)), p)
  OBVIOUS
<1>3. BuildPreview(docs, input, rules) =
        {k \in Candidates(docs, p, rules) : Rank(docs, p, rules, k) < limit}
  BY <1>1, <1>2 DEF BuildPreview
<1>4. i \in Candidates(docs, p, rules) /\ j \in Candidates(docs, p, rules) /\ i # j
  BY <1>1, <1>3 DEF Candidates
<1>5. Precedes(docs, rules, j, i)
  BY DEF Precedes
<1>6. Candidates(docs, p, rules) \subseteq 1..n
  BY DEF Candidates
<1>7. IsFiniteSet(Candidates(docs, p, rules))
  BY <1>6, FS_Interval, FS_Subset
<1>8. limit \in Int
  BY <1>2, <1>7, FS_CardinalityType, Limits
<1>9. /\ Rank(docs, p, rules, j) \in Nat /\ Rank(docs, p, rules, i) \in Nat
      /\ Rank(docs, p, rules, j) < Rank(docs, p, rules, i)
  BY <1>4, <1>5, Ranks
<1> QED BY <1>3, <1>4, <1>8, <1>9

\* The ranks of n documents are 0 .. n-1, each once, so as many are chosen as the limit says.
LEMMA Chosen ==
    ASSUME NEW n \in Nat, NEW docs \in [1..n -> DocumentRows], NEW rules, NEW input \in Inputs
    PROVE  LET p == NormalizeParameters(input)
               limit == QuantitativeLimit(Cardinality(Candidates(docs, p, rules)), p)
           IN  /\ IsFiniteSet(BuildPreview(docs, input, rules))
               /\ Cardinality(BuildPreview(docs, input, rules)) = limit
<1>1. PICK p \in Parameters : p = NormalizeParameters(input)
  BY NormalizedParameters
<1>2. PICK limit : limit = QuantitativeLimit(Cardinality(Candidates(docs, p, rules)), p)
  OBVIOUS
<1>3. Candidates(docs, p, rules) \subseteq 1..n
  BY DEF Candidates
<1>4. IsFiniteSet(Candidates(docs, p, rules))
  BY <1>3, FS_Interval, FS_Subset
<1>5. limit \in Nat
  BY <1>2, <1>4, FS_CardinalityType, Limits
<1>6. PICK S : S = BuildPreview(docs, input, rules)
  OBVIOUS
<1>7. S = {k \in Candidates(docs, p, rules) : Rank(docs, p, rules, k) < limit}
  BY <1>1, <1>2, <1>6 DEF BuildPreview
<1> DEFINE C == Candidates(docs, p, rules)
           R(i) == Rank(docs, p, rules, i)
           N == Cardinality(C)
<1>8. N \in Nat /\ limit \in 0..N
  BY <1>2, <1>4, FS_CardinalityType, Limits
<1>9. \A i \in C : R(i) \in 0..(N - 1)
  <2> TAKE i \in C
  <2>1. PICK B : B = {j \in C : j # i /\ Precedes(docs, rules, j, i)}
    OBVIOUS
  <2>2. B \subseteq C \ {i}
    BY <2>1
  <2>3. IsFiniteSet(C \ {i}) /\ Cardinality(C \ {i}) = N - 1
    BY <1>4, FS_RemoveElement
  <2>4. IsFiniteSet(B) /\ Cardinality(B) <= N - 1 /\ Cardinality(B) \in Nat
    BY <2>2, <2>3, FS_Subset, FS_CardinalityType
  <2>5. R(i) = Cardinality(B)
    BY <2>1 DEF Rank
  <2> QED BY <1>8, <2>4, <2>5
<1>10. \A i, j \in C : i # j => R(i) # R(j)
  <2> TAKE i, j \in C
  <2> HAVE i # j
  <2>1. CASE Precedes(docs, rules, i, j)
    BY <2>1, Ranks
  <2>2. CASE Precedes(docs, rules, j, i)
    BY <2>2, Ranks
  <2> QED BY <2>1, <2>2, <1>3, Order
<1>11. S = {i \in C : R(i) < limit}
  BY <1>7
<1>12. IsFiniteSet(C) /\ N = Cardinality(C)
  BY <1>4
<1> HIDE DEF C, R, N
<1>13. PICK f : f = [i \in C |-> R(i)]
  OBVIOUS
<1>14. f \in Injection(C, 0..(N - 1))
  BY <1>9, <1>10, <1>13 DEF Injection, IsInjective
<1>15. IsFiniteSet(0..(N - 1)) /\ Cardinality(0..(N - 1)) = N
  BY <1>8, FS_Interval
<1>16. f \in Surjection(C, 0..(N - 1))
  BY <1>12, <1>14, <1>15, FS_Injection
<1>17. PICK g : g = [i \in S |-> R(i)]
  OBVIOUS
<1>18. g \in Injection(S, 0..(limit - 1))
  BY <1>5, <1>9, <1>10, <1>11, <1>17 DEF Injection, IsInjective
<1>19. \A m \in 0..(limit - 1) : \E i \in S : g[i] = m
  <2> TAKE m \in 0..(limit - 1)
  <2>1. m \in 0..(N - 1) /\ m < limit
    BY <1>8
  <2>2. PICK i \in C : f[i] = m
    BY <1>16, <2>1 DEF Surjection
  <2> QED BY <2>1, <2>2, <1>11, <1>13, <1>17
<1>20. g \in Surjection(S, 0..(limit - 1))
  BY <1>18, <1>19 DEF Surjection, Injection
<1>21. IsFiniteSet(0..(limit - 1)) /\ Cardinality(0..(limit - 1)) = limit
  BY <1>5, FS_Interval
<1>22. IsFiniteSet(S) /\ Cardinality(S) = limit
  BY <1>18, <1>20, <1>21, FS_Injection
<1> QED BY <1>1, <1>2, <1>6, <1>22

-------------------------------------------------------------------------------
(* Previews. *)

Answered ==
    /\ IsFiniteSet(DOMAIN rows)
    /\ \A d \in DOMAIN rows : rows[d] \in DocumentRows
    /\ preview # NoPreview =>
         /\ \E n \in Nat : preview.docs \in [1..n -> DocumentRows]
         /\ preview.input \in Inputs
         /\ preview.sample = BuildPreview(preview.docs, preview.input, preview.rules)

LEMMA AnsweredStep == ASSUME Answered, [Next]_vars PROVE Answered'
<1>1. ASSUME NEW d \in Documents, Register(d) PROVE Answered'
  <2>1. PICK kind \in Kinds, stage \in Stages, at \in Times :
          rows' = [e \in DOMAIN rows \cup {d} |->
                     IF e = d THEN Row(d, kind, stage, at) ELSE rows[e]]
    BY <1>1 DEF Register
  <2>2. Row(d, kind, stage, at) \in DocumentRows
    BY InputsAssumption DEF InputsAssumption, Row, DocumentRows
  <2>3. DOMAIN rows' = DOMAIN rows \cup {d} /\ \A e \in DOMAIN rows' : rows'[e] \in DocumentRows
    BY <2>1, <2>2 DEF Answered
  <2>4. IsFiniteSet(DOMAIN rows')
    BY <2>3, FS_AddElement DEF Answered
  <2> QED BY <1>1, <2>3, <2>4 DEF Answered, Register
<1>2. ASSUME NEW d \in Documents, Advance(d) PROVE Answered'
  <2>1. PICK stage \in Stages :
          rows' = [rows EXCEPT ![d].status = stage.status, ![d].processed = stage.processed]
    BY <1>2 DEF Advance
  <2>2. \A e \in DOMAIN rows : rows'[e] \in DocumentRows
    <3> TAKE e \in DOMAIN rows
    <3>1. stage.status \in DocumentStatuses /\ stage.processed \in BOOLEAN
      BY InputsAssumption DEF InputsAssumption
    <3>2. rows[e] \in DocumentRows /\ rows'[e] \in
            {rows[e], [rows[e] EXCEPT !.status = stage.status, !.processed = stage.processed]}
      BY <2>1 DEF Answered
    <3> QED BY <3>1, <3>2 DEF DocumentRows
  <2>3. DOMAIN rows' = DOMAIN rows
    BY <2>1
  <2> QED BY <1>2, <2>2, <2>3 DEF Answered, Advance
<1>3. ASSUME NEW d \in Documents, Remove(d) PROVE Answered'
  <2>1. rows' = [e \in DOMAIN rows \ {d} |-> rows[e]]
    BY <1>3 DEF Remove, Restrict
  <2>2. IsFiniteSet(DOMAIN rows')
    BY <2>1, FS_RemoveElement DEF Answered
  <2> QED BY <1>3, <2>1, <2>2 DEF Answered, Remove
<1>4. ASSUME NEW input \in Inputs, NEW rules \in RuleChoices, Preview(input, rules)
      PROVE  Answered'
  <2>1. PICK docs \in FindByJVID :
          preview' = [docs |-> docs, input |-> input, rules |-> rules,
                      sample |-> BuildPreview(docs, input, rules)]
    BY <1>4 DEF Preview
  <2>2. PICK n \in Nat : n = Cardinality(DOMAIN rows)
    BY FS_CardinalityType DEF Answered
  <2>3. Range(rows) \subseteq DocumentRows
    BY DEF Answered, Range
  <2>4. docs \in [1..n -> DocumentRows]
    BY <2>2, <2>3 DEF FindByJVID
  <2> QED BY <1>4, <2>1, <2>4 DEF Answered, Preview
<1>5. CASE UNCHANGED vars
  BY <1>5 DEF vars, Answered
<1> QED BY <1>1, <1>2, <1>3, <1>4, <1>5 DEF Next

LEMMA AlwaysAnswered == Spec => []Answered
<1>1. ASSUME Init PROVE Answered
  <2>1. DOMAIN rows = {}
    BY <1>1 DEF Init
  <2> QED BY <1>1, <2>1, FS_EmptySet DEF Init, Answered
<1> QED BY <1>1, AnsweredStep, PTL DEF Spec

\* No preview leaves out a document that qualifies for one that ranks lower.
THEOREM PreviewsTakeTheTop == Spec => []TakesTheTop
<1>1. ASSUME Answered PROVE TakesTheTop
  <2> SUFFICES ASSUME preview # NoPreview, NEW i \in preview.sample,
                      NEW j \in Filtered \ preview.sample,
                      Outranks(preview.docs[j], preview.docs[i], preview.rules)
               PROVE  Score(preview.docs[j], preview.rules)
                        < NormalizeParameters(preview.input).minScore
    BY DEF TakesTheTop
  <2>1. PICK n \in Nat : preview.docs \in [1..n -> DocumentRows]
    BY <1>1 DEF Answered
  <2>2. j \in 1..n
    BY <2>1 DEF Filtered
  <2>3. ~Eligible(preview.docs[j], NormalizeParameters(preview.input), preview.rules)
    BY <1>1, <2>1, <2>2, LeftOut DEF Answered
  <2>4. ~(Score(preview.docs[j], preview.rules) >= NormalizeParameters(preview.input).minScore)
    BY <2>3 DEF Eligible, Filtered
  <2>5. Score(preview.docs[j], preview.rules) \in Int
    BY <2>1, <2>2, Scores
  <2>6. PICK p \in Parameters : p = NormalizeParameters(preview.input)
    BY <1>1, NormalizedParameters DEF Answered
  <2>7. p.minScore \in Int
    BY DEF Parameters
  <2> QED BY <2>4, <2>5, <2>6, <2>7
<1> QED BY <1>1, AlwaysAnswered, PTL

\* A document that a rule matches is passed over only for documents of score 90 or more.
THEOREM RulesPrevail == Spec => []RulesGiveWayToTheBest
<1>1. ASSUME Answered PROVE RulesGiveWayToTheBest
  <2> SUFFICES ASSUME preview # NoPreview, NEW i \in preview.sample,
                      NEW j \in Filtered \ preview.sample,
                      ByRule(preview.docs[j], preview.rules)
               PROVE  Score(preview.docs[i], preview.rules) >= 90
    BY DEF RulesGiveWayToTheBest
  <2>1. PICK n \in Nat : preview.docs \in [1..n -> DocumentRows]
    BY <1>1 DEF Answered
  <2>2. j \in 1..n /\ i \in 1..n
    BY <1>1, <2>1 DEF Filtered, Answered, BuildPreview, Candidates
  <2>3. Eligible(preview.docs[j], NormalizeParameters(preview.input), preview.rules)
    BY DEF Eligible, Filtered
  <2>4. ~Outranks(preview.docs[j], preview.docs[i], preview.rules)
    BY <1>1, <2>1, <2>2, <2>3, LeftOut DEF Answered
  <2>5. Score(preview.docs[j], preview.rules) \in Int /\ Score(preview.docs[i], preview.rules) \in Int
    BY <2>1, <2>2, Scores
  <2>6. ScoreDocument(preview.docs[j]) \in Int
    BY <2>1, <2>2, Scores
  <2>7. Score(preview.docs[j], preview.rules) >= 90
    BY <2>6 DEF Score
  <2> QED BY <2>4, <2>5, <2>7 DEF Outranks
<1> QED BY <1>1, AlwaysAnswered, PTL

\* A preview has exactly as many documents as its share and its number allow.
THEOREM WithinLimits == Spec => []KeepsToItsLimits
<1>1. ASSUME Answered PROVE KeepsToItsLimits
  <2> SUFFICES ASSUME preview # NoPreview
               PROVE  LET p == NormalizeParameters(preview.input)
                          fit == Cardinality(Candidates(preview.docs, p, preview.rules))
                          chosen == Cardinality(preview.sample)
                      IN  /\ chosen = 0 <=> fit = 0
                          /\ p.maxItems > 0 => chosen <= p.maxItems
                          /\ 100 * (chosen - 1) < fit * p.percentage
                          /\ p.maxItems = 0 \/ chosen < p.maxItems
                               => 100 * chosen >= fit * p.percentage
    BY DEF KeepsToItsLimits
  <2>1. PICK n \in Nat : preview.docs \in [1..n -> DocumentRows]
    BY <1>1 DEF Answered
  <2>2. PICK p \in Parameters : p = NormalizeParameters(preview.input)
    BY <1>1, NormalizedParameters DEF Answered
  <2>3. PICK C : C = Candidates(preview.docs, p, preview.rules)
    OBVIOUS
  <2>4. C \subseteq 1..n
    BY <2>1, <2>3 DEF Candidates
  <2>5. IsFiniteSet(C)
    <3>1. IsFiniteSet(1..n)
      BY FS_Interval
    <3> QED BY <2>4, <3>1, FS_Subset
  <2>6. PICK fit \in Nat : fit = Cardinality(C)
    BY <2>5, FS_CardinalityType
  <2>7. PICK chosen : chosen = Cardinality(preview.sample)
    OBVIOUS
  <2>8. chosen = QuantitativeLimit(fit, p)
    BY <1>1, <2>1, <2>2, <2>3, <2>6, <2>7, Chosen DEF Answered
  <2>9. PICK share \in 1..100, max \in Nat : share = p.percentage /\ max = p.maxItems
    BY DEF Parameters
  <2>10. PICK m \in Nat : m = fit * share
    BY <2>9
  <2>11. PICK q \in Nat : q = (m + 99) \div 100
    OBVIOUS
  <2>12. 100 * (q - 1) < m /\ 100 * q >= m
    BY <2>11
  <2>13. chosen = IF max > 0 /\ max < q THEN max ELSE q
    BY <2>8, <2>9, <2>10, <2>11 DEF QuantitativeLimit
  <2>14. fit = 0 <=> m = 0
    BY <2>9, <2>10
  <2>15. /\ chosen = 0 <=> fit = 0
         /\ max > 0 => chosen <= max
         /\ 100 * (chosen - 1) < m
         /\ max = 0 \/ chosen < max => 100 * chosen >= m
    BY <2>12, <2>13, <2>14
  <2> QED BY <2>2, <2>3, <2>6, <2>7, <2>9, <2>10, <2>15
<1> QED BY <1>1, AlwaysAnswered, PTL
===============================================================================
