---------------------------- MODULE SamplingProofs ----------------------------
(***************************************************************************)
(* What holds of rule sets and runs, for any number of ventures, documents *)
(* and requests and whatever the clocks say.                               *)
(***************************************************************************)
EXTENDS Sampling, TLAPS

-------------------------------------------------------------------------------
(* Types. *)

LEMMA SampleInVenture ==
    ASSUME NEW j, NEW listing \in Listings(j), NEW c
    PROVE  /\ Sample(listing, c) \subseteq documents
           /\ \A d \in Sample(listing, c) : VentureOf[d] = j
<1> DEFINE present == {d \in documents : VentureOf[d] = j}
           rows == [m \in DOMAIN listing |-> RowOf[listing[m]]]
<1>1. listing \in [1..Cardinality(present) -> present]
  BY DEF Listings
<1>2. BuildPreview(rows, c.parameters, c.rules) \subseteq DOMAIN rows
  BY DEF BuildPreview, Candidates
<1>3. Sample(listing, c) = {listing[n] : n \in BuildPreview(rows, c.parameters, c.rules)}
  BY DEF Sample
<1>4. DOMAIN rows = DOMAIN listing /\ DOMAIN listing = 1..Cardinality(present)
  BY <1>1
<1>5. ASSUME NEW d \in Sample(listing, c) PROVE d \in present
  <2> HIDE DEF rows, present
  <2>1. PICK n \in BuildPreview(rows, c.parameters, c.rules) : d = listing[n]
    BY <1>3
  <2>2. n \in 1..Cardinality(present)
    BY <1>2, <1>4
  <2> QED BY <2>1, <2>2, <1>1
<1> QED BY <1>5

RuleSetRow ==
    [pc : {"none", "begun", "found", "deactivated", "inserted", "saved", "gone"},
     venture : Ventures \cup {None}, setting : Settings \cup {None},
     at : Stamps \cup {0}, active : BOOLEAN, found : SUBSET RuleSets]

RunRow ==
    [pc : {"none", "begun", "resolved", "selected", "inserted", "saved", "gone"},
     venture : Ventures \cup {None}, ruleSet : RuleSets \cup {None}, named : BOOLEAN,
     sample : SUBSET Documents, items : SUBSET Documents, retired : SUBSET RuleSets]

LEMMA Rows == TypeOK <=>
    /\ ventures \subseteq Ventures
    /\ deleting \subseteq ventures
    /\ documents \subseteq Documents
    /\ ruleSets \in [RuleSets -> RuleSetRow]
    /\ runs \in [Runs -> RunRow]
BY DEF TypeOK, RuleSetRow, RunRow

LEMMA NewRows ==
    ASSUME ventures' \subseteq Ventures, deleting' \subseteq ventures',
           documents' \subseteq Documents,
           ruleSets' \in [RuleSets -> RuleSetRow], runs' \in [Runs -> RunRow]
    PROVE  TypeOK'
BY DEF TypeOK, RuleSetRow, RunRow

LEMMA RowUpdates ==
    /\ \A row \in RuleSetRow : \A f \in SUBSET RuleSets :
         [row EXCEPT !.pc = "found", !.found = f] \in RuleSetRow
    /\ \A row \in RuleSetRow : \A pc \in {"deactivated", "inserted"} :
         [row EXCEPT !.pc = pc] \in RuleSetRow
    /\ \A row \in RuleSetRow : [row EXCEPT !.pc = "saved", !.active = TRUE] \in RuleSetRow
    /\ \A row \in RuleSetRow : [row EXCEPT !.active = FALSE] \in RuleSetRow
    /\ \A row \in RuleSetRow : \A f \in SUBSET RuleSets :
         [row EXCEPT !.found = f] \in RuleSetRow
    /\ [NoRuleSet EXCEPT !.pc = "gone"] \in RuleSetRow
BY DEF RuleSetRow, NoRuleSet

LEMMA RunUpdates ==
    /\ \A row \in RunRow : \A pc \in {"inserted", "saved"} : [row EXCEPT !.pc = pc] \in RunRow
    /\ \A row \in RunRow : \A s \in RuleSets :
         [row EXCEPT !.pc = "resolved", !.ruleSet = s] \in RunRow
    /\ \A row \in RunRow : \A d \in SUBSET Documents :
         /\ [row EXCEPT !.pc = "selected", !.sample = d] \in RunRow
         /\ [row EXCEPT !.items = d] \in RunRow
    /\ [NoRun EXCEPT !.pc = "gone"] \in RunRow
BY DEF RunRow, NoRun

LEMMA TypeInit == ASSUME Init PROVE TypeOK
BY DEF Init, TypeOK, NoRuleSet, NoRun

LEMMA TypeRuleSets ==
    ASSUME ConstantsAssumption, TypeOK, NEW s \in RuleSets,
           CreateRuleSet(s) \/ SaveRuleSet(s) \/ AbandonRuleSet(s)
    PROVE  TypeOK'
<1> USE Rows, NewRows
<1>0. ruleSets[s] \in RuleSetRow
  OBVIOUS
<1>1. CASE CreateRuleSet(s)
  BY <1>1 DEF CreateRuleSet, RuleSetRow
<1>2. CASE FindPreviousSets(s)
  <2>1. Saved(ruleSets[s].venture) \in SUBSET RuleSets
    BY DEF Saved
  <2>2. [ruleSets[s] EXCEPT !.pc = "found", !.found = Saved(ruleSets[s].venture)] \in RuleSetRow
    BY <1>0, <2>1, RowUpdates
  <2> QED BY <1>2, <2>2 DEF FindPreviousSets
<1>3. CASE DeactivatePreviousSets(s)
  BY <1>0, <1>3, RowUpdates DEF DeactivatePreviousSets
<1>4. CASE InsertRuleSet(s)
  BY <1>0, <1>4, RowUpdates DEF InsertRuleSet
<1>5. CASE CommitRuleSet(s)
  BY <1>0, <1>5, RowUpdates DEF CommitRuleSet
<1>6. CASE AbandonRuleSet(s)
  BY <1>6, RowUpdates DEF AbandonRuleSet
<1> QED BY <1>1, <1>2, <1>3, <1>4, <1>5, <1>6 DEF SaveRuleSet

LEMMA TypeRuns ==
    ASSUME ConstantsAssumption, TypeOK, NEW r \in Runs,
           CreateRun(r) \/ MakeRun(r) \/ AbandonRun(r)
    PROVE  TypeOK'
<1> USE Rows, NewRows
<1>0. runs[r] \in RunRow
  OBVIOUS
<1>1. CASE CreateRun(r)
  <2>1. PICK j \in Ventures, s \in RuleSets \cup {None} :
           runs' = [runs EXCEPT ![r] =
             [pc |-> "begun", venture |-> j, ruleSet |-> s, named |-> s # None,
              sample |-> {}, items |-> {}, retired |-> Saved(j) \ ActiveSets(j)]]
    BY <1>1 DEF CreateRun
  <2>2. Saved(j) \ ActiveSets(j) \in SUBSET RuleSets
    BY DEF Saved
  <2>3. [pc |-> "begun", venture |-> j, ruleSet |-> s, named |-> s # None,
         sample |-> {}, items |-> {}, retired |-> Saved(j) \ ActiveSets(j)] \in RunRow
    BY <2>2 DEF RunRow
  <2> QED BY <1>1, <2>1, <2>3 DEF CreateRun
<1>2. CASE ResolveRuleSet(r)
  <2>1. PICK s \in RuleSets : runs' = [runs EXCEPT ![r].pc = "resolved", ![r].ruleSet = s]
    BY <1>2 DEF ResolveRuleSet, FindNamedRuleSet, FindActiveRuleSet, Saved, ActiveSets
  <2> QED BY <1>0, <1>2, <2>1, RunUpdates DEF ResolveRuleSet
<1>3. CASE SelectDocuments(r)
  <2>1. PICK listing \in Listings(runs[r].venture) :
           runs' = [runs EXCEPT ![r].pc = "selected",
                      ![r].sample = Sample(listing, ruleSets[runs[r].ruleSet].setting)]
    BY <1>3 DEF SelectDocuments
  <2>2. Sample(listing, ruleSets[runs[r].ruleSet].setting) \in SUBSET Documents
    BY SampleInVenture, Rows
  <2> QED BY <1>0, <1>3, <2>1, <2>2, RunUpdates DEF SelectDocuments
<1>4. CASE InsertRun(r)
  BY <1>0, <1>4, RunUpdates DEF InsertRun
<1>5. CASE InsertItem(r)
  <2>1. PICK d \in (runs[r].sample \ runs[r].items) \cap documents :
           runs' = [runs EXCEPT ![r].items = @ \cup {d}]
    BY <1>5 DEF InsertItem
  <2>2. runs[r].items \cup {d} \in SUBSET Documents
    BY <1>0, <2>1 DEF RunRow
  <2> QED BY <1>0, <1>5, <2>1, <2>2, RunUpdates DEF InsertItem
<1>6. CASE CommitRun(r)
  BY <1>0, <1>6, RunUpdates DEF CommitRun
<1>7. CASE AbandonRun(r)
  BY <1>7, RunUpdates DEF AbandonRun
<1> QED BY <1>1, <1>2, <1>3, <1>4, <1>5, <1>6, <1>7 DEF MakeRun

Deletions == \E j \in Ventures :
    BeginDeleteVenture(j) \/ FinishDeleteVenture(j) \/ AbandonDeletion(j)

Changes == \E d \in Documents : Register(d) \/ DeleteDocument(d)

LEMMA NextCases ==
    ASSUME Next
    PROVE  \/ \E s \in RuleSets : CreateRuleSet(s) \/ SaveRuleSet(s) \/ AbandonRuleSet(s)
           \/ \E r \in Runs : CreateRun(r) \/ MakeRun(r) \/ AbandonRun(r)
           \/ Changes
           \/ Deletions
BY DEF Next, BreakDeadlock, Changes, Deletions

LEMMA TypeOthers == ASSUME TypeOK, Changes \/ Deletions PROVE TypeOK'
<1> USE Rows, NewRows
<1>1. ASSUME NEW d \in Documents, Register(d) PROVE TypeOK'
  BY <1>1 DEF Register
<1>2. ASSUME NEW d \in Documents, DeleteDocument(d) PROVE TypeOK'
  <2>1. \A r \in Runs : WithoutItem(runs[r], d) \in RunRow
    <3> TAKE r \in Runs
    <3>1. runs[r] \in RunRow /\ runs[r].items \ {d} \in SUBSET Documents
      BY DEF RunRow
    <3> QED BY <3>1, RunUpdates DEF WithoutItem
  <2> QED BY <1>2, <2>1 DEF DeleteDocument
<1>3. ASSUME NEW j \in Ventures, BeginDeleteVenture(j) PROVE TypeOK'
  BY <1>3 DEF BeginDeleteVenture
<1>4. ASSUME NEW j \in Ventures, AbandonDeletion(j) PROVE TypeOK'
  BY <1>4 DEF AbandonDeletion
<1>5. ASSUME NEW j \in Ventures, FinishDeleteVenture(j) PROVE TypeOK'
  <2>1. \A s \in RuleSets : [ruleSets[s] EXCEPT !.found = @ \ Saved(j)] \in RuleSetRow
    <3> TAKE s \in RuleSets
    <3>1. ruleSets[s] \in RuleSetRow /\ ruleSets[s].found \ Saved(j) \in SUBSET RuleSets
      BY DEF RuleSetRow
    <3> QED BY <3>1, RowUpdates
  <2>2. ruleSets' \in [RuleSets -> RuleSetRow]
    BY <1>5, <2>1, RowUpdates DEF FinishDeleteVenture
  <2>3. runs' \in [Runs -> RunRow]
    BY <1>5, RunUpdates DEF FinishDeleteVenture
  <2>4. documents' \subseteq Documents /\ ventures' \subseteq Ventures /\ deleting' \subseteq ventures'
    BY <1>5 DEF FinishDeleteVenture
  <2> QED BY <2>2, <2>3, <2>4
<1> QED BY <1>1, <1>2, <1>3, <1>4, <1>5 DEF Changes, Deletions

\* Rule sets, runs, documents and deletions keep to their types.
THEOREM Typing == Spec => []TypeOK
<1>1. TypeOK /\ [Next]_vars => TypeOK'
  <2> SUFFICES ASSUME TypeOK, [Next]_vars PROVE TypeOK'
    OBVIOUS
  <2>1. CASE Next
    BY <2>1, NextCases, TypeRuleSets, TypeRuns, TypeOthers, ConstantsAssumption
  <2>2. CASE UNCHANGED vars
    BY <2>2 DEF vars, TypeOK
  <2> QED BY <2>1, <2>2
<1> QED BY <1>1, TypeInit, PTL DEF Spec

-------------------------------------------------------------------------------
(* The inductive invariant about rule sets. *)

Settled == {"saved", "gone"}

\* What an UPDATE found is saved, of the same venture, and inactive once it is committed.
Finds(s) == \A t \in ruleSets[s].found :
    /\ ruleSets[t].pc \in Settled
    /\ ruleSets[t].pc = "saved" => ruleSets[t].venture = ruleSets[s].venture
    /\ ruleSets[s].pc = "saved" => ~ruleSets[t].active

Belongs(s) ==
    /\ ruleSets[s].active => ruleSets[s].pc = "saved"
    /\ ruleSets[s].pc \in {"inserted", "saved"} => ruleSets[s].venture \in ventures
    /\ ruleSets[s].pc = "inserted" => ruleSets[s].venture \notin deleting

SetsSound ==
    /\ TypeOK
    /\ \A s \in RuleSets : Finds(s) /\ Belongs(s)
    /\ SomeRuleSetActive

\* A step that only moves request s on between "none" and "inserted".
LEMMA SetsProgress ==
    ASSUME SetsSound, TypeOK', NEW s \in RuleSets, NEW row,
           ruleSets[s].pc \notin Settled, row.pc \notin {"saved"}, ~row.active,
           row.found \subseteq ruleSets[s].found \cup Saved(row.venture),
           row.venture = ruleSets[s].venture \/ row.found = {},
           row.pc = "inserted" => row.venture \in ventures \ deleting,
           ruleSets' = [ruleSets EXCEPT ![s] = row],
           UNCHANGED <<ventures, deleting>>
    PROVE  SetsSound'
<1>1. \A t \in RuleSets : ruleSets[t].pc \in Settled => t # s
  OBVIOUS
<1>2. \A t \in RuleSets : t # s => ruleSets'[t] = ruleSets[t]
  BY DEF SetsSound, TypeOK
<1>3. ruleSets'[s] = row
  BY DEF SetsSound, TypeOK
<1>4. \A t \in RuleSets : ruleSets[t].found \subseteq RuleSets
  BY DEF SetsSound, TypeOK
<1>5. \A t \in RuleSets : Finds(t)'
  BY <1>1, <1>2, <1>3, <1>4 DEF SetsSound, Finds, Saved, Settled
<1>6. \A t \in RuleSets : Belongs(t)'
  BY <1>2, <1>3 DEF SetsSound, Belongs
<1>7. \A j \in Ventures : Saved(j)' = Saved(j) /\ ActiveSets(j)' = ActiveSets(j)
  BY <1>1, <1>2, <1>3 DEF Saved, ActiveSets, Settled
<1> QED BY <1>5, <1>6, <1>7 DEF SetsSound, SomeRuleSetActive

LEMMA SetsCommit ==
    ASSUME SetsSound, TypeOK', NEW s \in RuleSets, CommitRuleSet(s)
    PROVE  SetsSound'
<1>1. ruleSets[s].pc = "inserted" /\ UNCHANGED <<ventures, deleting>>
  BY DEF CommitRuleSet
<1>2. s \notin ruleSets[s].found /\ \A t \in RuleSets : s \notin ruleSets[t].found
  BY <1>1 DEF SetsSound, Finds, Settled
<1>3. \A t \in RuleSets :
        /\ ruleSets'[t].found = ruleSets[t].found
        /\ ruleSets'[t].venture = ruleSets[t].venture
        /\ ruleSets'[t].pc = IF t = s THEN "saved" ELSE ruleSets[t].pc
        /\ t = s => ruleSets'[t].active
        /\ t \in ruleSets[s].found => ~ruleSets'[t].active
        /\ t # s /\ t \notin ruleSets[s].found => ruleSets'[t].active = ruleSets[t].active
  <2> TAKE t \in RuleSets
  <2>1. ruleSets'[t] = IF t = s THEN [ruleSets[s] EXCEPT !.pc = "saved", !.active = TRUE]
           ELSE IF t \in ruleSets[s].found THEN [ruleSets[t] EXCEPT !.active = FALSE]
           ELSE ruleSets[t]
    BY DEF CommitRuleSet
  <2>2. ruleSets[t] \in RuleSetRow
    BY Rows DEF SetsSound
  <2>3. CASE t = s
    BY <2>1, <2>2, <2>3, <1>2 DEF RuleSetRow
  <2>4. CASE t # s /\ t \in ruleSets[s].found
    BY <2>1, <2>2, <2>4 DEF RuleSetRow
  <2>5. CASE t # s /\ t \notin ruleSets[s].found
    BY <2>1, <2>5
  <2> QED BY <2>3, <2>4, <2>5
<1>4. \A t \in RuleSets : ruleSets[t].found \subseteq RuleSets
  BY DEF SetsSound, TypeOK
<1>5. \A t \in RuleSets : Finds(t)'
  BY <1>1, <1>2, <1>3, <1>4 DEF SetsSound, Finds, Settled
<1>6. \A t \in RuleSets : Belongs(t)'
  BY <1>1, <1>2, <1>3 DEF SetsSound, Belongs, Finds, Settled
<1>7. SomeRuleSetActive'
  <2> SUFFICES ASSUME NEW j \in Ventures, Saved(j)' # {} PROVE ActiveSets(j)' # {}
    BY DEF SomeRuleSetActive
  <2>1. CASE ruleSets[s].venture = j
    BY <2>1, <1>3 DEF ActiveSets, Saved
  <2>2. CASE ruleSets[s].venture # j
    <3>1. Saved(j) # {}
      BY <2>2, <1>3 DEF Saved
    <3>2. PICK t \in ActiveSets(j) : TRUE
      BY <3>1 DEF SetsSound, SomeRuleSetActive
    <3>3. t \in RuleSets /\ t \notin ruleSets[s].found /\ t # s
      BY <3>2, <2>2, <1>1 DEF ActiveSets, Saved, SetsSound, Finds
    <3> QED BY <3>2, <3>3, <1>3 DEF ActiveSets, Saved
  <2> QED BY <2>1, <2>2
<1> QED BY <1>5, <1>6, <1>7 DEF SetsSound

LEMMA SetsRemoved ==
    ASSUME SetsSound, TypeOK', NEW j \in Ventures, FinishDeleteVenture(j)
    PROVE  SetsSound'
<1>1. \A t \in RuleSets :
        ruleSets'[t] = IF t \in Saved(j) THEN [NoRuleSet EXCEPT !.pc = "gone"]
                       ELSE [ruleSets[t] EXCEPT !.found = @ \ Saved(j)]
  BY DEF FinishDeleteVenture
<1>2. \A t \in Saved(j) : /\ ruleSets'[t].pc = "gone" /\ ruleSets'[t].found = {}
                           /\ ruleSets'[t].active = FALSE
  BY <1>1 DEF NoRuleSet, Saved
<1>3. \A t \in RuleSets \ Saved(j) :
        /\ ruleSets'[t].pc = ruleSets[t].pc
        /\ ruleSets'[t].venture = ruleSets[t].venture
        /\ ruleSets'[t].active = ruleSets[t].active
        /\ ruleSets'[t].found = ruleSets[t].found \ Saved(j)
  BY <1>1 DEF SetsSound, TypeOK
<1>4. \A t \in RuleSets : ruleSets[t].found \subseteq RuleSets
  BY DEF SetsSound, TypeOK
<1>5. \A t \in RuleSets : Finds(t)'
  BY <1>2, <1>3, <1>4 DEF SetsSound, Finds, Settled
<1>6. j \in deleting /\ ventures' = ventures \ {j} /\ deleting' = deleting \ {j}
  BY DEF FinishDeleteVenture
<1>7. \A t \in RuleSets : Belongs(t)'
  BY <1>2, <1>3, <1>6 DEF SetsSound, Belongs, Saved
<1>8. SomeRuleSetActive'
  <2> SUFFICES ASSUME NEW i \in Ventures, Saved(i)' # {} PROVE ActiveSets(i)' # {}
    BY DEF SomeRuleSetActive
  <2>1. PICK t \in RuleSets : ruleSets'[t].pc = "saved" /\ ruleSets'[t].venture = i
    BY DEF Saved
  <2>2. t \in Saved(i) /\ t \notin Saved(j) /\ i # j
    BY <2>1, <1>2, <1>3 DEF Saved
  <2>3. PICK u \in ActiveSets(i) : TRUE
    BY <2>2 DEF SetsSound, SomeRuleSetActive
  <2>4. u \in RuleSets \ Saved(j)
    BY <2>2, <2>3 DEF ActiveSets, Saved
  <2> QED BY <2>3, <2>4, <1>3 DEF ActiveSets, Saved
<1> QED BY <1>5, <1>7, <1>8 DEF SetsSound

LEMMA SetsStep ==
    ASSUME SetsSound, TypeOK', NEW s \in RuleSets,
           CreateRuleSet(s) \/ SaveRuleSet(s) \/ AbandonRuleSet(s)
    PROVE  SetsSound'
<1>0. ruleSets[s] \in RuleSetRow
  BY Rows DEF SetsSound
<1>1. CASE CreateRuleSet(s)
  <2>1. PICK j \in Ventures, c \in Settings, t \in Stamps : ruleSets' = [ruleSets EXCEPT ![s] =
             [pc |-> "begun", venture |-> j, setting |-> c, at |-> t, active |-> FALSE,
              found |-> {}]]
    BY <1>1 DEF CreateRuleSet
  <2>2. PICK row : row = [pc |-> "begun", venture |-> j, setting |-> c, at |-> t,
                          active |-> FALSE, found |-> {}]
    OBVIOUS
  <2>3. /\ row.pc = "begun" /\ ~row.active /\ row.found = {}
        /\ ruleSets' = [ruleSets EXCEPT ![s] = row]
    BY <2>1, <2>2
  <2>4. ruleSets[s].pc \notin Settled /\ UNCHANGED <<ventures, deleting>>
    BY <1>1 DEF CreateRuleSet, Settled
  <2> QED BY <2>3, <2>4, SetsProgress
<1>2. CASE FindPreviousSets(s)
  <2>1. PICK row : row = [ruleSets[s] EXCEPT !.pc = "found", !.found = Saved(ruleSets[s].venture)]
    OBVIOUS
  <2>2. /\ row.pc = "found" /\ row.found = Saved(row.venture) /\ row.venture = ruleSets[s].venture
        /\ row.active = ruleSets[s].active
    BY <1>0, <2>1 DEF RuleSetRow
  <2>3. ruleSets' = [ruleSets EXCEPT ![s] = row]
    BY <1>2, <2>1 DEF FindPreviousSets
  <2>4. ~ruleSets[s].active /\ ruleSets[s].pc \notin Settled
    BY <1>2 DEF FindPreviousSets, SetsSound, Belongs, Settled
  <2>5. UNCHANGED <<ventures, deleting>>
    BY <1>2 DEF FindPreviousSets
  <2> HIDE DEF Settled
  <2> QED BY <2>2, <2>3, <2>4, <2>5, SetsProgress
<1>3. CASE DeactivatePreviousSets(s)
  <2>1. PICK row : row = [ruleSets[s] EXCEPT !.pc = "deactivated"]
    OBVIOUS
  <2>2. /\ row.pc = "deactivated" /\ row.found = ruleSets[s].found
        /\ row.venture = ruleSets[s].venture /\ row.active = ruleSets[s].active
    BY <1>0, <2>1 DEF RuleSetRow
  <2>3. ruleSets' = [ruleSets EXCEPT ![s] = row]
    BY <1>3, <2>1 DEF DeactivatePreviousSets
  <2>4. ~ruleSets[s].active /\ ruleSets[s].pc \notin Settled
    BY <1>3 DEF DeactivatePreviousSets, SetsSound, Belongs, Settled
  <2> QED BY <1>3, <2>2, <2>3, <2>4, SetsProgress DEF DeactivatePreviousSets
<1>4. CASE InsertRuleSet(s)
  <2>1. PICK row : row = [ruleSets[s] EXCEPT !.pc = "inserted"]
    OBVIOUS
  <2>2. /\ row.pc = "inserted" /\ row.found = ruleSets[s].found
        /\ row.venture = ruleSets[s].venture /\ row.active = ruleSets[s].active
    BY <1>0, <2>1 DEF RuleSetRow
  <2>3. ruleSets' = [ruleSets EXCEPT ![s] = row] /\ row.venture \in ventures \ deleting
    BY <1>4, <2>1, <2>2 DEF InsertRuleSet
  <2>4. ~ruleSets[s].active /\ ruleSets[s].pc \notin Settled
    BY <1>4 DEF InsertRuleSet, SetsSound, Belongs, Settled
  <2> QED BY <1>4, <2>2, <2>3, <2>4, SetsProgress DEF InsertRuleSet
<1>5. CASE CommitRuleSet(s)
  BY <1>5, SetsCommit
<1>6. CASE AbandonRuleSet(s)
  <2>1. PICK row : row = [NoRuleSet EXCEPT !.pc = "gone"]
    OBVIOUS
  <2>2. /\ row.pc = "gone" /\ ~row.active /\ row.found = {}
        /\ ruleSets' = [ruleSets EXCEPT ![s] = row]
    BY <1>6, <2>1 DEF AbandonRuleSet, NoRuleSet
  <2>3. ruleSets[s].pc \notin Settled /\ UNCHANGED <<ventures, deleting>>
    BY <1>6 DEF AbandonRuleSet, Settled
  <2> QED BY <2>2, <2>3, SetsProgress
<1> QED BY <1>1, <1>2, <1>3, <1>4, <1>5, <1>6 DEF SaveRuleSet

LEMMA SetsUnchanged ==
    ASSUME SetsSound, TypeOK', UNCHANGED <<ventures, deleting, ruleSets>>
    PROVE  SetsSound'
BY DEF SetsSound, Finds, Belongs, SomeRuleSetActive, ActiveSets, Saved

LEMMA SetsDeletions == ASSUME SetsSound, TypeOK', Deletions PROVE SetsSound'
<1>1. ASSUME NEW j \in Ventures, BeginDeleteVenture(j) PROVE SetsSound'
  BY <1>1 DEF BeginDeleteVenture, Holders, SetsSound, Finds, Belongs, SomeRuleSetActive,
              ActiveSets, Saved
<1>2. ASSUME NEW j \in Ventures, AbandonDeletion(j) PROVE SetsSound'
  BY <1>2 DEF AbandonDeletion, SetsSound, Finds, Belongs, SomeRuleSetActive, ActiveSets, Saved
<1> QED BY <1>1, <1>2, SetsRemoved DEF Deletions

LEMMA SetsNext == ASSUME SetsSound, TypeOK', [Next]_vars PROVE SetsSound'
<1>1. CASE \E r \in Runs : CreateRun(r) \/ MakeRun(r) \/ AbandonRun(r)
  BY <1>1, SetsUnchanged DEF CreateRun, MakeRun, ResolveRuleSet, SelectDocuments, InsertRun,
                             InsertItem, CommitRun, AbandonRun
<1>2. CASE Changes
  BY <1>2, SetsUnchanged DEF Changes, Register, DeleteDocument
<1>3. CASE UNCHANGED vars
  BY <1>3, SetsUnchanged DEF vars
<1> QED BY <1>1, <1>2, <1>3, NextCases, SetsStep, SetsDeletions

LEMMA SetsInvariant == Spec => []SetsSound
<1>1. ASSUME Init PROVE SetsSound
  <2>1. \A s \in RuleSets : ruleSets[s] = NoRuleSet
    BY <1>1 DEF Init
  <2>2. NoRuleSet.found = {} /\ NoRuleSet.active = FALSE /\ NoRuleSet.pc = "none"
    BY DEF NoRuleSet
  <2>4. \A s \in RuleSets : Finds(s) /\ Belongs(s)
    BY <2>1, <2>2 DEF Finds, Belongs
  <2>3. \A j \in Ventures : Saved(j) = {}
    BY <2>1 DEF Saved, NoRuleSet
  <2> QED BY <1>1, <2>3, <2>4, TypeInit DEF SetsSound, SomeRuleSetActive
<1> QED BY <1>1, SetsNext, Typing, PTL DEF Spec

\* A venture that has rule sets has one in force.
THEOREM AlwaysOneActive == Spec => []SomeRuleSetActive
<1>1. SetsSound => SomeRuleSetActive
  BY DEF SetsSound
<1> QED BY <1>1, SetsInvariant, PTL

\* Two are in force only when their saves overlapped.
THEOREM OverlapOnly == Spec => []BothActiveOnlyByOverlap
<1>1. SetsSound => BothActiveOnlyByOverlap
  BY DEF SetsSound, BothActiveOnlyByOverlap, Finds, ActiveSets, Saved
<1> QED BY <1>1, SetsInvariant, PTL

-------------------------------------------------------------------------------
(* The inductive invariant about runs. *)

Chosen == {"resolved", "selected", "inserted", "saved"}

\* What a run has read and written so far, and what that refers to.
Refers(r) ==
    /\ runs[r].pc \notin {"inserted", "saved"} => runs[r].items = {}
    /\ runs[r].pc = "inserted" =>
         /\ runs[r].items \subseteq runs[r].sample \cap documents
         /\ runs[r].venture \notin deleting
    /\ runs[r].pc \in {"inserted", "saved"} => runs[r].venture \in ventures
    /\ runs[r].pc \in Chosen => runs[r].ruleSet \in Saved(runs[r].venture)
                                 \/ runs[r].venture \notin ventures
    /\ \A d \in runs[r].sample : VentureOf[d] = runs[r].venture

\* A rule set that was inactive stays so.
Remembers(r) ==
    /\ \A s \in runs[r].retired : ruleSets[s].pc \in Settled /\ ~ruleSets[s].active
    /\ runs[r].pc \in Chosen /\ ~runs[r].named => runs[r].ruleSet \notin runs[r].retired

RunsSound ==
    /\ \A r \in Runs : Refers(r) /\ Remembers(r)
    /\ RunsAreWhole
    /\ \A d \in documents : VentureOf[d] \in ventures

Sound == SetsSound /\ RunsSound

\* Steps of rule sets keep the saved ones, and wake no inactive one.
LEMMA RunsWhileSaving ==
    ASSUME Sound, NEW s \in RuleSets,
           CreateRuleSet(s) \/ SaveRuleSet(s) \/ AbandonRuleSet(s)
    PROVE  RunsSound'
<1>0. UNCHANGED <<ventures, deleting, documents, runs>>
  BY DEF CreateRuleSet, SaveRuleSet, FindPreviousSets, DeactivatePreviousSets, InsertRuleSet,
         CommitRuleSet, AbandonRuleSet
<1>1. \A t \in RuleSets : ruleSets[t].pc \in Settled =>
        /\ ruleSets'[t].pc = ruleSets[t].pc
        /\ ruleSets'[t].venture = ruleSets[t].venture
        /\ ~ruleSets[t].active => ~ruleSets'[t].active
  <2> TAKE t \in RuleSets
  <2> HAVE ruleSets[t].pc \in Settled
  <2>0. ruleSets[t] \in RuleSetRow
    BY Rows DEF Sound, SetsSound
  <2>1. CASE CommitRuleSet(s)
    <3>1. t # s
      BY <2>1 DEF CommitRuleSet, Settled
    <3>2. ruleSets'[t] \in {ruleSets[t], [ruleSets[t] EXCEPT !.active = FALSE]}
      BY <2>1, <3>1 DEF CommitRuleSet
    <3> QED BY <3>2, <2>0 DEF RuleSetRow
  <2>2. CASE ~CommitRuleSet(s)
    <3>1. ruleSets[s].pc \notin Settled
      BY <2>2 DEF CreateRuleSet, SaveRuleSet, FindPreviousSets, DeactivatePreviousSets,
                  InsertRuleSet, AbandonRuleSet, Settled
    <3>2. ruleSets'[t] = ruleSets[t]
      BY <2>2, <3>1 DEF CreateRuleSet, SaveRuleSet, FindPreviousSets, DeactivatePreviousSets,
                        InsertRuleSet, AbandonRuleSet, Sound, SetsSound, TypeOK
    <3> QED BY <3>2
  <2> QED BY <2>1, <2>2
<1>2. \A j : Saved(j) \subseteq Saved(j)'
  BY <1>1 DEF Saved, Settled
<1>3. \A r \in Runs : Refers(r)'
  BY <1>0, <1>2 DEF Sound, RunsSound, Refers
<1>4. \A r \in Runs : Remembers(r)'
  <2>1. \A r \in Runs : runs[r].retired \subseteq RuleSets
    BY DEF Sound, SetsSound, TypeOK
  <2> QED BY <1>0, <1>1, <2>1 DEF Sound, RunsSound, Remembers
<1> QED BY <1>0, <1>3, <1>4 DEF Sound, RunsSound, RunsAreWhole

\* A step of run r alone.
LEMMA RunsProgress ==
    ASSUME Sound, TypeOK', NEW r \in Runs, NEW row, runs' = [runs EXCEPT ![r] = row],
           UNCHANGED <<ventures, deleting, documents, ruleSets>>,
           Refers(r)', Remembers(r)',
           row.pc = "saved" => row.items = row.sample \cap documents
    PROVE  RunsSound'
<1>1. \A q \in Runs : runs'[q] = IF q = r THEN row ELSE runs[q]
  BY DEF Sound, SetsSound, TypeOK
<1>2. \A j : Saved(j)' = Saved(j)
  BY DEF Saved
<1>3. \A q \in Runs : Refers(q)' /\ Remembers(q)'
  BY <1>1, <1>2 DEF Sound, RunsSound, Refers, Remembers
<1>4. RunsAreWhole'
  BY <1>1 DEF Sound, RunsSound, RunsAreWhole
<1> QED BY <1>3, <1>4 DEF Sound, RunsSound

LEMMA RunsStep ==
    ASSUME Sound, TypeOK', NEW r \in Runs, CreateRun(r) \/ MakeRun(r) \/ AbandonRun(r)
    PROVE  RunsSound'
<1>0. /\ runs \in [Runs -> RunRow] /\ runs[r] \in RunRow
      /\ UNCHANGED <<ventures, deleting, documents, ruleSets>>
  BY Rows DEF Sound, SetsSound, CreateRun, MakeRun, ResolveRuleSet, SelectDocuments, InsertRun,
              InsertItem, CommitRun, AbandonRun
<1>00. \A j : Saved(j)' = Saved(j)
  BY <1>0 DEF Saved
<1>1. CASE CreateRun(r)
  <2>1. PICK j \in Ventures, s \in RuleSets \cup {None} : runs' = [runs EXCEPT ![r] =
             [pc |-> "begun", venture |-> j, ruleSet |-> s, named |-> s # None,
              sample |-> {}, items |-> {}, retired |-> Saved(j) \ ActiveSets(j)]]
    BY <1>1 DEF CreateRun
  <2>2. PICK row : row = [pc |-> "begun", venture |-> j, ruleSet |-> s, named |-> s # None,
              sample |-> {}, items |-> {}, retired |-> Saved(j) \ ActiveSets(j)]
    OBVIOUS
  <2>3. /\ row.pc = "begun" /\ row.items = {} /\ row.sample = {}
        /\ row.retired = Saved(j) \ ActiveSets(j)
        /\ runs' = [runs EXCEPT ![r] = row] /\ runs'[r] = row
    BY <1>0, <2>1, <2>2
  <2>4. Refers(r)' /\ Remembers(r)'
    BY <1>0, <2>3 DEF Refers, Remembers, Saved, ActiveSets, Settled, Chosen
  <2> QED BY <1>0, <2>3, <2>4, RunsProgress
<1>2. CASE ResolveRuleSet(r)
  <2>1. PICK s \in Saved(runs[r].venture) :
           /\ runs' = [runs EXCEPT ![r].pc = "resolved", ![r].ruleSet = s]
           /\ ~runs[r].named => ruleSets[s].active
    BY <1>2 DEF ResolveRuleSet, FindNamedRuleSet, FindActiveRuleSet, ActiveSets
  <2>2. PICK row : row = [runs[r] EXCEPT !.pc = "resolved", !.ruleSet = s]
    OBVIOUS
  <2>3. /\ row.pc = "resolved" /\ row.ruleSet = s /\ row.items = runs[r].items
        /\ row.sample = runs[r].sample /\ row.venture = runs[r].venture
        /\ row.named = runs[r].named /\ row.retired = runs[r].retired
    BY <1>0, <2>2 DEF RunRow
  <2>4. runs' = [runs EXCEPT ![r] = row] /\ runs'[r] = row
    BY <1>0, <2>1, <2>2
  <2>5. runs[r].pc = "begun"
    BY <1>2 DEF ResolveRuleSet
  <2>6. Refers(r)' /\ Remembers(r)'
    BY <1>0, <1>00, <2>1, <2>3, <2>4, <2>5 DEF Sound, RunsSound, Refers, Remembers, Chosen
  <2> QED BY <1>0, <2>3, <2>4, <2>6, RunsProgress
<1>3. CASE SelectDocuments(r)
  <2>1. PICK listing \in Listings(runs[r].venture) :
           runs' = [runs EXCEPT ![r].pc = "selected",
                      ![r].sample = Sample(listing, ruleSets[runs[r].ruleSet].setting)]
    BY <1>3 DEF SelectDocuments
  <2>2. PICK sample : sample = Sample(listing, ruleSets[runs[r].ruleSet].setting)
    OBVIOUS
  <2>3. \A d \in sample : VentureOf[d] = runs[r].venture
    BY <2>2, SampleInVenture
  <2>4. PICK row : row = [runs[r] EXCEPT !.pc = "selected", !.sample = sample]
    OBVIOUS
  <2>5. /\ row.pc = "selected" /\ row.ruleSet = runs[r].ruleSet /\ row.items = runs[r].items
        /\ row.sample = sample /\ row.venture = runs[r].venture
        /\ row.named = runs[r].named /\ row.retired = runs[r].retired
    BY <1>0, <2>4 DEF RunRow
  <2>6. runs' = [runs EXCEPT ![r] = row] /\ runs'[r] = row
    BY <1>0, <2>1, <2>2, <2>4
  <2>7. runs[r].pc = "resolved"
    BY <1>3 DEF SelectDocuments
  <2>8. Refers(r)' /\ Remembers(r)'
    BY <1>0, <1>00, <2>3, <2>5, <2>6, <2>7 DEF Sound, RunsSound, Refers, Remembers, Chosen
  <2> QED BY <1>0, <2>5, <2>6, <2>8, RunsProgress
<1>4. CASE InsertRun(r)
  <2>1. PICK row : row = [runs[r] EXCEPT !.pc = "inserted"]
    OBVIOUS
  <2>2. /\ row.pc = "inserted" /\ row.ruleSet = runs[r].ruleSet /\ row.items = runs[r].items
        /\ row.sample = runs[r].sample /\ row.venture = runs[r].venture
        /\ row.named = runs[r].named /\ row.retired = runs[r].retired
    BY <1>0, <2>1 DEF RunRow
  <2>3. runs' = [runs EXCEPT ![r] = row] /\ runs'[r] = row
    BY <1>0, <1>4, <2>1 DEF InsertRun
  <2>4. runs[r].pc = "selected" /\ runs[r].venture \in ventures \ deleting
    BY <1>4 DEF InsertRun
  <2>5. Refers(r)' /\ Remembers(r)'
    BY <1>0, <1>00, <2>2, <2>3, <2>4 DEF Sound, RunsSound, Refers, Remembers, Chosen
  <2> QED BY <1>0, <2>2, <2>3, <2>5, RunsProgress
<1>5. CASE InsertItem(r)
  <2>1. PICK d \in (runs[r].sample \ runs[r].items) \cap documents :
           runs' = [runs EXCEPT ![r].items = @ \cup {d}]
    BY <1>5 DEF InsertItem
  <2>2. PICK row : row = [runs[r] EXCEPT !.items = @ \cup {d}]
    OBVIOUS
  <2>3. /\ row.pc = runs[r].pc /\ row.ruleSet = runs[r].ruleSet
        /\ row.items = runs[r].items \cup {d}
        /\ row.sample = runs[r].sample /\ row.venture = runs[r].venture
        /\ row.named = runs[r].named /\ row.retired = runs[r].retired
    BY <1>0, <2>2 DEF RunRow
  <2>4. runs' = [runs EXCEPT ![r] = row] /\ runs'[r] = row
    BY <1>0, <2>1, <2>2
  <2>5. runs[r].pc = "inserted"
    BY <1>5 DEF InsertItem
  <2>6. Refers(r)' /\ Remembers(r)'
    BY <1>0, <1>00, <2>1, <2>3, <2>4, <2>5 DEF Sound, RunsSound, Refers, Remembers, Chosen
  <2> QED BY <1>0, <2>3, <2>4, <2>5, <2>6, RunsProgress
<1>6. CASE CommitRun(r)
  <2>1. PICK row : row = [runs[r] EXCEPT !.pc = "saved"]
    OBVIOUS
  <2>2. /\ row.pc = "saved" /\ row.ruleSet = runs[r].ruleSet /\ row.items = runs[r].items
        /\ row.sample = runs[r].sample /\ row.venture = runs[r].venture
        /\ row.named = runs[r].named /\ row.retired = runs[r].retired
    BY <1>0, <2>1 DEF RunRow
  <2>3. runs' = [runs EXCEPT ![r] = row] /\ runs'[r] = row
    BY <1>0, <1>6, <2>1 DEF CommitRun
  <2>4. runs[r].pc = "inserted" /\ runs[r].items = runs[r].sample
    BY <1>6 DEF CommitRun
  <2>5. row.items = row.sample \cap documents
    BY <2>2, <2>4 DEF Sound, RunsSound, Refers
  <2>6. Refers(r)' /\ Remembers(r)'
    BY <1>0, <1>00, <2>2, <2>3, <2>4 DEF Sound, RunsSound, Refers, Remembers, Chosen
  <2> QED BY <1>0, <2>2, <2>3, <2>5, <2>6, RunsProgress
<1>7. CASE AbandonRun(r)
  <2>1. PICK row : row = [NoRun EXCEPT !.pc = "gone"]
    OBVIOUS
  <2>2. row.pc = "gone" /\ row.items = {} /\ row.sample = {} /\ row.retired = {}
    BY <2>1 DEF NoRun
  <2>3. runs' = [runs EXCEPT ![r] = row] /\ runs'[r] = row
    BY <1>0, <1>7, <2>1 DEF AbandonRun
  <2>4. Refers(r)' /\ Remembers(r)'
    BY <2>2, <2>3 DEF Refers, Remembers, Chosen
  <2> QED BY <1>0, <2>2, <2>3, <2>4, RunsProgress
<1> QED BY <1>1, <1>2, <1>3, <1>4, <1>5, <1>6, <1>7 DEF MakeRun

LEMMA RunsChanges == ASSUME Sound, TypeOK', Changes PROVE RunsSound'
<1>0. /\ \A r \in Runs : runs[r] \in RunRow
      /\ UNCHANGED <<ventures, deleting, ruleSets>>
  BY Rows DEF Sound, SetsSound, Changes, Register, DeleteDocument
<1>00. \A j : Saved(j)' = Saved(j)
  BY <1>0 DEF Saved
<1>1. ASSUME NEW d \in Documents, Register(d) PROVE RunsSound'
  <2>1. documents' = documents \cup {d} /\ VentureOf[d] \in ventures /\ runs' = runs
        /\ \A r \in Runs : d \notin runs[r].sample
    BY <1>1 DEF Register
  <2>2. \A r \in Runs : Refers(r)' /\ Remembers(r)'
    BY <1>0, <1>00, <2>1 DEF Sound, RunsSound, Refers, Remembers
  <2>3. RunsAreWhole'
    BY <2>1 DEF Sound, RunsSound, RunsAreWhole
  <2> QED BY <1>0, <2>1, <2>2, <2>3 DEF Sound, RunsSound
<1>2. ASSUME NEW d \in Documents, DeleteDocument(d) PROVE RunsSound'
  <2>1. documents' = documents \ {d} /\ ~Held(d)
    BY <1>2 DEF DeleteDocument
  <2>2. \A r \in Runs :
          /\ runs'[r].items = runs[r].items \ {d}
          /\ runs'[r].pc = runs[r].pc /\ runs'[r].sample = runs[r].sample
          /\ runs'[r].venture = runs[r].venture /\ runs'[r].ruleSet = runs[r].ruleSet
          /\ runs'[r].named = runs[r].named /\ runs'[r].retired = runs[r].retired
    BY <1>0, <1>2 DEF DeleteDocument, WithoutItem, RunRow
  <2>3. \A r \in Runs : runs[r].pc = "inserted" => d \notin runs[r].items
    BY <2>1 DEF Held
  <2>4. \A r \in Runs : Refers(r)'
    BY <1>0, <1>00, <2>1, <2>2, <2>3 DEF Sound, RunsSound, Refers
  <2>5. \A r \in Runs : Remembers(r)'
    BY <1>0, <2>2 DEF Sound, RunsSound, Remembers
  <2>6. RunsAreWhole'
    BY <2>1, <2>2 DEF Sound, RunsSound, RunsAreWhole
  <2> QED BY <1>0, <2>1, <2>4, <2>5, <2>6 DEF Sound, RunsSound
<1> QED BY <1>1, <1>2 DEF Changes

LEMMA RunsRemoved ==
    ASSUME Sound, TypeOK', NEW j \in Ventures, FinishDeleteVenture(j) PROVE RunsSound'
<1>1. /\ j \in deleting /\ ventures' = ventures \ {j} /\ deleting' = deleting \ {j}
      /\ documents' = {d \in documents : VentureOf[d] # j}
  BY DEF FinishDeleteVenture
<1>2. \A s \in RuleSets :
        /\ s \in Saved(j) => ruleSets'[s].pc = "gone" /\ ruleSets'[s].active = FALSE
        /\ s \notin Saved(j) => /\ ruleSets'[s].pc = ruleSets[s].pc
                               /\ ruleSets'[s].venture = ruleSets[s].venture
                               /\ ruleSets'[s].active = ruleSets[s].active
  <2> TAKE s \in RuleSets
  <2>1. ruleSets'[s] = IF s \in Saved(j) THEN [NoRuleSet EXCEPT !.pc = "gone"]
                       ELSE [ruleSets[s] EXCEPT !.found = @ \ Saved(j)]
    BY DEF FinishDeleteVenture
  <2>2. ruleSets[s] \in RuleSetRow
    BY Rows DEF Sound, SetsSound
  <2> QED BY <2>1, <2>2 DEF NoRuleSet, RuleSetRow
<1>3. \A i : i # j => Saved(i) \subseteq Saved(i)'
  BY <1>2 DEF Saved
<1>4. \A r \in Runs :
        \/ /\ runs'[r].pc = "gone" /\ runs'[r].items = {} /\ runs'[r].sample = {}
           /\ runs'[r].retired = {}
        \/ /\ runs'[r] = runs[r]
           /\ runs[r].pc = "saved" => runs[r].venture # j
  BY DEF FinishDeleteVenture, NoRun
<1>5. \A r \in Runs : Refers(r)'
  <2> TAKE r \in Runs
  <2>1. CASE runs'[r].pc = "gone" /\ runs'[r].items = {} /\ runs'[r].sample = {}
    BY <2>1 DEF Refers, Chosen
  <2>2. CASE runs'[r] = runs[r] /\ (runs[r].pc = "saved" => runs[r].venture # j)
    <3>0. Refers(r)
      BY DEF Sound, RunsSound
    <3>1. runs[r].pc \in {"inserted", "saved"} => runs[r].venture # j
      BY <2>2, <1>1, <3>0 DEF Refers
    <3>2. runs[r].pc = "inserted" => runs[r].items \subseteq documents'
      BY <1>1, <3>0, <3>1 DEF Refers
    <3>4. PICK i : i = runs[r].venture
      OBVIOUS
    <3>3. runs[r].pc \in Chosen => runs[r].ruleSet \in Saved(i)' \/ i \notin ventures'
      BY <1>1, <1>3, <3>0, <3>4 DEF Refers
    <3> QED BY <2>2, <1>1, <3>0, <3>1, <3>2, <3>3, <3>4 DEF Refers
  <2> QED BY <2>1, <2>2, <1>4
<1>6. \A r \in Runs : Remembers(r)'
  <2>1. \A r \in Runs : runs[r].retired \subseteq RuleSets
    BY DEF Sound, SetsSound, TypeOK
  <2> QED BY <1>2, <1>4, <2>1 DEF Sound, RunsSound, Remembers, Settled, Chosen
<1>7. RunsAreWhole'
  <2> SUFFICES ASSUME NEW r \in Runs, runs'[r].pc = "saved"
               PROVE  runs'[r].items = runs'[r].sample \cap documents'
    BY DEF RunsAreWhole
  <2>1. runs'[r] = runs[r] /\ runs[r].pc = "saved" /\ runs[r].venture # j
    BY <1>4
  <2>2. \A d \in runs[r].sample : VentureOf[d] # j
    BY <2>1 DEF Sound, RunsSound, Refers
  <2>3. runs[r].items = runs[r].sample \cap documents
    BY <2>1 DEF Sound, RunsSound, RunsAreWhole
  <2> QED BY <1>1, <2>1, <2>2, <2>3
<1> QED BY <1>1, <1>5, <1>6, <1>7 DEF Sound, RunsSound

LEMMA RunsDeletions == ASSUME Sound, TypeOK', Deletions PROVE RunsSound'
<1>1. ASSUME NEW j \in Ventures, BeginDeleteVenture(j) PROVE RunsSound'
  <2>1. \A i : Saved(i)' = Saved(i)
    BY <1>1 DEF BeginDeleteVenture, Saved
  <2>2. \A r \in Runs : Refers(r)' /\ Remembers(r)'
    BY <1>1, <2>1 DEF BeginDeleteVenture, Holders, Sound, RunsSound, Refers, Remembers
  <2> QED BY <1>1, <2>2 DEF BeginDeleteVenture, Sound, RunsSound, RunsAreWhole
<1>2. ASSUME NEW j \in Ventures, AbandonDeletion(j) PROVE RunsSound'
  <2>1. \A i : Saved(i)' = Saved(i)
    BY <1>2 DEF AbandonDeletion, Saved
  <2>2. \A r \in Runs : Refers(r)' /\ Remembers(r)'
    BY <1>2, <2>1 DEF AbandonDeletion, Sound, RunsSound, Refers, Remembers
  <2> QED BY <1>2, <2>2 DEF AbandonDeletion, Sound, RunsSound, RunsAreWhole
<1> QED BY <1>1, <1>2, RunsRemoved DEF Deletions

LEMMA RunsNext == ASSUME Sound, TypeOK', [Next]_vars PROVE RunsSound'
<1>1. CASE UNCHANGED vars
  <2>1. \A i : Saved(i)' = Saved(i)
    BY <1>1 DEF vars, Saved
  <2>2. \A r \in Runs : Refers(r)' /\ Remembers(r)'
    BY <1>1, <2>1 DEF vars, Sound, RunsSound, Refers, Remembers
  <2> QED BY <1>1, <2>2 DEF vars, Sound, RunsSound, RunsAreWhole
<1> QED BY <1>1, NextCases, RunsWhileSaving, RunsStep, RunsChanges, RunsDeletions

LEMMA RunsInvariant == Spec => []Sound
<1>1. ASSUME Init PROVE RunsSound
  <2>1. documents = {} /\ \A r \in Runs : runs[r] = NoRun
    BY <1>1 DEF Init
  <2>2. /\ NoRun.pc = "none" /\ NoRun.items = {} /\ NoRun.sample = {} /\ NoRun.retired = {}
    BY DEF NoRun
  <2>3. \A r \in Runs : Refers(r) /\ Remembers(r)
    BY <2>1, <2>2 DEF Refers, Remembers, Chosen
  <2> QED BY <2>1, <2>2, <2>3 DEF RunsSound, RunsAreWhole
<1>2. SetsSound /\ RunsSound <=> Sound
  BY DEF Sound
<1>3. Spec => []SetsSound /\ []TypeOK
  BY SetsInvariant, Typing
<1> QED BY <1>1, <1>2, <1>3, RunsNext, PTL DEF Spec

\* A saved run lacks none of its documents but those deleted since.
THEOREM WholeRuns == Spec => []RunsAreWhole
<1>1. Sound => RunsAreWhole
  BY DEF Sound, RunsSound
<1> QED BY <1>1, RunsInvariant, PTL

\* A run made without naming a rule set uses one that was in force, or came in force, after
\* it was asked for.
THEOREM CurrentRules == Spec => []RunsUseCurrentRules
<1>1. Sound => RunsUseCurrentRules
  BY DEF Sound, RunsSound, Remembers, Chosen, RunsUseCurrentRules
<1> QED BY <1>1, RunsInvariant, PTL

\* Documents, rule sets and runs go with their venture and are not used across ventures.
THEOREM WithTheirVenture == Spec => []NothingOutlivesItsVenture
<1>1. ASSUME Sound PROVE NothingOutlivesItsVenture
  <2>1. \A d \in documents : VentureOf[d] \in ventures
    BY <1>1 DEF Sound, RunsSound
  <2>2. \A s \in RuleSets : ruleSets[s].pc = "saved" => ruleSets[s].venture \in ventures
    BY <1>1 DEF Sound, SetsSound, Belongs
  <2>3. \A r \in Runs : runs[r].pc = "saved" =>
         /\ runs[r].venture \in ventures
         /\ runs[r].ruleSet \in Saved(runs[r].venture)
         /\ \A d \in runs[r].sample : VentureOf[d] = runs[r].venture
    BY <1>1 DEF Sound, RunsSound, Refers, Chosen
  <2> QED BY <2>1, <2>2, <2>3 DEF NothingOutlivesItsVenture
<1> QED BY <1>1, RunsInvariant, PTL
===============================================================================
