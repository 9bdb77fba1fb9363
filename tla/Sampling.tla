------------------------------- MODULE Sampling -------------------------------
(***************************************************************************)
(* Rule sets and sampling runs of joint ventures                           *)
(* (internal/features/sampling), saved while others are saved and while    *)
(* documents and ventures are deleted.                                     *)
(*                                                                         *)
(* A transaction is a step per statement, in PostgreSQL's READ COMMITTED:  *)
(* a statement sees what was committed when it began, an UPDATE waits for  *)
(* the rows it found to be free, a foreign key holds the row it refers to  *)
(* until the transaction ends.  Each rule set and each run is the request  *)
(* that saves it.                                                          *)
(*                                                                         *)
(* The row of a document does not change here; how a sample follows        *)
(* changing rows is for Previews.  An operator whose name starts with Slip *)
(* is a plausible mistake in the definition below it.                      *)
(***************************************************************************)
EXTENDS SampleSelection, Functions

CONSTANTS
    Ventures,
    Documents,
    VentureOf,   \* the venture of each document
    RowOf,       \* the row of each document
    RuleSets,    \* ids, each drawn once
    Runs,        \* ids, each drawn once
    Settings,    \* [parameters, rules] a rule set may be saved with
    Stamps,      \* readings of the clocks of the servers, which need not agree
    None

ASSUME ConstantsAssumption ==
    /\ VentureOf \in [Documents -> Ventures]
    /\ Stamps \subseteq Nat
    /\ None \notin Ventures \cup RuleSets

VARIABLES
    ventures,   \* the rows of joint_ventures
    deleting,   \* ventures whose row a deletion has locked
    documents,  \* the rows of documents
    ruleSets,   \* sampling_rule_sets, and the requests that save them
    runs        \* sampling_runs, their items, and the requests that save them

vars == <<ventures, deleting, documents, ruleSets, runs>>

NoRuleSet == [pc |-> "none", venture |-> None, setting |-> None, at |-> 0, active |-> FALSE,
              found |-> {}]

NoRun == [pc |-> "none", venture |-> None, ruleSet |-> None, named |-> FALSE,
          sample |-> {}, items |-> {}, retired |-> {}]

Saved(j) == {s \in RuleSets : ruleSets[s].pc = "saved" /\ ruleSets[s].venture = j}
ActiveSets(j) == {s \in Saved(j) : ruleSets[s].active}

\* Transactions that have inserted a row which refers to the venture.
Holders(j) ==
    {s \in RuleSets : ruleSets[s].pc = "inserted" /\ ruleSets[s].venture = j}
    \cup {r \in Runs : runs[r].pc = "inserted" /\ runs[r].venture = j}

\* Rule sets that a transaction has updated and not yet committed.
Updated == UNION {ruleSets[s].found : s \in
    {t \in RuleSets : ruleSets[t].pc \in {"deactivated", "inserted"}}}

-------------------------------------------------------------------------------
(* CreateRuleSetUseCase and SaveRuleSet. *)

\* The request is checked and dated; its transaction is about to begin.
CreateRuleSet(s) ==
    /\ ruleSets[s].pc = "none"
    /\ \E j \in Ventures, c \in Settings, t \in Stamps :
         ruleSets' = [ruleSets EXCEPT ![s] =
             [pc |-> "begun", venture |-> j, setting |-> c, at |-> t, active |-> FALSE,
              found |-> {}]]
    /\ UNCHANGED <<ventures, deleting, documents, runs>>

\* The UPDATE begins.
FindPreviousSets(s) ==
    /\ ruleSets[s].pc = "begun"
    /\ ruleSets' = [ruleSets EXCEPT ![s].pc = "found", ![s].found = Saved(ruleSets[s].venture)]
    /\ UNCHANGED <<ventures, deleting, documents, runs>>

\* It has waited for the rows it found.
DeactivatePreviousSets(s) ==
    /\ ruleSets[s].pc = "found"
    /\ ruleSets[s].found \cap Updated = {}
    /\ ruleSets' = [ruleSets EXCEPT ![s].pc = "deactivated"]
    /\ UNCHANGED <<ventures, deleting, documents, runs>>

\* The foreign key waits while the venture is being deleted.
InsertRuleSet(s) ==
    /\ ruleSets[s].pc = "deactivated"
    /\ ruleSets[s].venture \in ventures \ deleting
    /\ ruleSets' = [ruleSets EXCEPT ![s].pc = "inserted"]
    /\ UNCHANGED <<ventures, deleting, documents, runs>>

SlipKeepPrevious(s) ==
    /\ ruleSets[s].pc = "inserted"
    /\ ruleSets' = [ruleSets EXCEPT ![s].pc = "saved", ![s].active = TRUE]
    /\ UNCHANGED <<ventures, deleting, documents, runs>>

SlipSaveInactive(s) ==
    /\ ruleSets[s].pc = "inserted"
    /\ ruleSets' = [t \in RuleSets |->
           IF t = s THEN [ruleSets[s] EXCEPT !.pc = "saved"]
           ELSE IF t \in ruleSets[s].found THEN [ruleSets[t] EXCEPT !.active = FALSE]
           ELSE ruleSets[t]]
    /\ UNCHANGED <<ventures, deleting, documents, runs>>

\* The audit event is saved too, and the transaction commits.
CommitRuleSet(s) ==
    /\ ruleSets[s].pc = "inserted"
    /\ ruleSets' = [t \in RuleSets |->
           IF t = s THEN [ruleSets[s] EXCEPT !.pc = "saved", !.active = TRUE]
           ELSE IF t \in ruleSets[s].found THEN [ruleSets[t] EXCEPT !.active = FALSE]
           ELSE ruleSets[t]]
    /\ UNCHANGED <<ventures, deleting, documents, runs>>

\* The venture is gone, a statement fails, or the request is given up.
AbandonRuleSet(s) ==
    /\ ruleSets[s].pc \in {"begun", "found", "deactivated", "inserted"}
    /\ ruleSets' = [ruleSets EXCEPT ![s] = [NoRuleSet EXCEPT !.pc = "gone"]]
    /\ UNCHANGED <<ventures, deleting, documents, runs>>

-------------------------------------------------------------------------------
(* CreateRunUseCase and SaveRun. *)

\* It may name a rule set.
CreateRun(r) ==
    /\ runs[r].pc = "none"
    /\ \E j \in Ventures, s \in RuleSets \cup {None} :
         runs' = [runs EXCEPT ![r] =
             [pc |-> "begun", venture |-> j, ruleSet |-> s, named |-> s # None,
              sample |-> {}, items |-> {}, retired |-> Saved(j) \ ActiveSets(j)]]
    /\ UNCHANGED <<ventures, deleting, documents, ruleSets>>

SlipFindLatest(j) ==
    {s \in Saved(j) : \A t \in Saved(j) : ruleSets[t].at <= ruleSets[s].at}

\* The latest of the active ones.
FindActiveRuleSet(j) ==
    {s \in ActiveSets(j) : \A t \in ActiveSets(j) : ruleSets[t].at <= ruleSets[s].at}

SlipFindAnywhere(j, s) == {t \in RuleSets : t = s /\ ruleSets[t].pc = "saved"}

FindNamedRuleSet(j, s) == {t \in Saved(j) : t = s}

ResolveRuleSet(r) ==
    /\ runs[r].pc = "begun"
    /\ \E s \in IF runs[r].named THEN FindNamedRuleSet(runs[r].venture, runs[r].ruleSet)
                ELSE FindActiveRuleSet(runs[r].venture) :
         runs' = [runs EXCEPT ![r].pc = "resolved", ![r].ruleSet = s]
    /\ UNCHANGED <<ventures, deleting, documents, ruleSets>>

\* FindByJVID, in any order that puts later uploads first.
Listings(j) ==
    LET present == {d \in documents : VentureOf[d] = j}
    IN  {l \in [1..Cardinality(present) -> present] :
            /\ IsInjective(l)
            /\ \A m, n \in DOMAIN l : m < n => RowOf[l[m]].at >= RowOf[l[n]].at}

Sample(listing, setting) ==
    {listing[n] : n \in BuildPreview([m \in DOMAIN listing |-> RowOf[listing[m]]],
                                     setting.parameters, setting.rules)}

\* The rule set, read before, is used as it was: no statement changes its settings.
SelectDocuments(r) ==
    /\ runs[r].pc = "resolved"
    /\ ruleSets[runs[r].ruleSet].pc = "saved"
    /\ \E listing \in Listings(runs[r].venture) :
         runs' = [runs EXCEPT ![r].pc = "selected",
                     ![r].sample = Sample(listing, ruleSets[runs[r].ruleSet].setting)]
    /\ UNCHANGED <<ventures, deleting, documents, ruleSets>>

\* The transaction begins with the run's own row.
InsertRun(r) ==
    /\ runs[r].pc = "selected"
    /\ runs[r].venture \in ventures \ deleting
    /\ runs' = [runs EXCEPT ![r].pc = "inserted"]
    /\ UNCHANGED <<ventures, deleting, documents, ruleSets>>

SlipInsertAnyItem(r) ==
    /\ runs[r].pc = "inserted"
    /\ \E d \in runs[r].sample \ runs[r].items : runs' = [runs EXCEPT ![r].items = @ \cup {d}]
    /\ UNCHANGED <<ventures, deleting, documents, ruleSets>>

\* One by one; the document has to be there still.
InsertItem(r) ==
    /\ runs[r].pc = "inserted"
    /\ \E d \in (runs[r].sample \ runs[r].items) \cap documents :
         runs' = [runs EXCEPT ![r].items = @ \cup {d}]
    /\ UNCHANGED <<ventures, deleting, documents, ruleSets>>

CommitRun(r) ==
    /\ runs[r].pc = "inserted"
    /\ runs[r].items = runs[r].sample
    /\ runs' = [runs EXCEPT ![r].pc = "saved"]
    /\ UNCHANGED <<ventures, deleting, documents, ruleSets>>

\* No rule set, a document or the venture is gone, or the request is given up.
AbandonRun(r) ==
    /\ runs[r].pc \in {"begun", "resolved", "selected", "inserted"}
    /\ runs' = [runs EXCEPT ![r] = [NoRun EXCEPT !.pc = "gone"]]
    /\ UNCHANGED <<ventures, deleting, documents, ruleSets>>

-------------------------------------------------------------------------------
(* Documents and ventures, and what goes with them. *)

Register(d) ==
    /\ d \notin documents
    /\ VentureOf[d] \in ventures \ deleting
    /\ \A r \in Runs : d \notin runs[r].sample
    /\ documents' = documents \cup {d}
    /\ UNCHANGED <<ventures, deleting, ruleSets, runs>>

\* An item that refers to the document is being saved.
Held(d) == \E r \in Runs : runs[r].pc = "inserted" /\ d \in runs[r].items

WithoutItem(run, d) == [run EXCEPT !.items = @ \ {d}]

DeleteDocument(d) ==
    /\ d \in documents
    /\ ~Held(d)
    /\ documents' = documents \ {d}
    /\ runs' = [r \in Runs |-> WithoutItem(runs[r], d)]
    /\ UNCHANGED <<ventures, deleting, ruleSets>>

\* The row is locked, once no open transaction refers to it.
BeginDeleteVenture(j) ==
    /\ j \in ventures \ deleting
    /\ Holders(j) = {}
    /\ deleting' = deleting \cup {j}
    /\ UNCHANGED <<ventures, documents, ruleSets, runs>>

\* What refers to it goes as well, once its rows are free.
FinishDeleteVenture(j) ==
    /\ j \in deleting
    /\ Saved(j) \cap Updated = {}
    /\ ventures' = ventures \ {j}
    /\ deleting' = deleting \ {j}
    /\ documents' = {d \in documents : VentureOf[d] # j}
    /\ ruleSets' = [s \in RuleSets |->
           IF s \in Saved(j) THEN [NoRuleSet EXCEPT !.pc = "gone"]
           ELSE [ruleSets[s] EXCEPT !.found = @ \ Saved(j)]]
    /\ runs' = [r \in Runs |->
           IF runs[r].pc = "saved" /\ runs[r].venture = j THEN [NoRun EXCEPT !.pc = "gone"]
           ELSE runs[r]]

AbandonDeletion(j) ==
    /\ j \in deleting
    /\ deleting' = deleting \ {j}
    /\ UNCHANGED <<ventures, documents, ruleSets, runs>>

SlipNoDetector(s, j) == FALSE

\* A save that has updated rule sets waits for the venture, whose deletion waits for them.
Deadlocked(s, j) ==
    /\ ruleSets[s].pc = "deactivated" /\ ruleSets[s].venture = j
    /\ j \in deleting
    /\ Saved(j) \cap ruleSets[s].found # {}

\* The database ends one of the two.
BreakDeadlock(s, j) == Deadlocked(s, j) /\ (AbandonRuleSet(s) \/ AbandonDeletion(j))

-------------------------------------------------------------------------------

Init ==
    /\ ventures = Ventures
    /\ deleting = {}
    /\ documents = {}
    /\ ruleSets = [s \in RuleSets |-> NoRuleSet]
    /\ runs = [r \in Runs |-> NoRun]

SaveRuleSet(s) ==
    \/ FindPreviousSets(s)
    \/ DeactivatePreviousSets(s)
    \/ InsertRuleSet(s)
    \/ CommitRuleSet(s)

MakeRun(r) ==
    \/ ResolveRuleSet(r)
    \/ SelectDocuments(r)
    \/ InsertRun(r)
    \/ InsertItem(r)
    \/ CommitRun(r)

Next ==
    \/ \E s \in RuleSets : CreateRuleSet(s) \/ SaveRuleSet(s) \/ AbandonRuleSet(s)
    \/ \E r \in Runs : CreateRun(r) \/ MakeRun(r) \/ AbandonRun(r)
    \/ \E d \in Documents : Register(d) \/ DeleteDocument(d)
    \/ \E j \in Ventures :
         BeginDeleteVenture(j) \/ FinishDeleteVenture(j) \/ AbandonDeletion(j)
    \/ \E s \in RuleSets, j \in Ventures : BreakDeadlock(s, j)

\* A statement with nothing to wait for ends; row locks are granted in the order they were
\* asked for, so an insertion does not wait for one deletion after another; a deadlock is
\* broken; a request whose venture is gone fails.
Fairness ==
    /\ \A s \in RuleSets :
         /\ WF_vars(SaveRuleSet(s))
         /\ SF_vars(InsertRuleSet(s))
         /\ WF_vars(ruleSets[s].venture \notin ventures /\ AbandonRuleSet(s))
    /\ \A j \in Ventures : WF_vars(FinishDeleteVenture(j))
    /\ \A s \in RuleSets, j \in Ventures : WF_vars(BreakDeadlock(s, j))

Spec == Init /\ [][Next]_vars /\ Fairness

-------------------------------------------------------------------------------

TypeOK ==
    /\ ventures \subseteq Ventures
    /\ deleting \subseteq ventures
    /\ documents \subseteq Documents
    /\ ruleSets \in [RuleSets ->
           [pc : {"none", "begun", "found", "deactivated", "inserted", "saved", "gone"},
            venture : Ventures \cup {None}, setting : Settings \cup {None},
            at : Stamps \cup {0}, active : BOOLEAN, found : SUBSET RuleSets]]
    /\ runs \in [Runs ->
           [pc : {"none", "begun", "resolved", "selected", "inserted", "saved", "gone"},
            venture : Ventures \cup {None}, ruleSet : RuleSets \cup {None}, named : BOOLEAN,
            sample : SUBSET Documents, items : SUBSET Documents, retired : SUBSET RuleSets]]

\* Two rule sets of a venture are active at once only when each was committed after the
\* other had looked for the sets to make inactive.
BothActiveOnlyByOverlap == \A j \in Ventures : \A s, t \in ActiveSets(j) :
    s # t => s \notin ruleSets[t].found /\ t \notin ruleSets[s].found

\* A venture with rule sets has an active one, however its saves overlap or fail.
SomeRuleSetActive == \A j \in Ventures : Saved(j) # {} => ActiveSets(j) # {}

\* A run that names no rule set does not use one that was inactive when it was asked for.
RunsUseCurrentRules == \A r \in Runs :
    runs[r].pc \in {"resolved", "selected", "inserted", "saved"} /\ ~runs[r].named
        => runs[r].ruleSet \notin runs[r].retired

\* A saved run keeps an item for each document of its sample that is still there: all were
\* saved or none, and an item goes when its document does.
RunsAreWhole == \A r \in Runs :
    runs[r].pc = "saved" => runs[r].items = runs[r].sample \cap documents

\* What belongs to a venture goes with it, and nothing of one venture is used by another.
NothingOutlivesItsVenture ==
    /\ \A d \in documents : VentureOf[d] \in ventures
    /\ \A s \in RuleSets : ruleSets[s].pc = "saved" => ruleSets[s].venture \in ventures
    /\ \A r \in Runs : runs[r].pc = "saved" =>
         /\ runs[r].venture \in ventures
         /\ runs[r].ruleSet \in Saved(runs[r].venture)
         /\ \A d \in runs[r].sample : VentureOf[d] = runs[r].venture

\* Saving a rule set ends, with the rule set saved or not, although it may wait for others
\* and for the deletion of its venture.
SavesEnd == \A s \in RuleSets :
    ruleSets[s].pc = "begun" ~> ruleSets[s].pc \in {"saved", "gone"}
===============================================================================
