------------------------------- MODULE Ventures -------------------------------
(***************************************************************************)
(* The rows of regions and joint ventures (internal/features/regions,      *)
(* internal/features/jointventures) and the requests that rewrite them.    *)
(*                                                                         *)
(* An update of a joint venture names some of its fields: it reads the     *)
(* row, lays the fields over it and writes the whole row back, in two      *)
(* statements with no transaction around them.  Whether the user may do so *)
(* is for Access.                                                          *)
(*                                                                         *)
(* An operator whose name starts with Slip is a plausible mistake in the   *)
(* definition below it.                                                    *)
(***************************************************************************)
EXTENDS Integers, FiniteSets, Functions

CONSTANTS
    Regions,
    Ventures,
    Requests,
    Texts,          \* names and codes as requests spell them; "" is blank
    NormalizeCode,  \* trimmed, and in upper case
    Drafts,         \* [name, parties, metadata] a venture may be created with
    Changes,        \* functions from the fields an update names
    None

Fields == {"name", "parties", "status", "metadata"}

Statuses == {"draft", "active", "suspended", "closed"}

ASSUME ConstantsAssumption ==
    /\ NormalizeCode \in [Texts -> Texts]
    /\ \A c \in Texts : NormalizeCode[NormalizeCode[c]] = NormalizeCode[c]
    /\ \A c \in Changes : DOMAIN c \subseteq Fields
    /\ None \notin Ventures

VARIABLES
    regions,   \* the row of each region, None if it has none
    ventures,  \* the row of each venture, None if it has none
    retired,   \* ids that were drawn before
    updates    \* the update of a venture each request is about to write

vars == <<regions, ventures, retired, updates>>

-------------------------------------------------------------------------------
(* What a row may say. *)

NormalizeStatus(s) == IF s = "" THEN "draft" ELSE s

\* The parties that are named, at the positions they were given at: the code closes the
\* gaps between them, which nothing here tells apart.
CleanParties(parties) == RestrictValues(parties, LAMBDA p : p # "")

SlipCleaned(c) == c

\* The fields an update names, as they are stored.
Cleaned(c) ==
    [f \in DOMAIN c |->
        CASE f = "parties" -> CleanParties(c[f])
          [] f = "status" -> NormalizeStatus(c[f])
          [] OTHER -> c[f]]

ValidField(f, x) ==
    CASE f = "name" -> x # ""
      [] f = "parties" -> Cardinality(DOMAIN x) >= 2
      [] f = "status" -> x \in Statuses
      [] f = "metadata" -> TRUE

Valid(c) == \A f \in DOMAIN c : ValidField(f, c[f])

New(d) == Cleaned([name |-> d.name, parties |-> d.parties, metadata |-> d.metadata,
                   status |-> "draft"])

-------------------------------------------------------------------------------
(* Regions.  Each use case writes in one statement what it was given. *)

CodeFree(r, code) ==
    \A s \in Regions \ {r} : regions[s] # None => regions[s].code # code

CreateRegion(r) ==
    /\ r \notin retired
    /\ \E name, code \in Texts :
         /\ name # "" /\ NormalizeCode[code] # ""
         /\ CodeFree(r, NormalizeCode[code])
         /\ regions' = [regions EXCEPT ![r] = [name |-> name, code |-> NormalizeCode[code]]]
    /\ retired' = retired \cup {r}
    /\ UNCHANGED <<ventures, updates>>

UpdateRegion(r) ==
    /\ regions[r] # None
    /\ \E name, code \in Texts :
         /\ name # "" /\ NormalizeCode[code] # ""
         /\ CodeFree(r, NormalizeCode[code])
         /\ regions' = [regions EXCEPT ![r] = [name |-> name, code |-> NormalizeCode[code]]]
    /\ UNCHANGED <<ventures, retired, updates>>

DeleteRegion(r) ==
    /\ regions[r] # None
    /\ regions' = [regions EXCEPT ![r] = None]
    /\ UNCHANGED <<ventures, retired, updates>>

-------------------------------------------------------------------------------
(* Joint ventures. *)

Idle == [venture |-> None, named |-> {}, row |-> None, overtaken |-> FALSE]

CreateJointVenture(v) ==
    /\ v \notin retired
    /\ \E d \in Drafts :
         /\ Valid(New(d))
         /\ ventures' = [ventures EXCEPT ![v] = New(d)]
    /\ retired' = retired \cup {v}
    /\ UNCHANGED <<regions, updates>>

SlipOverlay(c, row) ==
    [f \in Fields |->
        IF f \in DOMAIN c THEN Cleaned(c)[f]
        ELSE IF f = "status" THEN NormalizeStatus("") ELSE row[f]]

Overlay(c, row) == [f \in Fields |-> IF f \in DOMAIN c THEN Cleaned(c)[f] ELSE row[f]]

\* The row is read and the fields that are named are laid over it.
BeginUpdate(q) ==
    /\ updates[q] = Idle
    /\ \E v \in Ventures, c \in Changes :
         /\ ventures[v] # None
         /\ Valid(Cleaned(c))
         /\ updates' = [updates EXCEPT ![q] =
               [venture |-> v, named |-> DOMAIN c, row |-> Overlay(c, ventures[v]),
                overtaken |-> FALSE]]
    /\ UNCHANGED <<regions, ventures, retired>>

\* All the fields are written; overtaken marks, for the properties, the
\* updates whose reading of the row is stale from now on.
SaveUpdate(q) ==
    LET v == updates[q].venture IN
    /\ v # None
    /\ ventures[v] # None
    /\ ventures' = [ventures EXCEPT ![v] = updates[q].row]
    /\ updates' = [p \in Requests |->
           IF p = q THEN Idle
           ELSE [updates[p] EXCEPT !.overtaken = @ \/ updates[p].venture = v]]
    /\ UNCHANGED <<regions, retired>>

\* The row is gone, a statement fails, or the request is given up.
FailUpdate(q) ==
    /\ updates[q] # Idle
    /\ updates' = [updates EXCEPT ![q] = Idle]
    /\ UNCHANGED <<regions, ventures, retired>>

DeleteJointVenture(v) ==
    /\ ventures[v] # None
    /\ ventures' = [ventures EXCEPT ![v] = None]
    /\ UNCHANGED <<regions, retired, updates>>

-------------------------------------------------------------------------------
(* The specification. *)

Init ==
    /\ regions = [r \in Regions |-> None]
    /\ ventures = [v \in Ventures |-> None]
    /\ retired = {}
    /\ updates = [q \in Requests |-> Idle]

Next ==
    \/ \E r \in Regions : CreateRegion(r) \/ UpdateRegion(r) \/ DeleteRegion(r)
    \/ \E v \in Ventures : CreateJointVenture(v) \/ DeleteJointVenture(v)
    \/ \E q \in Requests : BeginUpdate(q) \/ SaveUpdate(q) \/ FailUpdate(q)

Spec == Init /\ [][Next]_vars

-------------------------------------------------------------------------------
(* Properties. *)

\* A row has a name, two parties or more, none of them blank, and a status
\* that is one; a region has a name and a code that no other region has, in
\* upper or lower case.
TypeOK ==
    /\ \A r \in Regions : regions[r] # None =>
         /\ regions[r] \in [name : Texts \ {""}, code : Texts \ {""}]
         /\ \A s \in Regions \ {r} : regions[s] # None =>
              NormalizeCode[regions[s].code] # NormalizeCode[regions[r].code]
    /\ \A v \in Ventures : ventures[v] # None =>
         /\ DOMAIN ventures[v] = Fields
         /\ Valid(ventures[v])
         /\ \A i \in DOMAIN ventures[v].parties : ventures[v].parties[i] # ""
    /\ retired \subseteq Regions \cup Ventures
    /\ \A q \in Requests : updates[q] # Idle => updates[q].venture \in Ventures

\* A field of a venture changes by an update that names it, or by one that
\* was overtaken by another since it read the row
\* (UpdateJointVentureUseCase.Execute).
OnlyRacesUndo ==
    [][\A v \in Ventures : (ventures[v] # None /\ ventures'[v] # None) =>
           \A f \in Fields : ventures'[v][f] # ventures[v][f] =>
               \E q \in Requests :
                   /\ updates[q].venture = v /\ updates'[q] = Idle
                   /\ f \in updates[q].named \/ updates[q].overtaken]_vars

===============================================================================
