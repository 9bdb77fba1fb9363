---------------------------- MODULE VenturesProofs ----------------------------
(***************************************************************************)
(* Theorems about Ventures, for every set of ventures, requests and        *)
(* changes.                                                                *)
(***************************************************************************)
EXTENDS Ventures, TLAPS

Updates ==
    [venture : Ventures \cup {None}, named : SUBSET Fields, row : {updates[q].row : q \in Requests},
     overtaken : BOOLEAN]

Shapes ==
    /\ DOMAIN ventures = Ventures
    /\ DOMAIN updates = Requests
    /\ \A q \in Requests : updates[q] \in Updates
    /\ \A v \in Ventures : ventures[v] # None => DOMAIN ventures[v] = Fields /\ v \in retired

\* An update of a venture that no save has overtaken holds the venture's row
\* but for the fields it names.
RowsHeld ==
    \A q \in Requests : \A v \in Ventures : updates[q].venture = v =>
        /\ v \in retired
        /\ DOMAIN updates[q].row = Fields
        /\ ventures[v] # None /\ ~updates[q].overtaken =>
             \A f \in Fields \ updates[q].named : updates[q].row[f] = ventures[v][f]

Inv == Shapes /\ RowsHeld

LEMMA Overlaid ==
    ASSUME NEW c, NEW row
    PROVE  /\ DOMAIN Overlay(c, row) = Fields
           /\ \A f \in Fields \ DOMAIN c : Overlay(c, row)[f] = row[f]
BY DEF Overlay

LEMMA NewRow ==
    ASSUME NEW d
    PROVE  DOMAIN New(d) = Fields
BY DEF New, Cleaned, Fields

\* Idle requests hold no row.
LEMMA IdleUpdate == Idle.venture = None /\ Idle.named = {} /\ Idle.overtaken = FALSE
BY DEF Idle

LEMMA Initially ==
    ASSUME Init
    PROVE  Inv
BY ConstantsAssumption DEF Init, Inv, Shapes, RowsHeld, Idle, Updates

-------------------------------------------------------------------------------
(* One lemma per kind of step. *)

\* Regions change, and ids of regions are drawn.
LEMMA RegionSteps ==
    ASSUME Inv, NEW r \in Regions, CreateRegion(r) \/ UpdateRegion(r) \/ DeleteRegion(r)
    PROVE  Inv' /\ UNCHANGED <<ventures, updates>>
<1>1. UNCHANGED <<ventures, updates>> /\ retired \subseteq retired'
  BY DEF CreateRegion, UpdateRegion, DeleteRegion
<1> QED
  BY <1>1 DEF Inv, Shapes, RowsHeld, Updates

LEMMA CreateStep ==
    ASSUME Inv, NEW v \in Ventures, CreateJointVenture(v)
    PROVE  Inv' /\ \A w \in Ventures : ventures[w] # None => ventures'[w] = ventures[w]
<1>1. PICK d \in Drafts : ventures' = [ventures EXCEPT ![v] = New(d)]
  BY DEF CreateJointVenture
<1>2. v \notin retired /\ retired' = retired \cup {v} /\ UNCHANGED updates
  BY DEF CreateJointVenture
<1>3. PICK row : row = New(d) /\ DOMAIN row = Fields
  BY NewRow
<1>4. \A w \in Ventures : ventures'[w] = IF w = v THEN row ELSE ventures[w]
  BY <1>1, <1>3 DEF Inv, Shapes
<1>5. Shapes'
  BY <1>1, <1>2, <1>3, <1>4 DEF Inv, Shapes, Updates
<1>6. \A q \in Requests : updates[q].venture # v
  BY <1>2 DEF Inv, RowsHeld
<1>7. RowsHeld'
  BY <1>2, <1>4, <1>6 DEF Inv, RowsHeld
<1> QED
  BY <1>2, <1>4, <1>5, <1>7 DEF Inv, Shapes

LEMMA DeleteStep ==
    ASSUME Inv, NEW v \in Ventures, DeleteJointVenture(v)
    PROVE  Inv' /\ \A w \in Ventures : ventures'[w] # None => ventures'[w] = ventures[w]
<1>1. ventures' = [ventures EXCEPT ![v] = None] /\ UNCHANGED <<retired, updates>>
  BY DEF DeleteJointVenture
<1>2. \A w \in Ventures : ventures'[w] = IF w = v THEN None ELSE ventures[w]
  BY <1>1 DEF Inv, Shapes
<1>3. Shapes'
  BY <1>1, <1>2 DEF Inv, Shapes, Updates
<1>4. RowsHeld'
  BY <1>1, <1>2 DEF Inv, RowsHeld
<1> QED
  BY <1>2, <1>3, <1>4 DEF Inv

LEMMA BeginStep ==
    ASSUME Inv, NEW q \in Requests, BeginUpdate(q)
    PROVE  Inv' /\ UNCHANGED ventures
<1>1. PICK v \in Ventures, c \in Changes :
        /\ ventures[v] # None
        /\ updates' = [updates EXCEPT ![q] =
             [venture |-> v, named |-> DOMAIN c, row |-> Overlay(c, ventures[v]),
              overtaken |-> FALSE]]
  BY DEF BeginUpdate
<1>2. UNCHANGED <<ventures, retired>>
  BY DEF BeginUpdate
<1>3. PICK u : u = [venture |-> v, named |-> DOMAIN c, row |-> Overlay(c, ventures[v]),
                    overtaken |-> FALSE]
  OBVIOUS
<1>4. /\ u.venture = v /\ u.named = DOMAIN c /\ u.overtaken = FALSE
      /\ DOMAIN u.row = Fields
      /\ \A f \in Fields \ u.named : u.row[f] = ventures[v][f]
  BY <1>3, Overlaid
<1>5. \A p \in Requests : updates'[p] = IF p = q THEN u ELSE updates[p]
  BY <1>1, <1>3 DEF Inv, Shapes
<1>6. DOMAIN updates' = Requests
  BY <1>1 DEF Inv, Shapes
<1>7. u \in [venture : Ventures \cup {None}, named : SUBSET Fields, row : {u.row},
             overtaken : BOOLEAN]
  BY <1>3, ConstantsAssumption
<1>8. \A p \in Requests : updates'[p] \in Updates'
  BY <1>5, <1>7 DEF Inv, Shapes, Updates
<1>9. Shapes'
  BY <1>2, <1>6, <1>8 DEF Inv, Shapes
<1>10. v \in retired
  BY <1>1 DEF Inv, Shapes
<1>11. RowsHeld'
  BY <1>2, <1>4, <1>5, <1>10 DEF Inv, RowsHeld
<1> QED
  BY <1>2, <1>9, <1>11 DEF Inv

\* What the others hold after a save: as before, or overtaken.
LEMMA SaveStep ==
    ASSUME Inv, NEW q \in Requests, SaveUpdate(q)
    PROVE  /\ Inv'
           /\ updates'[q] = Idle
           /\ \A v \in Ventures :
                ventures[v] # None /\ ventures'[v] # ventures[v] =>
                    /\ updates[q].venture = v
                    /\ \A f \in Fields : ventures'[v][f] # ventures[v][f] =>
                         f \in updates[q].named \/ updates[q].overtaken
<1>1. PICK v : v = updates[q].venture
  OBVIOUS
<1>2. /\ v \in Ventures /\ ventures[v] # None
      /\ ventures' = [ventures EXCEPT ![v] = updates[q].row]
      /\ updates' = [p \in Requests |->
             IF p = q THEN Idle
             ELSE [updates[p] EXCEPT !.overtaken = @ \/ updates[p].venture = v]]
      /\ UNCHANGED retired
  BY <1>1 DEF SaveUpdate, Inv, Shapes, Updates
<1>3. \A w \in Ventures : ventures'[w] = IF w = v THEN updates[q].row ELSE ventures[w]
  BY <1>2 DEF Inv, Shapes
<1>4. /\ DOMAIN updates[q].row = Fields /\ v \in retired
      /\ ~updates[q].overtaken =>
           \A f \in Fields \ updates[q].named : updates[q].row[f] = ventures[v][f]
  BY <1>1, <1>2 DEF Inv, RowsHeld
<1>5. updates'[q] = Idle
  BY <1>2
<1>6. ASSUME NEW p \in Requests \ {q}
      PROVE  /\ updates'[p] \in [venture : Ventures \cup {None}, named : SUBSET Fields,
                                 row : {updates'[p].row}, overtaken : BOOLEAN]
             /\ updates'[p].venture = updates[p].venture
             /\ updates'[p].named = updates[p].named
             /\ updates'[p].row = updates[p].row
             /\ updates[p].overtaken => updates'[p].overtaken
             /\ updates[p].venture = v => updates'[p].overtaken
  <2>1. updates[p] \in Updates
    BY DEF Inv, Shapes
  <2>2. updates'[p] = [updates[p] EXCEPT !.overtaken = @ \/ updates[p].venture = v]
    BY <1>2
  <2> QED
    BY <2>1, <2>2 DEF Updates
<1>7. Idle \in [venture : Ventures \cup {None}, named : SUBSET Fields, row : {Idle.row},
                overtaken : BOOLEAN]
  BY DEF Idle
<1>8. \A p \in Requests : updates'[p] \in Updates'
  BY <1>5, <1>6, <1>7 DEF Updates
<1>9. Shapes'
  BY <1>2, <1>3, <1>4, <1>8 DEF Inv, Shapes
<1>10. RowsHeld'
  <2> SUFFICES ASSUME NEW p \in Requests, NEW w \in Ventures, updates'[p].venture = w
               PROVE  /\ w \in retired
                      /\ DOMAIN updates'[p].row = Fields
                      /\ ventures'[w] # None /\ ~updates'[p].overtaken =>
                           \A f \in Fields \ updates'[p].named :
                               updates'[p].row[f] = ventures'[w][f]
    BY <1>2 DEF RowsHeld
  <2>1. p # q
    BY <1>5, IdleUpdate, ConstantsAssumption
  <2> QED
    BY <1>3, <1>6, <2>1 DEF Inv, RowsHeld
<1> QED
  BY <1>1, <1>3, <1>4, <1>5, <1>9, <1>10 DEF Inv

LEMMA FailStep ==
    ASSUME Inv, NEW q \in Requests, FailUpdate(q)
    PROVE  Inv' /\ UNCHANGED ventures
<1>1. updates' = [updates EXCEPT ![q] = Idle] /\ UNCHANGED <<ventures, retired>>
  BY DEF FailUpdate
<1>2. \A p \in Requests : updates'[p] = IF p = q THEN Idle ELSE updates[p]
  BY <1>1 DEF Inv, Shapes
<1>3. Idle \in [venture : Ventures \cup {None}, named : SUBSET Fields, row : {Idle.row},
                overtaken : BOOLEAN]
  BY DEF Idle
<1>4. \A p \in Requests : updates'[p] \in Updates'
  BY <1>2, <1>3 DEF Inv, Shapes, Updates
<1>5. Shapes'
  BY <1>1, <1>4 DEF Inv, Shapes
<1>6. RowsHeld'
  BY <1>1, <1>2, IdleUpdate, ConstantsAssumption DEF Inv, RowsHeld
<1> QED
  BY <1>1, <1>5, <1>6 DEF Inv

-------------------------------------------------------------------------------
(* The theorem. *)

LEMMA EveryStep ==
    ASSUME Inv, [Next]_vars
    PROVE  /\ Inv'
           /\ \A v \in Ventures : (ventures[v] # None /\ ventures'[v] # None) =>
                \A f \in Fields : ventures'[v][f] # ventures[v][f] =>
                    \E q \in Requests :
                        /\ updates[q].venture = v /\ updates'[q] = Idle
                        /\ f \in updates[q].named \/ updates[q].overtaken
<1>1. CASE UNCHANGED vars
  BY <1>1 DEF vars, Inv, Shapes, RowsHeld, Updates
<1>2. ASSUME NEW q \in Requests, SaveUpdate(q)
      PROVE  /\ Inv'
             /\ \A v \in Ventures : (ventures[v] # None /\ ventures'[v] # None) =>
                \A f \in Fields : ventures'[v][f] # ventures[v][f] =>
                    /\ updates[q].venture = v /\ updates'[q] = Idle
                    /\ f \in updates[q].named \/ updates[q].overtaken
  BY <1>2, SaveStep
<1> QED
  BY <1>1, <1>2, RegionSteps, CreateStep, DeleteStep, BeginStep, FailStep DEF Next

\* A field changes by an update that names it, or by one that was overtaken
\* since it read the row, for every number of updates of every venture
\* (UpdateJointVentureUseCase.Execute).
THEOREM RacesAlone == Spec => OnlyRacesUndo
<1>1. Init => Inv
  BY Initially
<1>2. Inv /\ [Next]_vars => Inv'
  BY EveryStep
<1>3. Inv /\ [Next]_vars =>
        [\A v \in Ventures : (ventures[v] # None /\ ventures'[v] # None) =>
           \A f \in Fields : ventures'[v][f] # ventures[v][f] =>
               \E q \in Requests :
                   /\ updates[q].venture = v /\ updates'[q] = Idle
                   /\ f \in updates[q].named \/ updates[q].overtaken]_vars
  BY EveryStep
<1> QED
  BY <1>1, <1>2, <1>3, PTL DEF Spec, OnlyRacesUndo

-------------------------------------------------------------------------------
(* What a row may say.  A row of a venture is good when it is created, and *)
(* good fields laid over a good row are good; a request carries a good row *)
(* from the reading to the writing.  The code of a region is stored as     *)
(* NormalizeCode leaves it, so that the unique index on the stored codes   *)
(* tells apart what users spell alike.                                     *)

NoBlankParty(row) == \A i \in DOMAIN row.parties : row.parties[i] # ""

GoodRow(row) == DOMAIN row = Fields /\ Valid(row) /\ NoBlankParty(row)

RegionRow == [name : Texts \ {""}, code : Texts \ {""}]

RegionsNormal ==
    /\ DOMAIN regions = Regions
    /\ \A r \in Regions : regions[r] # None =>
         /\ regions[r] \in RegionRow
         /\ NormalizeCode[regions[r].code] = regions[r].code
         /\ \A s \in Regions \ {r} : regions[s] # None => regions[s].code # regions[r].code

RowsGood ==
    /\ DOMAIN ventures = Ventures /\ DOMAIN updates = Requests
    /\ \A v \in Ventures : ventures[v] # None => GoodRow(ventures[v])
    /\ \A q \in Requests : updates[q] # Idle =>
         updates[q].venture \in Ventures /\ GoodRow(updates[q].row)

Tidy == RegionsNormal /\ RowsGood /\ retired \subseteq Regions \cup Ventures

\* Cleaning leaves no blank party.
LEMMA CleanedHasNoBlank ==
    ASSUME NEW c, "parties" \in DOMAIN c
    PROVE  /\ DOMAIN Cleaned(c) = DOMAIN c
           /\ NoBlankParty(Cleaned(c))
<1>1. Cleaned(c)["parties"] = CleanParties(c["parties"]) /\ DOMAIN Cleaned(c) = DOMAIN c
  BY DEF Cleaned
<1>2. \A i \in DOMAIN CleanParties(c["parties"]) : CleanParties(c["parties"])[i] # ""
  BY DEF CleanParties, RestrictValues, Restrict
<1> QED
  BY <1>1, <1>2 DEF NoBlankParty

LEMMA NewIsGood ==
    ASSUME NEW d, Valid(New(d))
    PROVE  GoodRow(New(d))
<1> DEFINE c == [name |-> d.name, parties |-> d.parties, metadata |-> d.metadata, status |-> "draft"]
<1>1. DOMAIN c = Fields /\ "parties" \in DOMAIN c
  BY DEF Fields
<1> QED
  BY <1>1, CleanedHasNoBlank DEF GoodRow, New

LEMMA OverlayIsGood ==
    ASSUME NEW c, DOMAIN c \subseteq Fields, Valid(Cleaned(c)), NEW row, GoodRow(row)
    PROVE  GoodRow(Overlay(c, row))
<1>1. DOMAIN Overlay(c, row) = Fields /\ DOMAIN Cleaned(c) = DOMAIN c
  BY DEF Overlay, Cleaned
<1>2. \A f \in Fields : Overlay(c, row)[f] = IF f \in DOMAIN c THEN Cleaned(c)[f] ELSE row[f]
  BY DEF Overlay
<1>3. Valid(Overlay(c, row))
  <2> SUFFICES ASSUME NEW f \in Fields PROVE ValidField(f, Overlay(c, row)[f])
    BY <1>1 DEF Valid
  <2>1. CASE f \in DOMAIN c
    BY <1>1, <1>2, <2>1 DEF Valid
  <2>2. CASE f \notin DOMAIN c
    BY <1>2, <2>2 DEF GoodRow, Valid
  <2> QED
    BY <2>1, <2>2
<1>4. NoBlankParty(Overlay(c, row))
  <2>1. CASE "parties" \in DOMAIN c
    BY <1>2, <2>1, CleanedHasNoBlank DEF NoBlankParty, Fields
  <2>2. CASE "parties" \notin DOMAIN c
    BY <1>2, <2>2 DEF GoodRow, NoBlankParty, Fields
  <2> QED
    BY <2>1, <2>2
<1> QED
  BY <1>1, <1>3, <1>4 DEF GoodRow

LEMMA InitTidy ==
    ASSUME Init
    PROVE  Tidy
BY DEF Init, Tidy, RegionsNormal, RowsGood

\* A region that is written takes a code that no other region has.
LEMMA RegionsStayNormal ==
    ASSUME Tidy, NEW r \in Regions, CreateRegion(r) \/ UpdateRegion(r) \/ DeleteRegion(r)
    PROVE  Tidy'
<1>1. /\ UNCHANGED <<ventures, updates>>
      /\ retired' \subseteq Regions \cup Ventures
  BY DEF CreateRegion, UpdateRegion, DeleteRegion, Tidy
<1>2. RowsGood'
  BY <1>1 DEF Tidy, RowsGood
<1>3. CASE DeleteRegion(r)
  BY <1>1, <1>2, <1>3 DEF DeleteRegion, Tidy, RegionsNormal
<1>4. CASE CreateRegion(r) \/ UpdateRegion(r)
  <2>1. PICK name, code \in Texts :
          /\ name # "" /\ NormalizeCode[code] # ""
          /\ CodeFree(r, NormalizeCode[code])
          /\ regions' = [regions EXCEPT ![r] = [name |-> name, code |-> NormalizeCode[code]]]
    BY <1>4 DEF CreateRegion, UpdateRegion
  <2>2. PICK row : row = [name |-> name, code |-> NormalizeCode[code]]
    OBVIOUS
  <2>3. /\ row \in RegionRow
        /\ row.code = NormalizeCode[code]
        /\ NormalizeCode[row.code] = row.code
    BY <2>1, <2>2, ConstantsAssumption DEF RegionRow
  <2>4. \A s \in Regions : regions'[s] = IF s = r THEN row ELSE regions[s]
    BY <2>1, <2>2 DEF Tidy, RegionsNormal
  <2>5. \A s \in Regions \ {r} : regions[s] # None => regions[s].code # row.code
    BY <2>1, <2>3 DEF CodeFree
  <2>6. DOMAIN regions' = Regions
    BY <2>1 DEF Tidy, RegionsNormal
  <2>7. RegionsNormal'
    BY <2>3, <2>4, <2>5, <2>6 DEF Tidy, RegionsNormal
  <2> QED
    BY <1>1, <1>2, <2>7 DEF Tidy
<1> QED
  BY <1>3, <1>4

\* A venture that is created or deleted.
LEMMA VenturesStayGood ==
    ASSUME Tidy, NEW v \in Ventures, CreateJointVenture(v) \/ DeleteJointVenture(v)
    PROVE  Tidy'
<1>1. UNCHANGED <<regions, updates>> /\ retired' \subseteq Regions \cup Ventures
  BY DEF CreateJointVenture, DeleteJointVenture, Tidy
<1>2. RegionsNormal'
  BY <1>1 DEF Tidy, RegionsNormal
<1>3. PICK row : /\ row # None => GoodRow(row)
                 /\ ventures' = [ventures EXCEPT ![v] = row]
  BY NewIsGood DEF CreateJointVenture, DeleteJointVenture
<1>4. RowsGood'
  BY <1>1, <1>3 DEF Tidy, RowsGood
<1> QED
  BY <1>1, <1>2, <1>4 DEF Tidy

\* Writing FALSE over FALSE changes nothing.
LEMMA NotOvertaken ==
    ASSUME NEW V, NEW N, NEW R,
           NEW u \in [venture : V, named : N, row : R, overtaken : BOOLEAN], u.overtaken = FALSE
    PROVE  [u EXCEPT !.overtaken = FALSE] = u
OBVIOUS

\* An update that is begun, written or given up.
LEMMA UpdatesStayGood ==
    ASSUME Inv, Tidy, NEW q \in Requests, BeginUpdate(q) \/ SaveUpdate(q) \/ FailUpdate(q)
    PROVE  Tidy'
<1>1. UNCHANGED <<regions, retired>>
  BY DEF BeginUpdate, SaveUpdate, FailUpdate
<1>2. RegionsNormal'
  BY <1>1 DEF Tidy, RegionsNormal
<1>3. CASE BeginUpdate(q)
  <2>1. PICK v \in Ventures, c \in Changes :
          /\ ventures[v] # None
          /\ Valid(Cleaned(c))
          /\ updates' = [updates EXCEPT ![q] =
               [venture |-> v, named |-> DOMAIN c, row |-> Overlay(c, ventures[v]),
                overtaken |-> FALSE]]
    BY <1>3 DEF BeginUpdate
  <2>2. GoodRow(Overlay(c, ventures[v]))
    BY <2>1, OverlayIsGood, ConstantsAssumption DEF Tidy, RowsGood
  <2>3. PICK row : row = Overlay(c, ventures[v])
    OBVIOUS
  <2>4. PICK u : u = [venture |-> v, named |-> DOMAIN c, row |-> row, overtaken |-> FALSE]
    OBVIOUS
  <2>5. u.venture = v /\ GoodRow(u.row)
    BY <2>2, <2>3, <2>4
  <2>6. updates' = [updates EXCEPT ![q] = u] /\ UNCHANGED ventures
    BY <1>3, <2>1, <2>3, <2>4 DEF BeginUpdate
  <2>7. RowsGood'
    BY <2>5, <2>6 DEF Tidy, RowsGood
  <2> QED
    BY <1>1, <1>2, <2>7 DEF Tidy
<1>4. CASE SaveUpdate(q)
  <2>1. PICK v : v = updates[q].venture /\ v # None
    BY <1>4 DEF SaveUpdate
  <2>2. updates[q] # Idle
    BY <2>1, IdleUpdate
  <2>3. v \in Ventures /\ GoodRow(updates[q].row)
    BY <2>1, <2>2 DEF Tidy, RowsGood
  <2>4. /\ ventures' = [ventures EXCEPT ![v] = updates[q].row]
        /\ updates' = [p \in Requests |->
               IF p = q THEN Idle
               ELSE [updates[p] EXCEPT !.overtaken = @ \/ updates[p].venture = v]]
    BY <1>4, <2>1 DEF SaveUpdate
  <2>5. \A w \in Ventures : ventures'[w] # None => GoodRow(ventures'[w])
    BY <2>3, <2>4 DEF Tidy, RowsGood
  <2>6. ASSUME NEW p \in Requests, updates'[p] # Idle
        PROVE  updates'[p].venture \in Ventures /\ GoodRow(updates'[p].row)
    <3>1. p # q /\ updates'[p] = [updates[p] EXCEPT !.overtaken = @ \/ updates[p].venture = v]
      BY <2>4, <2>6
    <3>2. updates[p] \in Updates
      BY DEF Inv, Shapes
    <3>3. /\ updates'[p].venture = updates[p].venture
          /\ updates'[p].row = updates[p].row
      BY <3>1, <3>2 DEF Updates
    <3>4. updates[p] # Idle
      <4> SUFFICES ASSUME updates[p] = Idle PROVE FALSE
        OBVIOUS
      <4>1. (Idle.overtaken \/ Idle.venture = v) = FALSE
        BY <2>1, IdleUpdate
      <4>2. [Idle EXCEPT !.overtaken = FALSE] = Idle
        <5>1. Idle \in [venture : {None}, named : {{}}, row : {None}, overtaken : BOOLEAN]
          BY DEF Idle
        <5> QED
          BY <5>1, NotOvertaken, IdleUpdate
      <4>3. updates'[p] = [Idle EXCEPT !.overtaken = Idle.overtaken \/ Idle.venture = v]
        BY <3>1, Zenon
      <4> QED
        BY <2>6, <4>1, <4>2, <4>3, Zenon
    <3> QED
      BY <3>3, <3>4 DEF Tidy, RowsGood
  <2>7. RowsGood'
    BY <2>4, <2>5, <2>6 DEF Tidy, RowsGood
  <2> QED
    BY <1>1, <1>2, <2>7 DEF Tidy
<1>5. CASE FailUpdate(q)
  BY <1>1, <1>2, <1>5 DEF FailUpdate, Tidy, RowsGood
<1> QED
  BY <1>3, <1>4, <1>5

LEMMA EveryStepTidy ==
    ASSUME Inv, Tidy, [Next]_vars
    PROVE  Tidy'
<1>1. CASE UNCHANGED vars
  BY <1>1 DEF vars, Tidy, RegionsNormal, RowsGood
<1> QED
  BY <1>1, RegionsStayNormal, VenturesStayGood, UpdatesStayGood DEF Next

\* A tidy system has the rows TypeOK asks for.
LEMMA TidyTyped ==
    ASSUME Tidy
    PROVE  TypeOK
<1>1. \A r \in Regions : regions[r] # None =>
         /\ regions[r] \in RegionRow
         /\ \A s \in Regions \ {r} : regions[s] # None =>
              NormalizeCode[regions[s].code] # NormalizeCode[regions[r].code]
  BY DEF Tidy, RegionsNormal
<1>2. \A v \in Ventures : ventures[v] # None => GoodRow(ventures[v])
  BY DEF Tidy, RowsGood
<1>3. \A q \in Requests : updates[q] # Idle => updates[q].venture \in Ventures
  BY DEF Tidy, RowsGood
<1> QED
  BY <1>1, <1>2, <1>3 DEF TypeOK, Tidy, RegionRow, GoodRow, NoBlankParty

\* Whatever names, parties, statuses and codes the requests send, and however their
\* updates cross, a stored venture has a name, two named parties and a status that is one,
\* and no two regions have the same code in any spelling (New, CleanParties,
\* NormalizeStatus, the checks of UpdateJointVentureUseCase.Execute, NormalizeCode).
THEOREM TypeCorrect == Spec => []TypeOK
<1>1. Init => Inv /\ Tidy
  BY Initially, InitTidy
<1>2. Inv /\ Tidy /\ [Next]_vars => (Inv /\ Tidy)'
  BY EveryStep, EveryStepTidy
<1>3. Inv /\ Tidy => TypeOK
  BY TidyTyped
<1> QED
  BY <1>1, <1>2, <1>3, PTL DEF Spec

===============================================================================
