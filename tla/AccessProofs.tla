----------------------------- MODULE AccessProofs -----------------------------
(***************************************************************************)
(* Theorems about Access, for every set of users, regions, ventures and    *)
(* requests.                                                               *)
(***************************************************************************)
EXTENDS Access, TLAPS

\* Ids of memberships differ, those about to be inserted included.
IdsApart ==
    \A q \in Requests : requests[q].op = "grant" =>
        /\ \A m \in memberships : m.id # requests[q].target.id
        /\ \A p \in Requests \ {q} : requests[p].op = "grant" =>
             requests[p].target.id # requests[q].target.id

\* A chain of grants stays within its source, those about to be inserted included.
ChainsStayWithin ==
    /\ DelegationStaysWithin
    /\ \A q \in Requests : requests[q].op = "grant" =>
         Covers(requests[q].target.source, requests[q].target.scope)

\* One row for a user, a role and a scope.
OneRowPerGrant ==
    \A m, n \in memberships :
        m.user = n.user /\ m.role = n.role /\ m.scope = n.scope => m = n

-------------------------------------------------------------------------------
(* Types. *)

\* What each kind of request is about to write.
LEMMA Targets ==
    ASSUME NEW c \in Commands
    PROVE  /\ c.op = "grant" => c.target \in Memberships
           /\ c.op \in {"create_region", "delete_region"} => c.target \in Regions
           /\ c.op \in {"create_venture", "delete_venture"} => c.target \in Ventures
BY DEF Commands

LEMMA IdleCommand == Idle \in Commands
BY DEF Idle, Commands

\* A request that ends leaves the others as they are.
LEMMA Ended ==
    ASSUME TypeOK, NEW q \in Requests, requests' = [requests EXCEPT ![q] = Idle]
    PROVE  /\ requests' \in [Requests -> Commands]
           /\ \A p \in Requests : requests'[p].op = "grant" =>
                p # q /\ requests'[p] = requests[p]
<1>1. requests \in [Requests -> Commands]
  BY DEF TypeOK
<1>2. \A p \in Requests : requests'[p] = IF p = q THEN Idle ELSE requests[p]
  BY <1>1
<1>3. Idle.op # "grant"
  BY DEF Idle
<1> QED
  BY <1>1, <1>2, <1>3, IdleCommand

\* A request that is authorized leaves the others as they are.
LEMMA Begun ==
    ASSUME TypeOK, NEW q \in Requests, NEW o, NEW x, [op |-> o, target |-> x] \in Commands,
           Authorize(q, o, x)
    PROVE  /\ requests' \in [Requests -> Commands]
           /\ requests'[q].op = o /\ requests'[q].target = x
           /\ \A p \in Requests \ {q} : requests'[p] = requests[p]
           /\ UNCHANGED <<regions, ventures, memberships>>
<1>1. requests \in [Requests -> Commands]
  BY DEF TypeOK
<1> QED
  BY <1>1 DEF Authorize

\* Managers(u, s) are memberships of u in scopes over s.
LEMMA ManagersAre ==
    ASSUME NEW u, NEW s \in Scopes
    PROVE  /\ s = System => Managers(u, s) = Held(u, {"admin"}, {System})
           /\ \A r \in Regions : s = RegionScope(r) =>
                Managers(u, s) = Held(u, {"admin", "region_admin"}, {System, s})
           /\ \A v \in Ventures : s = VentureScope(v) =>
                Managers(u, s) = Held(u, RolesForPermission("membership_manage"), Over(v))
           /\ Managers(u, s) \subseteq memberships
<1>1. s = System => Managers(u, s) = Held(u, {"admin"}, {System})
  <2>1. s = System => s.type = "system"
    BY DEF System
  <2> QED
    BY <2>1 DEF Managers
<1>2. ASSUME NEW r \in Regions, s = RegionScope(r)
      PROVE  Managers(u, s) = Held(u, {"admin", "region_admin"}, {System, s})
  <2>1. s.type = "region"
    BY <1>2 DEF RegionScope
  <2> QED
    BY <2>1 DEF Managers
<1>3. ASSUME NEW v \in Ventures, s = VentureScope(v)
      PROVE  Managers(u, s) = Held(u, RolesForPermission("membership_manage"), Over(v))
  <2>1. s.type = "joint_venture" /\ s.id = v
    BY <1>3 DEF VentureScope
  <2> QED
    BY <2>1 DEF Managers
<1>4. \A roles, scopes : Held(u, roles, scopes) \subseteq memberships
  BY DEF Held
<1> QED
  BY <1>1, <1>2, <1>3, <1>4 DEF Scopes

\* What CreateMembership is about to insert.
LEMMA GrantBegun ==
    ASSUME TypeOK, NEW q \in Requests, CreateMembership(q)
    PROVE  \E u \in Users, m \in memberships, s \in Scopes, g \in Memberships :
             /\ FreshMembership(g.id)
             /\ m \in Managers(u, s)
             /\ g.scope = s /\ g.source = SourceOf(m, s)
             /\ [op |-> "grant", target |-> g] \in Commands
             /\ Authorize(q, "grant", g)
<1>1. PICK u \in Users, w \in Users, role \in Granted, s \in Scopes, i \in Ids :
        /\ FreshMembership(i)
        /\ \E m \in Managers(u, s) : Authorize(q, "grant",
             [id |-> i, user |-> w, role |-> role, scope |-> s, source |-> SourceOf(m, s)])
  BY DEF CreateMembership
<1>2. PICK m \in Managers(u, s) : Authorize(q, "grant",
        [id |-> i, user |-> w, role |-> role, scope |-> s, source |-> SourceOf(m, s)])
  BY <1>1
<1>3. m \in memberships
  BY ManagersAre
<1>4. SourceOf(m, s) \in Scopes
  BY <1>3 DEF SourceOf, TypeOK, Memberships
<1>5. role \in Roles
  BY ConstantsAssumption
<1>6. PICK g : g = [id |-> i, user |-> w, role |-> role, scope |-> s, source |-> SourceOf(m, s)]
  OBVIOUS
<1>7. /\ g \in Memberships
      /\ g.id = i /\ g.scope = s /\ g.source = SourceOf(m, s)
  BY <1>4, <1>5, <1>6 DEF Memberships
<1>8. [op |-> "grant", target |-> g] \in Commands
  BY <1>7 DEF Commands
<1> QED
  BY <1>1, <1>2, <1>3, <1>6, <1>7, <1>8

\* The other requests, once authorized, are about to write no membership.
LEMMA OtherBegun ==
    ASSUME TypeOK, NEW q \in Requests,
           \/ DeleteMembership(q) \/ CreateRegion(q) \/ DeleteRegion(q)
           \/ CreateJointVenture(q) \/ DeleteJointVenture(q)
    PROVE  /\ requests' \in [Requests -> Commands]
           /\ requests'[q].op # "grant"
           /\ \A p \in Requests \ {q} : requests'[p] = requests[p]
           /\ UNCHANGED <<regions, ventures, memberships>>
<1>1. \E o, x : /\ o # "grant"
                /\ [op |-> o, target |-> x] \in Commands
                /\ Authorize(q, o, x)
  <2>1. CASE DeleteMembership(q)
    <3>1. PICK m \in memberships : Authorize(q, "revoke", m.id)
      BY <2>1 DEF DeleteMembership
    <3>2. m.id \in Ids
      BY DEF TypeOK, Memberships
    <3>3. [op |-> "revoke", target |-> m.id] \in Commands
      BY <3>2 DEF Commands
    <3> QED
      BY <3>1, <3>3
  <2>2. CASE CreateRegion(q)
    <3>1. PICK r \in Regions : Authorize(q, "create_region", r)
      BY <2>2 DEF CreateRegion
    <3>2. [op |-> "create_region", target |-> r] \in Commands
      BY DEF Commands
    <3> QED
      BY <3>1, <3>2
  <2>3. CASE DeleteRegion(q)
    <3>1. PICK r \in Regions : Authorize(q, "delete_region", r)
      BY <2>3 DEF DeleteRegion
    <3>2. [op |-> "delete_region", target |-> r] \in Commands
      BY DEF Commands
    <3> QED
      BY <3>1, <3>2
  <2>4. CASE CreateJointVenture(q)
    <3>1. PICK v \in Ventures : Authorize(q, "create_venture", v)
      BY <2>4 DEF CreateJointVenture
    <3>2. [op |-> "create_venture", target |-> v] \in Commands
      BY DEF Commands
    <3> QED
      BY <3>1, <3>2
  <2>5. CASE DeleteJointVenture(q)
    <3>1. PICK v \in Ventures : Authorize(q, "delete_venture", v)
      BY <2>5 DEF DeleteJointVenture
    <3>2. [op |-> "delete_venture", target |-> v] \in Commands
      BY DEF Commands
    <3> QED
      BY <3>1, <3>2
  <2> QED
    BY <2>1, <2>2, <2>3, <2>4, <2>5
<1> QED
  BY <1>1, Begun

\* The steps that leave the memberships alone, with what they need to know.
QuietSteps(q) ==
    \/ SaveRegion(q) \/ RemoveRegion(q) \/ SaveJointVenture(q) \/ RemoveJointVenture(q)
    \/ Fail(q)

LEMMA Quiet ==
    ASSUME TypeOK, NEW q \in Requests, QuietSteps(q)
    PROVE  /\ requests' = [requests EXCEPT ![q] = Idle]
           /\ UNCHANGED memberships
           /\ regions' \subseteq Regions
           /\ ventures' \subseteq Ventures
<1>1. requests[q] \in Commands
  BY DEF TypeOK
<1> QED
  BY <1>1, Targets DEF QuietSteps, SaveRegion, RemoveRegion, SaveJointVenture, RemoveJointVenture,
     Fail, Finish, TypeOK

\* Every step is one of these.
LEMMA Steps ==
    ASSUME [Next]_vars
    PROVE  \/ UNCHANGED vars
           \/ \E q \in Requests :
                \/ CreateMembership(q) \/ SaveMembership(q) \/ RemoveMembership(q)
                \/ DeleteMembership(q) \/ CreateRegion(q) \/ DeleteRegion(q)
                \/ CreateJointVenture(q) \/ DeleteJointVenture(q) \/ QuietSteps(q)
BY DEF Next, QuietSteps

-------------------------------------------------------------------------------
(* The invariant. *)

Inv == TypeOK /\ IdsApart /\ ChainsStayWithin /\ OneRowPerGrant

LEMMA Initially ==
    ASSUME Init
    PROVE  Inv
<1>1. PICK i \in Ids : memberships =
        {[id |-> i, user |-> Root, role |-> "admin", scope |-> System, source |-> System]}
  BY DEF Init
<1>2. [id |-> i, user |-> Root, role |-> "admin", scope |-> System, source |-> System]
        \in Memberships
  BY ConstantsAssumption DEF Memberships, Roles, Scopes
<1>3. TypeOK
  BY <1>1, <1>2, IdleCommand DEF TypeOK, Init
<1>4. \A q \in Requests : requests[q].op # "grant"
  BY DEF Init, Idle
<1> QED
  BY <1>1, <1>3, <1>4 DEF Inv, IdsApart, ChainsStayWithin, DelegationStaysWithin, Covers,
     OneRowPerGrant

\* An authorized grant continues a chain, and stays within its source.
LEMMA ChainGoesOn ==
    ASSUME NEW u \in Users, NEW s \in Scopes, NEW m \in Managers(u, s),
           Covers(m.source, m.scope), m.scope \in Scopes, m.source \in Scopes
    PROVE  Covers(SourceOf(m, s), s)
<1>1. Covers(m.scope, s)
  <2>1. CASE s = System
    BY <2>1, ManagersAre DEF Held, Covers
  <2>2. CASE \E r \in Regions : s = RegionScope(r)
    BY <2>2, ManagersAre DEF Held, Covers
  <2>3. CASE \E v \in Ventures : s = VentureScope(v)
    <3>1. PICK v \in Ventures : s = VentureScope(v)
      BY <2>3
    <3>2. m.scope \in Over(v)
      BY <3>1, ManagersAre DEF Held
    <3> QED
      BY <3>1, <3>2 DEF Over, Covers
  <2> QED
    BY <2>1, <2>2, <2>3 DEF Scopes
<1>2. CASE m.scope = System
  BY <1>2 DEF SourceOf, Covers
<1>3. CASE m.scope # System
  <2>1. SourceOf(m, s) = m.source
    BY <1>3 DEF SourceOf
  <2>2. CASE m.source = System
    BY <2>1, <2>2 DEF Covers
  <2>3. CASE m.source = m.scope
    BY <1>1, <2>1, <2>3
  <2>4. CASE \E v \in Ventures : m.source = RegionScope(HomeOf[v]) /\ m.scope = VentureScope(v)
    <3>1. s = m.scope
      <4>1. \A r \in Regions, w \in Ventures : RegionScope(r) # VentureScope(w)
        BY DEF RegionScope, VentureScope
      <4> QED
        BY <1>1, <1>3, <2>4, <4>1, ConstantsAssumption DEF Covers
    <3> QED
      BY <2>1, <2>4, <3>1 DEF Covers
  <2> QED
    BY <2>2, <2>3, <2>4 DEF Covers
<1> QED
  BY <1>2, <1>3

\* A request that ends writes no more, and what others are about to write stays.
LEMMA EndedKeeps ==
    ASSUME Inv, NEW q \in Requests, requests' = [requests EXCEPT ![q] = Idle],
           memberships' \subseteq memberships,
           regions' \subseteq Regions, ventures' \subseteq Ventures
    PROVE  Inv'
<1>1. TypeOK'
  BY Ended DEF Inv, TypeOK
<1>2. \A p \in Requests : requests'[p].op = "grant" => p # q /\ requests'[p] = requests[p]
  BY Ended DEF Inv
<1>3. IdsApart'
  BY <1>2 DEF Inv, IdsApart
<1>4. ChainsStayWithin'
  BY <1>2 DEF Inv, ChainsStayWithin, DelegationStaysWithin, Covers, System, RegionScope,
     VentureScope
<1>5. OneRowPerGrant'
  BY DEF Inv, OneRowPerGrant
<1> QED
  BY <1>1, <1>3, <1>4, <1>5 DEF Inv

LEMMA CreateKeeps ==
    ASSUME Inv, NEW q \in Requests, CreateMembership(q)
    PROVE  Inv'
<1> TypeOK
  BY DEF Inv
<1>1. PICK u \in Users, m \in memberships, s \in Scopes, g \in Memberships :
        /\ FreshMembership(g.id)
        /\ m \in Managers(u, s)
        /\ g.scope = s /\ g.source = SourceOf(m, s)
        /\ [op |-> "grant", target |-> g] \in Commands
        /\ Authorize(q, "grant", g)
  BY GrantBegun
<1>2. /\ requests' \in [Requests -> Commands]
      /\ requests'[q].op = "grant" /\ requests'[q].target = g
      /\ \A p \in Requests \ {q} : requests'[p] = requests[p]
      /\ UNCHANGED <<regions, ventures, memberships>>
  BY <1>1, Begun
<1>3. TypeOK'
  BY <1>2 DEF TypeOK
<1>4. /\ \A n \in memberships : n.id # g.id
      /\ \A p \in Requests : requests[p].op = "grant" => requests[p].target.id # g.id
  BY <1>1 DEF FreshMembership, GrantsPending
<1>5. IdsApart'
  <2> SUFFICES ASSUME NEW p \in Requests, requests'[p].op = "grant"
               PROVE  /\ \A n \in memberships : n.id # requests'[p].target.id
                      /\ \A t \in Requests \ {p} : requests'[t].op = "grant" =>
                           requests'[t].target.id # requests'[p].target.id
    BY <1>2 DEF IdsApart
  <2>1. CASE p = q
    BY <1>2, <1>4, <2>1
  <2>2. CASE p # q
    BY <1>2, <1>4, <2>2 DEF Inv, IdsApart
  <2> QED
    BY <2>1, <2>2
<1>6. Covers(g.source, g.scope)
  <2>1. m.scope \in Scopes /\ m.source \in Scopes
    BY DEF TypeOK, Memberships
  <2>2. Covers(m.source, m.scope)
    BY DEF Inv, ChainsStayWithin, DelegationStaysWithin
  <2> QED
    BY <1>1, <2>1, <2>2, ChainGoesOn
<1>7. ChainsStayWithin'
  BY <1>2, <1>6 DEF Inv, ChainsStayWithin, DelegationStaysWithin, Covers, System, RegionScope,
     VentureScope
<1>8. OneRowPerGrant'
  BY <1>2 DEF Inv, OneRowPerGrant
<1> QED
  BY <1>3, <1>5, <1>7, <1>8 DEF Inv

LEMMA SaveKeeps ==
    ASSUME Inv, NEW q \in Requests, SaveMembership(q)
    PROVE  Inv'
<1> TypeOK
  BY DEF Inv
<1>1. PICK g : g = requests[q].target
  OBVIOUS
<1>2. /\ requests[q].op = "grant"
      /\ requests' = [requests EXCEPT ![q] = Idle]
      /\ memberships' = memberships \cup {g}
      /\ UNCHANGED <<regions, ventures>>
      /\ \A m \in memberships : \/ m.user # g.user
                                \/ m.role # g.role
                                \/ m.scope # g.scope
  BY <1>1 DEF SaveMembership, Finish
<1>3. g \in Memberships
  BY <1>1, <1>2, Targets DEF TypeOK
<1>4. \A p \in Requests : requests'[p].op = "grant" => p # q /\ requests'[p] = requests[p]
  BY <1>2, Ended
<1>5. \A m \in memberships : m.id # g.id
  BY <1>1, <1>2 DEF Inv, IdsApart
<1>6. TypeOK'
  BY <1>2, <1>3, <1>5, Ended DEF TypeOK
<1>7. IdsApart'
  BY <1>1, <1>2, <1>4 DEF Inv, IdsApart
<1>8. Covers(g.source, g.scope)
  BY <1>1, <1>2 DEF Inv, ChainsStayWithin
<1>9. ChainsStayWithin'
  BY <1>2, <1>4, <1>8 DEF Inv, ChainsStayWithin, DelegationStaysWithin, Covers, System,
     RegionScope, VentureScope
<1>10. OneRowPerGrant'
  BY <1>2 DEF Inv, OneRowPerGrant
<1> QED
  BY <1>6, <1>7, <1>9, <1>10 DEF Inv

LEMMA OthersKeep ==
    ASSUME Inv, NEW q \in Requests,
           \/ DeleteMembership(q) \/ CreateRegion(q) \/ DeleteRegion(q)
           \/ CreateJointVenture(q) \/ DeleteJointVenture(q)
    PROVE  Inv'
<1> TypeOK
  BY DEF Inv
<1>1. /\ requests' \in [Requests -> Commands]
      /\ requests'[q].op # "grant"
      /\ \A p \in Requests \ {q} : requests'[p] = requests[p]
      /\ UNCHANGED <<regions, ventures, memberships>>
  BY OtherBegun
<1>2. TypeOK'
  BY <1>1 DEF TypeOK
<1>3. \A p \in Requests : requests'[p].op = "grant" => requests'[p] = requests[p]
  BY <1>1
<1>4. IdsApart'
  BY <1>1, <1>3 DEF Inv, IdsApart
<1>5. ChainsStayWithin'
  BY <1>1, <1>3 DEF Inv, ChainsStayWithin, DelegationStaysWithin, Covers, System, RegionScope,
     VentureScope
<1>6. OneRowPerGrant'
  BY <1>1 DEF Inv, OneRowPerGrant
<1> QED
  BY <1>2, <1>4, <1>5, <1>6 DEF Inv

LEMMA Preserved ==
    ASSUME Inv, [Next]_vars
    PROVE  Inv'
<1>1. CASE UNCHANGED vars
  BY <1>1 DEF Inv, TypeOK, IdsApart, ChainsStayWithin, DelegationStaysWithin, OneRowPerGrant,
     Covers, System, RegionScope, VentureScope, vars
<1>2. ASSUME NEW q \in Requests, RemoveMembership(q)
      PROVE  Inv'
  BY <1>2, EndedKeeps DEF RemoveMembership, Finish, Inv, TypeOK
<1>3. ASSUME NEW q \in Requests, QuietSteps(q)
      PROVE  Inv'
  BY <1>3, Quiet, EndedKeeps DEF Inv
<1> QED
  BY <1>1, <1>2, <1>3, Steps, CreateKeeps, SaveKeeps, OthersKeep

LEMMA AlwaysInv == Spec => []Inv
<1>1. Init => Inv
  BY Initially
<1>2. Inv /\ [Next]_vars => Inv'
  BY Preserved
<1> QED
  BY <1>1, <1>2, PTL DEF Spec

-------------------------------------------------------------------------------
(* The theorems. *)

\* Types, and no id names two memberships, however many grants are pending
\* (CreateMembershipUseCase, SaveMembership).
THEOREM Typing == Spec => []TypeOK
<1>1. Inv => TypeOK
  BY DEF Inv
<1> QED
  BY <1>1, AlwaysInv, PTL

\* Grants stay within the scope in which their chain left the hands of the
\* system's administrators (Authorizer.CanManageMembership).
THEOREM WithinTheirScope == Spec => []DelegationStaysWithin
<1>1. Inv => DelegationStaysWithin
  BY DEF Inv, ChainsStayWithin
<1> QED
  BY <1>1, AlwaysInv, PTL

\* A revoked role is gone (SaveMembership, DeleteMembership).
THEOREM Revoked == Spec => RevokedIsGone
<1>1. ASSUME Inv, [Next]_vars
      PROVE  [\A m \in memberships : (\A n \in memberships' : n.id # m.id) =>
                \A n \in memberships' : n.user = m.user /\ n.role = m.role => n.scope # m.scope]_vars
  <2> SUFFICES ASSUME NEW m \in memberships, \A n \in memberships' : n.id # m.id,
                      NEW n \in memberships', n.user = m.user, n.role = m.role,
                      n.scope = m.scope
               PROVE  FALSE
    OBVIOUS
  <2>1. CASE n \in memberships
    <3>1. n = m
      BY <1>1, <2>1 DEF Inv, OneRowPerGrant
    <3> QED
      BY <3>1
  <2>2. CASE n \notin memberships
    <3>1. PICK q \in Requests : SaveMembership(q)
      <4>1. TypeOK
        BY <1>1 DEF Inv
      <4>2. ASSUME NEW q \in Requests, CreateMembership(q)
            PROVE  UNCHANGED memberships
        BY <4>2 DEF CreateMembership, Authorize
      <4>3. ASSUME NEW q \in Requests, RemoveMembership(q)
            PROVE  memberships' \subseteq memberships
        BY <4>3 DEF RemoveMembership
      <4> QED
        BY <1>1, <2>2, <4>1, <4>2, <4>3, Steps, OtherBegun, Quiet DEF vars
    <3>2. m \in memberships'
      BY <3>1 DEF SaveMembership
    <3> QED
      BY <3>2
  <2> QED
    BY <2>1, <2>2
<1> QED
  BY <1>1, AlwaysInv, PTL DEF Spec, RevokedIsGone

LEMMA HeldGrows ==
    ASSUME NEW u, NEW R, NEW S, NEW Q \in SUBSET R, NEW T \in SUBSET S
    PROVE  Held(u, Q, T) \subseteq Held(u, R, S)
BY DEF Held

LEMMA ManagingRoles ==
    RolesForPermission("membership_manage") = {"admin", "region_admin", "jv_admin"}
BY DEF RolesForPermission

LEMMA ReadingRoles ==
    RolesForPermission("region_read") = Roles /\ RolesForPermission("jv_read") = Roles
BY DEF RolesForPermission

LEMMA OverIts ==
    ASSUME NEW v \in ventures
    PROVE  Over(v) = {System, VentureScope(v), RegionScope(HomeOf[v])}
BY DEF Over

LEMMA ManagesBelow ==
    ASSUME NEW u, NEW s \in Scopes
    PROVE  CanManageMembership(u, System) => CanManageMembership(u, s)
<1>1. System \in Scopes
  BY DEF Scopes
<1>2. Managers(u, System) = Held(u, {"admin"}, {System})
  BY <1>1, ManagersAre
<1>3. Managers(u, System) \subseteq Managers(u, s)
  <2>1. CASE s = System
    BY <2>1
  <2>2. CASE \E r \in Regions : s = RegionScope(r)
    <3>1. Managers(u, s) = Held(u, {"admin", "region_admin"}, {System, s})
      BY <2>2, ManagersAre
    <3> QED
      BY <1>2, <3>1, HeldGrows
  <2>3. CASE \E v \in Ventures : s = VentureScope(v)
    <3>1. PICK v \in Ventures : s = VentureScope(v)
      BY <2>3
    <3>2. Managers(u, s) = Held(u, RolesForPermission("membership_manage"), Over(v))
      BY <3>1, ManagersAre
    <3>3. System \in Over(v)
      BY DEF Over
    <3> QED
      BY <1>2, <3>2, <3>3, ManagingRoles, HeldGrows
  <2> QED
    BY <2>1, <2>2, <2>3 DEF Scopes
<1> QED
  BY <1>3 DEF CanManageMembership

\* Authority over a scope is authority over the scopes below it
\* (CanAccessSystem, CanAccessRegion, CanAccessJV, CanManageMembership).
THEOREM Inherited == Spec => []AuthorityIsInherited
<1>1. ASSUME TypeOK
      PROVE  AuthorityIsInherited
  <2>1. ASSUME NEW u \in Users, NEW p \in Permissions, NEW r \in Regions, CanAccessSystem(u, p)
        PROVE  CanAccessRegion(u, r, p)
    BY <2>1, HeldGrows DEF CanAccessSystem, CanAccessRegion
  <2>2. ASSUME NEW u \in Users, NEW p \in Permissions, NEW v \in ventures,
               CanAccessRegion(u, HomeOf[v], p)
        PROVE  CanAccessJV(u, v, p)
    <3>1. {System, RegionScope(HomeOf[v])} \subseteq Over(v)
      BY OverIts
    <3> QED
      BY <2>2, <3>1, HeldGrows DEF CanAccessRegion, CanAccessJV
  <2>3. ASSUME NEW u \in Users, NEW v \in ventures,
               CanManageMembership(u, RegionScope(HomeOf[v]))
        PROVE  CanManageMembership(u, VentureScope(v))
    <3>1. v \in Ventures /\ HomeOf[v] \in Regions
      BY <1>1, ConstantsAssumption DEF TypeOK
    <3>2. RegionScope(HomeOf[v]) \in Scopes /\ VentureScope(v) \in Scopes
      BY <3>1 DEF Scopes
    <3>3. /\ Managers(u, RegionScope(HomeOf[v])) =
                Held(u, {"admin", "region_admin"}, {System, RegionScope(HomeOf[v])})
          /\ Managers(u, VentureScope(v)) =
                Held(u, RolesForPermission("membership_manage"), Over(v))
      BY <3>1, <3>2, ManagersAre
    <3>4. {System, RegionScope(HomeOf[v])} \subseteq Over(v)
      BY OverIts
    <3>5. {"admin", "region_admin"} \subseteq RolesForPermission("membership_manage")
      BY ManagingRoles
    <3>6. Managers(u, RegionScope(HomeOf[v])) \subseteq Managers(u, VentureScope(v))
      BY <3>3, <3>4, <3>5, HeldGrows
    <3> QED
      BY <2>3, <3>6 DEF CanManageMembership
  <2> QED
    BY <2>1, <2>2, <2>3, ManagesBelow DEF AuthorityIsInherited
<1> QED
  BY <1>1, Typing, PTL

\* The listings agree with the authorizer (ListAccessible,
\* ListByRegionAccessible, ListMemberships).
THEOREM Listed == Spec => []ListingsAgree
<1>1. ASSUME TypeOK
      PROVE  ListingsAgree
  <2> SUFFICES ASSUME NEW u \in Users
               PROVE  /\ \A v \in Ventures :
                           (\E r \in Regions : v \in ListByRegionAccessible(u, r)) <=> GetJV(u, v)
                      /\ \A r \in regions : r \in ListAccessible(u) <=>
                           GetRegion(u, r) \/ \E v \in ventures : HomeOf[v] = r /\ GetJV(u, v)
                      /\ \A s \in Scopes :
                           \A m \in ListMemberships(u, s) \cup ListAllMemberships(u) :
                               CanManageMembership(u, m.scope)
    BY DEF ListingsAgree
  <2>1. ASSUME NEW v \in ventures
        PROVE  GetJV(u, v) <=> \E m \in memberships :
                 /\ m.user = u /\ m.role \in Roles
                 /\ m.scope \in {System, RegionScope(HomeOf[v]), VentureScope(v)}
    <3>1. Over(v) = {System, RegionScope(HomeOf[v]), VentureScope(v)}
      BY OverIts
    <3> QED
      BY <3>1, ReadingRoles DEF GetJV, CanAccessJV, Held
  <2>2. ASSUME NEW v \in Ventures
        PROVE  (\E r \in Regions : v \in ListByRegionAccessible(u, r)) <=> GetJV(u, v)
    <3>1. HomeOf[v] \in Regions
      BY ConstantsAssumption
    <3>2. (\E r \in Regions : v \in ListByRegionAccessible(u, r))
            <=> /\ v \in ventures
                /\ \E m \in memberships :
                     /\ m.user = u /\ m.role \in Roles
                     /\ m.scope \in {System, RegionScope(HomeOf[v]), VentureScope(v)}
      BY <3>1, ReadingRoles DEF ListByRegionAccessible
    <3> QED
      BY <2>1, <3>2 DEF GetJV
  <2>3. ASSUME NEW r \in regions
        PROVE  r \in ListAccessible(u) <=>
                 GetRegion(u, r) \/ \E v \in ventures : HomeOf[v] = r /\ GetJV(u, v)
    <3>1. GetRegion(u, r) <=> \E m \in memberships :
            m.user = u /\ m.role \in Roles /\ m.scope \in {System, RegionScope(r)}
      BY ReadingRoles DEF GetRegion, CanAccessRegion, Held
    <3>2. r \in ListAccessible(u) <=> \E m \in memberships :
            /\ m.user = u /\ m.role \in Roles
            /\ \/ m.scope \in {System, RegionScope(r)}
               \/ \E v \in ventures : m.scope = VentureScope(v) /\ HomeOf[v] = r
      BY ReadingRoles DEF ListAccessible
    <3>3. ASSUME NEW v \in ventures, HomeOf[v] = r, GetJV(u, v)
          PROVE  r \in ListAccessible(u)
      <4>1. PICK m \in memberships :
              /\ m.user = u /\ m.role \in Roles
              /\ m.scope \in {System, RegionScope(r), VentureScope(v)}
        BY <2>1, <3>3
      <4> QED
        BY <3>2, <3>3, <4>1
    <3>4. ASSUME r \in ListAccessible(u)
          PROVE  GetRegion(u, r) \/ \E v \in ventures : HomeOf[v] = r /\ GetJV(u, v)
      <4>1. PICK m \in memberships :
              /\ m.user = u /\ m.role \in Roles
              /\ \/ m.scope \in {System, RegionScope(r)}
                 \/ \E v \in ventures : m.scope = VentureScope(v) /\ HomeOf[v] = r
        BY <3>2, <3>4
      <4>2. CASE m.scope \in {System, RegionScope(r)}
        BY <3>1, <4>1, <4>2
      <4>3. CASE \E v \in ventures : m.scope = VentureScope(v) /\ HomeOf[v] = r
        BY <2>1, <4>1, <4>3
      <4> QED
        BY <4>1, <4>2, <4>3
    <3>5. GetRegion(u, r) => r \in ListAccessible(u)
      BY <3>1, <3>2
    <3> QED
      BY <3>3, <3>4, <3>5
  <2>4. ASSUME NEW s \in Scopes, NEW m \in ListMemberships(u, s) \cup ListAllMemberships(u)
        PROVE  CanManageMembership(u, m.scope)
    <3>1. CASE m \in ListMemberships(u, s)
      BY <3>1 DEF ListMemberships
    <3>2. CASE m \in ListAllMemberships(u)
      <4>1. m \in memberships /\ CanManageMembership(u, System)
        BY <3>2 DEF ListAllMemberships
      <4>2. m.scope \in Scopes
        BY <1>1, <4>1 DEF TypeOK, Memberships
      <4> QED
        BY <4>1, <4>2, ManagesBelow
    <3> QED
      BY <3>1, <3>2
  <2> QED
    BY <2>2, <2>3, <2>4
<1> QED
  BY <1>1, Typing, PTL

\* A venture has its region, whatever is created and deleted at once
\* (Repository.Delete of regions, Repository.Save of joint ventures).
THEOREM Housed == Spec => []VenturesHaveTheirRegion
<1>1. Init => VenturesHaveTheirRegion
  BY DEF Init, VenturesHaveTheirRegion
<1>2. ASSUME TypeOK, VenturesHaveTheirRegion, [Next]_vars
      PROVE  VenturesHaveTheirRegion'
  <2>1. CASE UNCHANGED vars
    BY <1>2, <2>1 DEF VenturesHaveTheirRegion, vars
  <2>2. ASSUME NEW q \in Requests, UNCHANGED <<regions, ventures>>
        PROVE  VenturesHaveTheirRegion'
    BY <1>2, <2>2 DEF VenturesHaveTheirRegion
  <2>3. ASSUME NEW q \in Requests, QuietSteps(q)
        PROVE  VenturesHaveTheirRegion'
    <3>1. CASE SaveRegion(q)
      BY <1>2, <3>1 DEF SaveRegion, VenturesHaveTheirRegion
    <3>2. CASE RemoveRegion(q)
      BY <1>2, <3>2 DEF RemoveRegion, VenturesHaveTheirRegion
    <3>3. CASE SaveJointVenture(q)
      BY <1>2, <3>3 DEF SaveJointVenture, VenturesHaveTheirRegion
    <3>4. CASE RemoveJointVenture(q)
      BY <1>2, <3>4 DEF RemoveJointVenture, VenturesHaveTheirRegion
    <3>5. CASE Fail(q)
      BY <1>2, <3>5 DEF Fail, VenturesHaveTheirRegion
    <3> QED
      BY <2>3, <3>1, <3>2, <3>3, <3>4, <3>5 DEF QuietSteps
  <2>4. ASSUME NEW q \in Requests, CreateMembership(q)
        PROVE  VenturesHaveTheirRegion'
    BY <2>2, <2>4 DEF CreateMembership, Authorize
  <2>5. ASSUME NEW q \in Requests, SaveMembership(q) \/ RemoveMembership(q)
        PROVE  VenturesHaveTheirRegion'
    BY <2>2, <2>5 DEF SaveMembership, RemoveMembership
  <2> QED
    BY <1>2, <2>1, <2>2, <2>3, <2>4, <2>5, OtherBegun, Steps
<1> QED
  BY <1>1, <1>2, Typing, PTL DEF Spec

===============================================================================
