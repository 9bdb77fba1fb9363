-------------------------------- MODULE Access --------------------------------
(***************************************************************************)
(* Who may do what: memberships (internal/features/access), and the        *)
(* regions and joint ventures whose existence they decide about            *)
(* (internal/features/regions, internal/features/jointventures).           *)
(*                                                                         *)
(* A use case asks the authorizer and then writes, in two statements with  *)
(* no transaction around them: others write in between.  No table refers   *)
(* to the scope of a membership, which therefore outlives it, and may name *)
(* a region or a venture that never was.  Ids are UUIDs: Fresh ids are not *)
(* in use anywhere.  What rows say besides is for Ventures.                *)
(*                                                                         *)
(* An operator whose name starts with Slip is a plausible mistake in the   *)
(* definition below it.                                                    *)
(***************************************************************************)
EXTENDS FiniteSets

CONSTANTS
    Users,     \* logins in the users table, which sign-in fills
    Root,      \* the administrator whose row the operator put in the table
    Regions,
    Ventures,
    HomeOf,    \* the region of each venture: region_id is never updated
    Granted,   \* the roles that requests ask for
    Ids,       \* of memberships
    Requests,
    None

Roles == {"admin", "region_admin", "jv_admin", "contributor", "auditor", "visitor"}

ASSUME ConstantsAssumption ==
    /\ Root \in Users
    /\ HomeOf \in [Ventures -> Regions]
    /\ Granted \subseteq Roles
    /\ Ids # {}

VARIABLES
    regions,      \* the regions that exist
    ventures,     \* the joint ventures that exist
    memberships,  \* the rows of access_memberships
    requests      \* what each authorized request is about to write

vars == <<regions, ventures, memberships, requests>>

System == [type |-> "system", id |-> None]
RegionScope(r) == [type |-> "region", id |-> r]
VentureScope(v) == [type |-> "joint_venture", id |-> v]

Scopes == {System} \cup {RegionScope(r) : r \in Regions} \cup {VentureScope(v) : v \in Ventures}

\* source is not stored: the scope in which the chain of grants that led to
\* this one left the hands of those who act for the whole system.
Memberships == [id : Ids, user : Users, role : Roles, scope : Scopes, source : Scopes]

-------------------------------------------------------------------------------
(* The authorizer. *)

Permissions == {"document_create", "document_read", "document_delete", "region_create",
    "region_read", "region_update", "region_delete", "jv_create", "jv_read", "jv_update",
    "jv_delete", "membership_manage"}

RolesForPermission(p) ==
    CASE p \in {"document_read", "region_read", "jv_read"} -> Roles
      [] p = "document_create" -> Roles \ {"auditor", "visitor"}
      [] p \in {"document_delete", "jv_update", "membership_manage"} ->
             {"admin", "region_admin", "jv_admin"}
      [] p \in {"region_update", "jv_create", "jv_delete"} -> {"admin", "region_admin"}
      [] p \in {"region_create", "region_delete"} -> {"admin"}

Held(u, roles, scopes) ==
    {m \in memberships : m.user = u /\ m.role \in roles /\ m.scope \in scopes}

CanAccessSystem(u, p) == Held(u, RolesForPermission(p), {System}) # {}

CanAccessRegion(u, r, p) == Held(u, RolesForPermission(p), {System, RegionScope(r)}) # {}

\* A venture that is gone has no region: the query joins its row on the left.
Over(v) ==
    {System, VentureScope(v)} \cup {RegionScope(HomeOf[w]) : w \in ventures \cap {v}}

CanAccessJV(u, v, p) == Held(u, RolesForPermission(p), Over(v)) # {}

SlipManagers(u, s) ==
    CASE s.type = "system" -> Held(u, {"admin"}, {System})
      [] s.type = "region" ->
             {m \in memberships : m.user = u /\ m.role \in {"admin", "region_admin"}
                                  /\ m.scope.type \in {"system", "region"}}
      [] s.type = "joint_venture" -> Held(u, RolesForPermission("membership_manage"), Over(s.id))

\* The memberships of u that let it manage those of scope s.
Managers(u, s) ==
    CASE s.type = "system" -> Held(u, {"admin"}, {System})
      [] s.type = "region" -> Held(u, {"admin", "region_admin"}, {System, s})
      [] s.type = "joint_venture" -> Held(u, RolesForPermission("membership_manage"), Over(s.id))

CanManageMembership(u, s) == Managers(u, s) # {}

-------------------------------------------------------------------------------
(* What is listed. *)

ListMemberships(u, s) ==
    IF CanManageMembership(u, s) THEN {m \in memberships : m.scope = s} ELSE {}

\* Without a filter, an administrator of the system lists them all.
ListAllMemberships(u) == IF CanManageMembership(u, System) THEN memberships ELSE {}

ListAccessible(u) ==
    {r \in regions : \E m \in memberships :
        /\ m.user = u
        /\ m.role \in RolesForPermission("region_read")
        /\ \/ m.scope \in {System, RegionScope(r)}
           \/ \E v \in ventures : m.scope = VentureScope(v) /\ HomeOf[v] = r}

SlipListByRegion(u, r) ==
    {v \in ventures : HomeOf[v] = r /\ \E m \in memberships :
        /\ m.user = u
        /\ m.role \in RolesForPermission("jv_read")
        /\ m.scope.type \in {"system", "region"} \/ m.scope = VentureScope(v)}

ListByRegionAccessible(u, r) ==
    {v \in ventures : HomeOf[v] = r /\ \E m \in memberships :
        /\ m.user = u
        /\ m.role \in RolesForPermission("jv_read")
        /\ m.scope \in {System, RegionScope(HomeOf[v]), VentureScope(v)}}

GetRegion(u, r) == r \in regions /\ CanAccessRegion(u, r, "region_read")
GetJV(u, v) == v \in ventures /\ CanAccessJV(u, v, "jv_read")

-------------------------------------------------------------------------------
(* Authorized, and about to write. *)

Commands ==
    {[op |-> "none", target |-> None]}
    \cup {[op |-> "grant", target |-> m] : m \in Memberships}
    \cup {[op |-> "revoke", target |-> i] : i \in Ids}
    \cup {[op |-> o, target |-> r] : o \in {"create_region", "delete_region"}, r \in Regions}
    \cup {[op |-> o, target |-> v] : o \in {"create_venture", "delete_venture"}, v \in Ventures}

Idle == [op |-> "none", target |-> None]

Pending(o, x) == \E q \in Requests : requests[q] = [op |-> o, target |-> x]

GrantsPending == {c.target : c \in {requests[q] : q \in {p \in Requests : requests[p].op = "grant"}}}

FreshMembership(i) ==
    /\ \A m \in memberships \cup GrantsPending : m.id # i
    /\ ~Pending("revoke", i)

FreshRegion(r) ==
    /\ r \notin regions
    /\ ~Pending("create_region", r) /\ ~Pending("delete_region", r)
    /\ \A m \in memberships \cup GrantsPending : RegionScope(r) \notin {m.scope, m.source}
    /\ \A v \in Ventures : HomeOf[v] = r => ~Pending("create_venture", v)

FreshVenture(v) ==
    /\ v \notin ventures
    /\ ~Pending("create_venture", v) /\ ~Pending("delete_venture", v)
    /\ \A m \in memberships \cup GrantsPending : VentureScope(v) \notin {m.scope, m.source}

Authorize(q, o, x) ==
    /\ requests[q] = Idle
    /\ requests' = [requests EXCEPT ![q] = [op |-> o, target |-> x]]
    /\ UNCHANGED <<regions, ventures, memberships>>

\* The chain of grants goes on from a membership that authorizes this one.
SourceOf(m, s) == IF m.scope = System THEN s ELSE m.source

CreateMembership(q) ==
    \E u, w \in Users, role \in Granted, s \in Scopes, i \in Ids :
        /\ FreshMembership(i)
        /\ \E m \in Managers(u, s) :
             Authorize(q, "grant",
                 [id |-> i, user |-> w, role |-> role, scope |-> s, source |-> SourceOf(m, s)])

\* Nothing changes in a row: it is found and judged in one step.
DeleteMembership(q) ==
    \E u \in Users, m \in memberships :
        /\ CanManageMembership(u, m.scope)
        /\ Authorize(q, "revoke", m.id)

CreateRegion(q) ==
    \E u \in Users, r \in Regions :
        /\ CanAccessSystem(u, "region_create")
        /\ FreshRegion(r)
        /\ Authorize(q, "create_region", r)

DeleteRegion(q) ==
    \E u \in Users, r \in Regions :
        /\ CanAccessSystem(u, "region_delete")
        /\ Authorize(q, "delete_region", r)

CreateJointVenture(q) ==
    \E u \in Users, v \in Ventures :
        /\ CanAccessRegion(u, HomeOf[v], "jv_create")
        /\ FreshVenture(v)
        /\ Authorize(q, "create_venture", v)

DeleteJointVenture(q) ==
    \E u \in Users, v \in Ventures :
        /\ CanAccessJV(u, v, "jv_delete")
        /\ Authorize(q, "delete_venture", v)

-------------------------------------------------------------------------------
(* The statement that follows; what the tables refuse goes to Fail. *)

Finish(q, o) ==
    /\ requests[q].op = o
    /\ requests' = [requests EXCEPT ![q] = Idle]

SlipSaveMembership(q) ==
    /\ Finish(q, "grant")
    /\ memberships' = memberships \cup {requests[q].target}
    /\ UNCHANGED <<regions, ventures>>

\* One row for a user, a role and a scope.
SaveMembership(q) ==
    /\ Finish(q, "grant")
    /\ \A m \in memberships :
         \/ m.user # requests[q].target.user
         \/ m.role # requests[q].target.role
         \/ m.scope # requests[q].target.scope
    /\ memberships' = memberships \cup {requests[q].target}
    /\ UNCHANGED <<regions, ventures>>

RemoveMembership(q) ==
    /\ Finish(q, "revoke")
    /\ memberships' = {m \in memberships : m.id # requests[q].target}
    /\ UNCHANGED <<regions, ventures>>

SaveRegion(q) ==
    /\ Finish(q, "create_region")
    /\ regions' = regions \cup {requests[q].target}
    /\ UNCHANGED <<ventures, memberships>>

\* The foreign key of its ventures holds a region.
RemoveRegion(q) ==
    /\ Finish(q, "delete_region")
    /\ \A v \in ventures : HomeOf[v] # requests[q].target
    /\ regions' = regions \ {requests[q].target}
    /\ UNCHANGED <<ventures, memberships>>

SaveJointVenture(q) ==
    /\ Finish(q, "create_venture")
    /\ HomeOf[requests[q].target] \in regions
    /\ ventures' = ventures \cup {requests[q].target}
    /\ UNCHANGED <<regions, memberships>>

RemoveJointVenture(q) ==
    /\ Finish(q, "delete_venture")
    /\ ventures' = ventures \ {requests[q].target}
    /\ UNCHANGED <<regions, memberships>>

Fail(q) ==
    /\ requests[q] # Idle
    /\ requests' = [requests EXCEPT ![q] = Idle]
    /\ UNCHANGED <<regions, ventures, memberships>>

-------------------------------------------------------------------------------
(* The specification. *)

Init ==
    /\ regions = {}
    /\ ventures = {}
    /\ \E i \in Ids : memberships =
         {[id |-> i, user |-> Root, role |-> "admin", scope |-> System, source |-> System]}
    /\ requests = [q \in Requests |-> Idle]

Next ==
    \E q \in Requests :
        \/ CreateMembership(q) \/ SaveMembership(q)
        \/ DeleteMembership(q) \/ RemoveMembership(q)
        \/ CreateRegion(q) \/ SaveRegion(q)
        \/ DeleteRegion(q) \/ RemoveRegion(q)
        \/ CreateJointVenture(q) \/ SaveJointVenture(q)
        \/ DeleteJointVenture(q) \/ RemoveJointVenture(q)
        \/ Fail(q)

Spec == Init /\ [][Next]_vars

-------------------------------------------------------------------------------
(* Properties. *)

\* Types, and no id names two memberships.
TypeOK ==
    /\ regions \subseteq Regions
    /\ ventures \subseteq Ventures
    /\ memberships \subseteq Memberships
    /\ requests \in [Requests -> Commands]
    /\ \A m, n \in memberships : m.id = n.id => m = n

Covers(a, b) ==
    \/ a \in {System, b}
    \/ \E v \in Ventures : a = RegionScope(HomeOf[v]) /\ b = VentureScope(v)

\* An administrator of a region or of a venture, and those they appoint, and
\* those these appoint, only ever appoint within it (Authorizer.
\* CanManageMembership), also while memberships are revoked and ventures and
\* regions come and go between the answer and the write.
DelegationStaysWithin == \A m \in memberships : Covers(m.source, m.scope)

\* What a role gives in a scope it gives in the scopes below it, for the
\* permissions and for the management of memberships alike
\* (CanAccessSystem, CanAccessRegion, CanAccessJV, CanManageMembership).
AuthorityIsInherited ==
    \A u \in Users :
        /\ \A p \in Permissions :
             /\ \A r \in Regions : CanAccessSystem(u, p) => CanAccessRegion(u, r, p)
             /\ \A v \in ventures : CanAccessRegion(u, HomeOf[v], p) => CanAccessJV(u, v, p)
        /\ \A s \in Scopes : CanManageMembership(u, System) => CanManageMembership(u, s)
        /\ \A v \in ventures :
             CanManageMembership(u, RegionScope(HomeOf[v])) => CanManageMembership(u, VentureScope(v))

\* The listings, each a query of its own, agree with the authorizer: the
\* ventures listed are those that can be read, the regions listed are those
\* that can be read or have a venture that can, and whoever lists a
\* membership may revoke it.
ListingsAgree ==
    \A u \in Users :
        /\ \A v \in Ventures :
             (\E r \in Regions : v \in ListByRegionAccessible(u, r)) <=> GetJV(u, v)
        /\ \A r \in regions :
             r \in ListAccessible(u) <=>
                 GetRegion(u, r) \/ \E v \in ventures : HomeOf[v] = r /\ GetJV(u, v)
        /\ \A s \in Scopes : \A m \in ListMemberships(u, s) \cup ListAllMemberships(u) :
             CanManageMembership(u, m.scope)

\* Once a membership is revoked its user no longer has the role in the
\* scope, however many requests granted it at once (SaveMembership,
\* DeleteMembership).
RevokedIsGone ==
    [][\A m \in memberships : (\A n \in memberships' : n.id # m.id) =>
           \A n \in memberships' : n.user = m.user /\ n.role = m.role => n.scope # m.scope]_vars

\* A venture has its region, also when the region is deleted while a venture
\* is being created in it (Repository.Delete of regions, Repository.Save of
\* joint ventures).
VenturesHaveTheirRegion == \A v \in ventures : HomeOf[v] \in regions

===============================================================================
