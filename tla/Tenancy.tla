------------------------------ MODULE Tenancy ------------------------------
(***************************************************************************)
(* Organizations, memberships, restaurants and their audit                 *)
(* (tenancy/service.py, tenancy/access.py, restaurants/service.py,         *)
(* audit/service.py, the bootstrap command), as transactions that take     *)
(* PostgreSQL row locks.                                                   *)
(*                                                                         *)
(* Administration locks its organization FOR UPDATE, then its own          *)
(* membership FOR SHARE, then the membership it changes FOR UPDATE.  A     *)
(* business write holds its own membership FOR SHARE, and its inserts,     *)
(* the audit entry among them, need the organization FOR KEY SHARE.  Locks *)
(* follow from the phase of a transaction and are held to its end.         *)
(***************************************************************************)
EXTENDS Naturals, FiniteSets

CONSTANTS
    Users, Orgs, Restaurants, Txs,
    Legacy,         \* the organization the migration made for existing data
    Old,            \* its restaurants, which no audit entry mentions
    None,
    MaxCommands     \* bound: commands ever begun

ASSUME LegacyAssumption == Legacy \in Orgs /\ Old \subseteq Restaurants
ASSUME CommandsAssumption == MaxCommands \in Nat
ASSUME NoneAssumption == None \notin Orgs

VARIABLES
    user,           \* users.status, "none" before the account exists
    org,            \* organizations that exist
    member,         \* memberships: one per user (uq_memberships_user)
    restaurant,     \* restaurants: the organization of each, or None
    audit,          \* the latest entry
    refs,           \* restaurants that audit entries refer to
    tx,             \* commands in progress
    begun

vars == <<user, org, member, restaurant, audit, refs, tx, begun>>
rows == <<user, org, member, restaurant, audit, refs>>

Roles == {"OWNER", "MANAGER", "EMPLOYEE"}
Member == [org: Orgs \cup {None}, role: Roles, status: {"active", "revoked"},
           scope: SUBSET Restaurants]
NoMember == [org |-> None, role |-> "EMPLOYEE", status |-> "revoked", scope |-> {}]

\* What a command asks for.  Role and scope None: leave them as they are.
Admin == {"invite", "update", "revoke"}
Business == {"create", "update_branch", "delete"}
FreeTx == [phase |-> "free", op |-> "create", actor |-> None, org |-> None,
           target |-> None, role |-> None, scope |-> None, ctx |-> NoMember]

\* The bound on commands.
Begin == begun < MaxCommands /\ begun' = begun + 1

Free(x) == tx' = [tx EXCEPT ![x] = FreeTx]

-----------------------------------------------------------------------------
(* Policies *)

\* ROLE_CAPABILITIES: what only owners may do, what managers may, and the rest.
Allowed(role, op) ==
    CASE op \in Admin \cup {"create", "delete"} -> role = "OWNER"
      [] op = "update_branch" -> role \in {"OWNER", "MANAGER"}

\* restaurant_scope.
InScope(ctx, r) ==
    restaurant[r] = ctx.org /\ (ctx.role = "OWNER" \/ r \in ctx.scope)

Owners(o) == {u \in Users : member[u].org = o /\ member[u].status = "active"
                            /\ member[u].role = "OWNER"}
ActiveOwners(o) == {u \in Owners(o) : user[u] = "active"}

\* Mutant: the membership to change is looked up without the organization.
SameTenantAny(m, ctx) == m.org # None

\* MembershipRepository.get: only within the organization of the actor.
SameTenant(m, ctx) == m.org = ctx.org

\* Mutant: members who are not owners count as owners.
OwnerCountAnyRole(o) ==
    Cardinality({u \in Users : member[u].org = o /\ member[u].status = "active"})

OwnerCount(o) == Cardinality(ActiveOwners(o))

\* An active owner steps down, or is made to.
RemovesOwner(m, t) ==
    /\ m.role = "OWNER" /\ m.status = "active"
    /\ t.op = "revoke" \/ t.role \notin {None, "OWNER"}

-----------------------------------------------------------------------------
(* Row locks *)

Administers(x) == tx[x].op \in Admin

HoldsOrg(x, o) == /\ Administers(x) /\ tx[x].org = o
                  /\ tx[x].phase \in {"org", "self", "target"}
HoldsShare(x, u) == tx[x].actor = u /\ tx[x].phase \in {"self", "target"}
HoldsRow(x, u) == tx[x].target = u /\ tx[x].phase = "target" /\ Administers(x)

OrgBlockers(x) == {y \in Txs \ {x} : HoldsOrg(y, tx[x].org)}

ShareBlockers(x) == {y \in Txs \ {x} : HoldsRow(y, tx[x].actor)}

\* Mutant: the membership is changed without waiting for the writes of its user.
RowBlockersRow(x) == {y \in Txs \ {x} : HoldsRow(y, tx[x].target)}

RowBlockers(x) ==
    {y \in Txs \ {x} : /\ SameTenant(member[tx[x].target], tx[x].ctx)
                       /\ HoldsRow(y, tx[x].target) \/ HoldsShare(y, tx[x].target)}

\* Transactions that x waits for.
Blockers(x) ==
    CASE tx[x].phase = "begun" /\ Administers(x) -> OrgBlockers(x)
      [] tx[x].phase = "begun" /\ ~Administers(x) -> ShareBlockers(x)
      [] tx[x].phase = "org" -> ShareBlockers(x)
      [] tx[x].phase = "self" /\ tx[x].op \in {"update", "revoke"} -> RowBlockers(x)
      [] tx[x].phase = "self" /\ ~Administers(x) -> OrgBlockers(x)
      [] OTHER -> {}

Deadlocked(X) == X # {} /\ \A x \in X : Blockers(x) \cap X # {}

-----------------------------------------------------------------------------
(* Commands *)

\* A member's command begins: current() without a lock finds the organization.
BeginCommand(x) ==
    /\ tx[x] = FreeTx
    /\ Begin
    /\ \E u \in Users, op \in Admin \cup Business, target \in Users \cup Restaurants,
          role \in Roles \cup {None}, scope \in (SUBSET Restaurants) \cup {None} :
         /\ user[u] = "active"
         /\ member[u].status = "active"
         /\ (op \in Admin) = (target \in Users)
         /\ op \notin {"invite", "update"} => role = None /\ scope = None
         /\ op = "invite" => role # None /\ scope # None
         /\ tx' = [tx EXCEPT ![x] =
              [phase |-> "begun", op |-> op, actor |-> u, org |-> member[u].org,
               target |-> target, role |-> role, scope |-> scope, ctx |-> NoMember]]
    /\ UNCHANGED rows

\* Mutant: administrators lock their memberships before the organization.
LockOrganizationLast(x) ==
    /\ tx[x].phase = "begun" /\ Administers(x)
    /\ ShareBlockers(x) = {}
    /\ tx' = [tx EXCEPT ![x].phase = "self", ![x].ctx = member[tx[x].actor],
                        ![x].org = None]
    /\ UNCHANGED <<rows, begun>>

\* _owner: the organization first.
LockOrganization(x) ==
    /\ tx[x].phase = "begun" /\ Administers(x)
    /\ OrgBlockers(x) = {}
    /\ tx' = [tx EXCEPT ![x].phase = "org"]
    /\ UNCHANGED <<rows, begun>>

\* current(lock=True): the own membership is locked and read, and the capability
\* required; the command ends here if either is missing.
ReadContext(x) ==
    /\ tx[x].phase = IF Administers(x) THEN "org" ELSE "begun"
    /\ ShareBlockers(x) = {}
    /\ LET m == member[tx[x].actor]
       IN IF m.status = "active" /\ Allowed(m.role, tx[x].op)
          THEN tx' = [tx EXCEPT ![x].phase = "self", ![x].ctx = m]
          ELSE Free(x)
    /\ UNCHANGED <<rows, begun>>

\* update_membership: the membership is locked, and the last owner protected.
LockMembership(x) ==
    /\ tx[x].phase = "self" /\ tx[x].op \in {"update", "revoke"}
    /\ RowBlockers(x) = {}
    /\ LET m == member[tx[x].target]
           refused == RemovesOwner(m, tx[x]) /\ OwnerCount(tx[x].ctx.org) <= 1
       IN IF SameTenant(m, tx[x].ctx) /\ ~refused
          THEN tx' = [tx EXCEPT ![x].phase = "target"]
          ELSE Free(x)
    /\ UNCHANGED <<rows, begun>>

\* MembershipRepository.assign: all restaurants are the organization's, or none
\* is assigned and the command fails.
Assignable(scope, o) == scope = None \/ \A r \in scope : restaurant[r] = o

\* record: one entry in the transaction of the command.
Record(ctx, actor) == audit' = [org |-> ctx.org, actor |-> actor]

\* create_membership of an active account that has none.
CommitInvite(x) ==
    /\ tx[x].phase = "self" /\ tx[x].op = "invite"
    /\ LET t == tx[x]
           o == t.ctx.org
       IN IF user[t.target] = "active" /\ member[t.target] = NoMember
             /\ Assignable(t.scope, o)
          THEN /\ member' = [member EXCEPT ![t.target] =
                     [org |-> o, role |-> t.role, status |-> "active", scope |-> t.scope]]
               /\ Record(t.ctx, t.actor)
          ELSE UNCHANGED <<member, audit>>
    /\ Free(x)
    /\ UNCHANGED <<user, org, restaurant, refs, begun>>

\* update_membership, and its revocation.
CommitMembership(x) ==
    /\ tx[x].phase = "target"
    /\ LET t == tx[x]
       IN IF Assignable(t.scope, t.ctx.org)
          THEN /\ member' = [member EXCEPT
                     ![t.target].role = IF t.role = None THEN @ ELSE t.role,
                     ![t.target].status = IF t.op = "revoke" THEN "revoked" ELSE @,
                     ![t.target].scope = IF t.scope = None THEN @ ELSE t.scope]
               /\ Record(t.ctx, t.actor)
          ELSE UNCHANGED <<member, audit>>
    /\ Free(x)
    /\ UNCHANGED <<user, org, restaurant, refs, begun>>

\* A business write commits, once no administrator holds the organization.
Writes(x, op) == tx[x].phase = "self" /\ tx[x].op = op /\ OrgBlockers(x) = {}

CreateRestaurant(x) ==
    /\ Writes(x, "create")
    /\ LET r == tx[x].target
       IN IF r \notin Old \cup refs
          THEN /\ restaurant' = [restaurant EXCEPT ![r] = tx[x].ctx.org]
               /\ refs' = refs \cup {r}
               /\ Record(tx[x].ctx, tx[x].actor)
          ELSE UNCHANGED <<restaurant, refs, audit>>
    /\ Free(x)
    /\ UNCHANGED <<user, org, member, begun>>

\* Every write to a branch leaves an audit entry that refers to it.
UpdateRestaurant(x) ==
    /\ Writes(x, "update_branch")
    /\ IF InScope(tx[x].ctx, tx[x].target)
       THEN refs' = refs \cup {tx[x].target} /\ Record(tx[x].ctx, tx[x].actor)
       ELSE UNCHANGED <<refs, audit>>
    /\ Free(x)
    /\ UNCHANGED <<user, org, member, restaurant, begun>>

\* has_dependents: assignments and audit entries keep a restaurant.  The entry of
\* a deletion does not refer to it.
HasDependents(r) == r \in refs \/ \E u \in Users : r \in member[u].scope

DeleteRestaurant(x) ==
    /\ Writes(x, "delete")
    /\ LET r == tx[x].target
       IN IF InScope(tx[x].ctx, r) /\ ~HasDependents(r)
          THEN /\ restaurant' = [restaurant EXCEPT ![r] = None]
               /\ Record(tx[x].ctx, tx[x].actor)
          ELSE UNCHANGED <<restaurant, audit>>
    /\ Free(x)
    /\ UNCHANGED <<user, org, member, refs, begun>>

\* create_organization: with its first owner, or not at all.
CreateOrganization(u, o) ==
    /\ Begin
    /\ user[u] = "active"
    /\ o \notin org
    /\ member[u] = NoMember
    /\ org' = org \cup {o}
    /\ member' = [member EXCEPT ![u] =
          [org |-> o, role |-> "OWNER", status |-> "active", scope |-> {}]]
    /\ audit' = [org |-> o, actor |-> u]
    /\ UNCHANGED <<user, restaurant, refs, tx>>

\* PostgreSQL ends one transaction of a deadlock; it rolls back.
BreakDeadlock(x) ==
    /\ \E X \in SUBSET Txs : x \in X /\ Deadlocked(X)
    /\ Free(x)
    /\ UNCHANGED <<rows, begun>>

-----------------------------------------------------------------------------
(* Operator *)

CreateUser(u) ==
    /\ user[u] = "none"
    /\ user' = [user EXCEPT ![u] = "active"]
    /\ UNCHANGED <<org, member, restaurant, audit, refs, tx, begun>>

\* disable-user knows nothing of memberships.
DisableUser(u) ==
    /\ user[u] = "active"
    /\ user' = [user EXCEPT ![u] = "disabled"]
    /\ UNCHANGED <<org, member, restaurant, audit, refs, tx, begun>>

\* bootstrap-existing: the only user owns the organization of the only restaurant.
\* A repetition changes and records nothing.
BootstrapExisting ==
    /\ \E u \in Users, r \in Restaurants :
         /\ {v \in Users : user[v] # "none"} = {u} /\ user[u] = "active"
         /\ {s \in Restaurants : restaurant[s] # None} = {r}
         /\ restaurant[r] = Legacy
         /\ member[u].org \in {None, Legacy}
         /\ ~(member[u].role = "OWNER" /\ member[u].status = "active")
         /\ \A x \in Txs : ~HoldsShare(x, u) /\ ~HoldsRow(x, u)
         /\ member' = [member EXCEPT ![u].org = Legacy, ![u].role = "OWNER",
                                     ![u].status = "active"]
         /\ audit' = [org |-> Legacy, actor |-> u]
         /\ refs' = refs \cup {r}
    /\ UNCHANGED <<user, org, restaurant, tx, begun>>

-----------------------------------------------------------------------------
Init ==
    /\ user = [u \in Users |-> "none"]
    /\ org = {Legacy}
    /\ member = [u \in Users |-> NoMember]
    /\ restaurant = [r \in Restaurants |-> IF r \in Old THEN Legacy ELSE None]
    /\ audit = [org |-> None, actor |-> None]
    /\ refs = {}
    /\ tx = [x \in Txs |-> FreeTx]
    /\ begun = 0

TxStep(x) ==
    \/ LockOrganization(x) \/ ReadContext(x) \/ LockMembership(x)
    \/ CommitInvite(x) \/ CommitMembership(x)
    \/ CreateRestaurant(x) \/ UpdateRestaurant(x) \/ DeleteRestaurant(x)

Next ==
    \/ \E x \in Txs : BeginCommand(x) \/ TxStep(x) \/ BreakDeadlock(x)
    \/ \E u \in Users, o \in Orgs : CreateOrganization(u, o)
    \/ \E u \in Users : CreateUser(u) \/ DisableUser(u)
    \/ BootstrapExisting

Spec == Init /\ [][Next]_vars

-----------------------------------------------------------------------------
(* Properties *)

\* Every variable keeps its type.
TenancyTypeOK ==
    /\ user \in [Users -> {"none", "active", "disabled"}]
    /\ org \subseteq Orgs /\ member \in [Users -> Member]
    /\ restaurant \in [Restaurants -> Orgs \cup {None}]
    /\ refs \subseteq Restaurants
    /\ \A x \in Txs : tx[x].phase \in {"free", "begun", "org", "self", "target"}

\* Every organization has an active owner, the migrated one from its first member
\* on, whoever demotes or revokes whom at the same time (_owner serializes,
\* update_membership counts).
OrganizationsAreOwned ==
    \A o \in org :
        (o = Legacy /\ \A u \in Users : member[u].org # o) \/ Owners(o) # {}

\* What a command decided on is still so when it commits: no revocation, demotion
\* or reassignment slips in between (shared locks on membership and assignments).
ContextStaysTrue ==
    \A x \in Txs :
        tx[x].phase = "self" /\ ~Administers(x) => tx[x].ctx = member[tx[x].actor]

\* Commands that overlap leave every organization owned, and act only on a
\* membership that is still what they decided on.
CommandsSerialize ==
    /\ TenancyTypeOK
    /\ OrganizationsAreOwned
    /\ ContextStaysTrue

\* A command changes rows of its actor's organization only, and the audit entry
\* says so.
TenantsAreIsolated ==
    [][/\ \A u \in Users : member'[u] # member[u] => audit'.org = member'[u].org
       /\ \A r \in Restaurants :
            (restaurant'[r] # restaurant[r] \/ r \in refs' \ refs) =>
                audit'.org \in {restaurant[r], restaurant'[r]}
       /\ audit' # audit => audit'.org = member'[audit'.actor].org]_vars

\* Owners who administer side by side never wait for one another in a circle:
\* each deadlock has a business write in it (_owner, "consistently across admins").
AdminsDoNotDeadlock ==
    \A X \in SUBSET {x \in Txs : Administers(x)} : ~Deadlocked(X)

\* No change of a membership takes the last owner who can sign in (tenancy.md:
\* "An Owner cannot remove or demote the last active Owner").
LastActiveOwnerStays ==
    [][user' = user =>
         \A o \in org : ActiveOwners(o) # {} => ActiveOwners(o)' # {}]_vars

=============================================================================
