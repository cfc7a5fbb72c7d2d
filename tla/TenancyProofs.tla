--------------------------- MODULE TenancyProofs ---------------------------
(***************************************************************************)
(* Proofs about Tenancy, for every set of users, organizations,            *)
(* restaurants and transactions.                                           *)
(*                                                                         *)
(* What a command decides on under its locks is the part of its locks'     *)
(* exclusion: an organization has one administrator at a time, and a       *)
(* membership that is being changed is shared by nobody.  TInv says so of  *)
(* every transaction, phase by phase.                                      *)
(***************************************************************************)
EXTENDS Tenancy, FiniteSetTheorems, TLAPS

Phases == {"free", "begun", "org", "self", "target"}

Tx == [phase: Phases, op: Admin \cup Business, actor: Users \cup {None},
       org: Orgs \cup {None}, target: Users \cup Restaurants \cup {None},
       role: Roles \cup {None}, scope: (SUBSET Restaurants) \cup {None}, ctx: Member]

RowsTyped ==
    /\ user \in [Users -> {"none", "active", "disabled"}]
    /\ org \subseteq Orgs /\ Legacy \in org
    /\ member \in [Users -> Member]
    /\ restaurant \in [Restaurants -> Orgs \cup {None}]
    /\ refs \subseteq Restaurants

\* Active members belong to organizations that exist.
MembersPlaced == \A u \in Users : member[u].status = "active" => member[u].org \in org

\* A command knows its actor, who stays in the organization the command locks.
Named(x) ==
    LET t == tx[x]
    IN /\ t.actor \in Users /\ t.org = member[t.actor].org /\ t.org \in org
       /\ IF t.op \in Admin THEN t.target \in Users ELSE t.target \in Restaurants
       /\ t.op = "invite" => t.role \in Roles /\ t.scope \in SUBSET Restaurants
       /\ t.phase = "org" => t.op \in Admin

\* What the command decided on is still so, and it was allowed to decide.
InContext(x) ==
    LET t == tx[x]
    IN t.ctx = member[t.actor] /\ t.ctx.status = "active" /\ Allowed(t.ctx.role, t.op)

\* The membership under change is the organization's, and if it ceases to be an
\* owner's, another owner remains.
Guarded(x) ==
    LET t == tx[x]
    IN /\ t.op \in {"update", "revoke"} /\ member[t.target].org = t.ctx.org
       /\ RemovesOwner(member[t.target], t) => \E u \in Owners(t.ctx.org) : u # t.target

CommandOK(x) ==
    /\ tx[x].phase # "free" => Named(x)
    /\ tx[x].phase \in {"self", "target"} => InContext(x)
    /\ tx[x].phase = "target" => Guarded(x)

\* An organization is administered by one transaction at a time.
OrgsExclusive ==
    \A x, y \in Txs : \A o \in Orgs : HoldsOrg(x, o) /\ HoldsOrg(y, o) => x = y

\* A membership under change is locked by nobody else.
RowsExclusive ==
    \A x, y \in Txs : \A u \in Users :
        HoldsRow(x, u) /\ (HoldsRow(y, u) \/ HoldsShare(y, u)) => x = y

TInv ==
    /\ RowsTyped
    /\ tx \in [Txs -> Tx]
    /\ MembersPlaced
    /\ OrganizationsAreOwned
    /\ \A x \in Txs : CommandOK(x)
    /\ OrgsExclusive
    /\ RowsExclusive

-----------------------------------------------------------------------------
(* What a step leaves to the commands it does not carry out *)

\* A free command and a membership that was never made have their types.
LEMMA Blanks ==
    /\ FreeTx \in Tx /\ FreeTx.phase = "free"
    /\ NoMember \in Member /\ NoMember.org = None /\ NoMember.status = "revoked"
  BY DEF FreeTx, Tx, Phases, Admin, Business, NoMember, Member, Roles

\* Before the first account there is nothing to own.
LEMMA InitTInv == Init => TInv
  BY Blanks, LegacyAssumption, NoneAssumption
  DEF Init, TInv, RowsTyped, MembersPlaced, OrganizationsAreOwned, CommandOK, OrgsExclusive,
      RowsExclusive, HoldsOrg, HoldsRow

\* A command goes on if the memberships it holds stay, its actor stays in the
\* organization, and no owner is taken from it.
LEMMA CommandKept ==
  ASSUME TInv, NEW z \in Txs, tx'[z] = tx[z], org \subseteq org',
         tx[z].phase # "free" => member'[tx[z].actor].org = member[tx[z].actor].org,
         tx[z].phase \in {"self", "target"} =>
            member'[tx[z].actor] = member[tx[z].actor],
         tx[z].phase = "target" =>
            /\ member'[tx[z].target] = member[tx[z].target]
            /\ \A u \in Owners(tx[z].ctx.org) : member'[u] = member[u]
  PROVE  CommandOK(z)'
  <1>1. CommandOK(z)
    BY DEF TInv
  <1>2. tx'[z].phase # "free" => Named(z)'
    BY <1>1 DEF CommandOK, Named
  <1>3. tx'[z].phase \in {"self", "target"} => InContext(z)'
    BY <1>1 DEF CommandOK, InContext
  <1>4. tx'[z].phase = "target" => Guarded(z)'
    BY <1>1 DEF CommandOK, Guarded, Owners, RemovesOwner
  <1> QED
    BY <1>2, <1>3, <1>4 DEF CommandOK

\* Locks stay exclusive when commands go on with theirs or release them.
LEMMA LocksKept ==
  ASSUME TInv, \A z \in Txs : tx'[z] = tx[z] \/ tx'[z].phase = "free"
  PROVE  OrgsExclusive' /\ RowsExclusive'
  BY DEF TInv, OrgsExclusive, RowsExclusive, HoldsOrg, HoldsRow, HoldsShare, Administers

\* A command that takes its next step and changes no membership.
LEMMA QuietTInv ==
  ASSUME TInv, NEW x \in Txs, NEW y \in Tx, tx' = [tx EXCEPT ![x] = y],
         UNCHANGED <<member, org>>, RowsTyped',
         CommandOK(x)',
         \A z \in Txs \ {x} : \A o \in Orgs : ~(HoldsOrg(x, o)' /\ HoldsOrg(z, o)),
         \A z \in Txs \ {x} : \A u \in Users :
            /\ HoldsRow(x, u)' => ~HoldsRow(z, u) /\ ~HoldsShare(z, u)
            /\ HoldsShare(x, u)' => ~HoldsRow(z, u)
  PROVE  TInv'
  <1>1. /\ tx' \in [Txs -> Tx] /\ tx'[x] = y
        /\ \A z \in Txs : z # x => tx'[z] = tx[z]
    BY DEF TInv
  <1>2. MembersPlaced' /\ OrganizationsAreOwned'
    BY DEF TInv, MembersPlaced, OrganizationsAreOwned, Owners
  <1>3. \A z \in Txs : CommandOK(z)'
    BY <1>1, CommandKept
  <1>4. ASSUME NEW z \in Txs \ {x}
        PROVE  /\ \A o \in Orgs : HoldsOrg(z, o)' => HoldsOrg(z, o)
               /\ \A u \in Users : HoldsRow(z, u)' => HoldsRow(z, u)
               /\ \A u \in Users : HoldsShare(z, u)' => HoldsShare(z, u)
    <2>1. tx'[z] = tx[z]
      BY <1>1
    <2> QED
      BY <2>1 DEF HoldsOrg, HoldsRow, HoldsShare, Administers
  <1>5. OrgsExclusive'
    BY <1>4 DEF TInv, OrgsExclusive
  <1>6. RowsExclusive'
    <2> SUFFICES ASSUME NEW v \in Txs, NEW w \in Txs, NEW u \in Users, v # w,
                        HoldsRow(v, u)'
                 PROVE  ~HoldsRow(w, u)' /\ ~HoldsShare(w, u)'
      BY DEF RowsExclusive
    <2>1. CASE v = x
      BY <1>4, <2>1
    <2>2. CASE w = x
      BY <1>4, <2>2
    <2>3. CASE v # x /\ w # x
      BY <1>4, <2>3 DEF TInv, RowsExclusive
    <2> QED
      BY <2>1, <2>2, <2>3
  <1> QED
    BY <1>1, <1>2, <1>3, <1>5, <1>6 DEF TInv

\* A command that ends and changes no membership.
LEMMA FreeTInv ==
  ASSUME TInv, NEW x \in Txs, Free(x), UNCHANGED <<member, org>>, RowsTyped'
  PROVE  TInv'
  <1>1. tx' = [tx EXCEPT ![x] = FreeTx] /\ tx'[x] = FreeTx
    BY DEF Free, TInv
  <1>2. CommandOK(x)' /\ \A u \in Users : ~HoldsRow(x, u)' /\ ~HoldsShare(x, u)'
    BY <1>1, Blanks DEF CommandOK, HoldsRow, HoldsShare
  <1>3. \A o \in Orgs : ~HoldsOrg(x, o)'
    BY <1>1, Blanks DEF HoldsOrg
  <1> QED
    BY <1>1, <1>2, <1>3, Blanks, QuietTInv

-----------------------------------------------------------------------------
(* Steps that change no membership *)

\* A command begins for an active member.
LEMMA BeginTInv == ASSUME TInv, NEW x \in Txs, BeginCommand(x) PROVE TInv'
  <1>1. PICK u \in Users, op \in Admin \cup Business, target \in Users \cup Restaurants,
             role \in Roles \cup {None}, scope \in (SUBSET Restaurants) \cup {None} :
          /\ user[u] = "active"
          /\ member[u].status = "active"
          /\ (op \in Admin) = (target \in Users)
          /\ op \notin {"invite", "update"} => role = None /\ scope = None
          /\ op = "invite" => role # None /\ scope # None
          /\ tx' = [tx EXCEPT ![x] =
               [phase |-> "begun", op |-> op, actor |-> u, org |-> member[u].org,
                target |-> target, role |-> role, scope |-> scope, ctx |-> NoMember]]
    BY Zenon DEF BeginCommand
  <1> DEFINE new == [phase |-> "begun", op |-> op, actor |-> u, org |-> member[u].org,
                     target |-> target, role |-> role, scope |-> scope, ctx |-> NoMember]
  <1>2. PICK y : y = new
    OBVIOUS
  <1>3. tx' = [tx EXCEPT ![x] = y] /\ tx'[x] = y
    BY <1>1, <1>2 DEF TInv
  <1>4. /\ y.phase = "begun" /\ y.op = op /\ y.actor = u /\ y.org = member[u].org
        /\ y.target = target /\ y.role = role /\ y.scope = scope
    BY <1>2
  <1>5. member[u].org \in org /\ member[u].org \in Orgs
    BY <1>1 DEF TInv, MembersPlaced, RowsTyped
  <1>6. y \in Tx
    BY <1>2, <1>5, Blanks DEF Tx, Phases
  <1> HIDE DEF new
  <1>7. UNCHANGED rows
    BY DEF BeginCommand
  <1>8. RowsTyped' /\ UNCHANGED <<member, org>>
    BY <1>7 DEF rows, TInv, RowsTyped
  <1>9. CommandOK(x)'
    <2>1. Named(x)'
      BY <1>1, <1>3, <1>4, <1>5, <1>8 DEF Named
    <2> QED
      BY <1>3, <1>4, <2>1 DEF CommandOK
  <1>10. /\ \A o \in Orgs : ~HoldsOrg(x, o)'
         /\ \A v \in Users : ~HoldsRow(x, v)' /\ ~HoldsShare(x, v)'
    BY <1>3, <1>4 DEF HoldsOrg, HoldsRow, HoldsShare
  <1> QED
    BY <1>3, <1>6, <1>8, <1>9, <1>10, QuietTInv

\* _owner waits until nobody administers the organization.
LEMMA LockOrganizationTInv == ASSUME TInv, NEW x \in Txs, LockOrganization(x) PROVE TInv'
  <1>1. PICK y : y = [tx[x] EXCEPT !.phase = "org"]
    OBVIOUS
  <1>2. tx[x] \in Tx /\ tx \in [Txs -> Tx] /\ CommandOK(x) /\ tx[x].phase = "begun"
        /\ Administers(x) /\ OrgBlockers(x) = {}
    BY DEF TInv, LockOrganization
  <1>3. tx' = [tx EXCEPT ![x] = y]
    BY <1>1, <1>2 DEF LockOrganization
  <1>4. y \in Tx /\ tx'[x] = y
    BY <1>1, <1>2, <1>3 DEF Tx, Phases
  <1>5. /\ y.phase = "org" /\ y.op = tx[x].op /\ y.actor = tx[x].actor
        /\ y.org = tx[x].org /\ y.target = tx[x].target
        /\ y.role = tx[x].role /\ y.scope = tx[x].scope
    BY <1>1, <1>2 DEF Tx
  <1>6. RowsTyped' /\ UNCHANGED <<member, org>>
    BY DEF LockOrganization, rows, TInv, RowsTyped
  <1>7. CommandOK(x)'
    <2>1. Named(x)'
      BY <1>2, <1>4, <1>5, <1>6 DEF CommandOK, Named, Administers
    <2> QED
      BY <1>4, <1>5, <2>1 DEF CommandOK
  <1>8. /\ \A o \in Orgs : HoldsOrg(x, o)' => o = tx[x].org
        /\ \A v \in Users : ~HoldsRow(x, v)' /\ ~HoldsShare(x, v)'
    BY <1>4, <1>5 DEF HoldsOrg, HoldsRow, HoldsShare
  <1>9. \A z \in Txs \ {x} : ~HoldsOrg(z, tx[x].org)
    BY <1>2 DEF OrgBlockers
  <1> QED
    BY <1>3, <1>4, <1>6, <1>7, <1>8, <1>9, QuietTInv

\* current(lock=True) waits until the membership of the actor is not being changed.
LEMMA ReadContextTInv == ASSUME TInv, NEW x \in Txs, ReadContext(x) PROVE TInv'
  <1>1. /\ tx[x] \in Tx /\ tx \in [Txs -> Tx] /\ CommandOK(x) /\ ShareBlockers(x) = {}
        /\ tx[x].phase = IF Administers(x) THEN "org" ELSE "begun"
        /\ RowsTyped' /\ UNCHANGED <<member, org>>
    BY DEF TInv, ReadContext, rows, RowsTyped
  <1>2. Named(x)
    BY <1>1 DEF CommandOK
  <1>3. CASE member[tx[x].actor].status = "active"
             /\ Allowed(member[tx[x].actor].role, tx[x].op)
    <2>1. PICK y : y = [tx[x] EXCEPT !.phase = "self", !.ctx = member[tx[x].actor]]
      OBVIOUS
    <2>2. tx' = [tx EXCEPT ![x] = y]
      BY <1>1, <1>3, <2>1 DEF ReadContext
    <2>3. member[tx[x].actor] \in Member
      BY <1>2 DEF Named, TInv, RowsTyped
    <2>4. y \in Tx /\ tx'[x] = y
      BY <1>1, <2>1, <2>2, <2>3 DEF Tx, Phases
    <2>5. /\ y.phase = "self" /\ y.op = tx[x].op /\ y.actor = tx[x].actor
          /\ y.org = tx[x].org /\ y.target = tx[x].target
          /\ y.role = tx[x].role /\ y.scope = tx[x].scope /\ y.ctx = member[tx[x].actor]
      BY <1>1, <2>1 DEF Tx
    <2>6. CommandOK(x)'
      <3>1. Named(x)'
        BY <1>1, <1>2, <2>4, <2>5 DEF Named
      <3>2. InContext(x)'
        BY <1>1, <1>3, <2>4, <2>5 DEF InContext
      <3> QED
        BY <2>4, <2>5, <3>1, <3>2 DEF CommandOK
    <2>7. /\ \A o \in Orgs : HoldsOrg(x, o)' => HoldsOrg(x, o)
          /\ \A v \in Users : ~HoldsRow(x, v)' /\ (HoldsShare(x, v)' => v = tx[x].actor)
      BY <1>1, <2>4, <2>5 DEF HoldsOrg, HoldsRow, HoldsShare, Administers
    <2>8. \A z \in Txs \ {x} : ~HoldsRow(z, tx[x].actor)
      BY <1>1 DEF ShareBlockers
    <2>9. \A z \in Txs \ {x} : \A o \in Orgs : ~(HoldsOrg(x, o)' /\ HoldsOrg(z, o))
      BY <2>7 DEF TInv, OrgsExclusive
    <2> QED
      BY <1>1, <2>2, <2>4, <2>6, <2>7, <2>8, <2>9, QuietTInv
  <1>4. CASE ~(/\ member[tx[x].actor].status = "active"
               /\ Allowed(member[tx[x].actor].role, tx[x].op))
    BY <1>1, <1>4, FreeTInv DEF ReadContext
  <1> QED
    BY <1>3, <1>4

\* More than one active owner: one of them is not the target.
LEMMA AnotherOwner ==
  ASSUME TInv, NEW o \in Orgs, NEW u \in Users, ~(OwnerCount(o) <= 1)
  PROVE  \E v \in Owners(o) : v # u
  <1> SUFFICES ASSUME \A v \in Owners(o) : v = u PROVE OwnerCount(o) <= 1
    OBVIOUS
  <1>1. ActiveOwners(o) \subseteq {u}
    BY DEF ActiveOwners
  <1>2. IsFiniteSet({u}) /\ Cardinality({u}) = 1
    BY FS_Singleton
  <1>3. Cardinality(ActiveOwners(o)) <= Cardinality({u})
    BY <1>1, <1>2, FS_Subset
  <1> QED
    BY <1>2, <1>3 DEF OwnerCount

\* update_membership waits until nobody uses the membership, and counts owners.
LEMMA LockMembershipTInv == ASSUME TInv, NEW x \in Txs, LockMembership(x) PROVE TInv'
  <1>1. /\ tx[x] \in Tx /\ tx \in [Txs -> Tx] /\ CommandOK(x) /\ RowBlockers(x) = {}
        /\ tx[x].phase = "self" /\ tx[x].op \in {"update", "revoke"}
        /\ RowsTyped' /\ UNCHANGED <<member, org>>
    BY DEF TInv, LockMembership, rows, RowsTyped
  <1>2. Named(x) /\ InContext(x) /\ tx[x].target \in Users
    BY <1>1 DEF CommandOK, Named, Admin
  <1> DEFINE m == member[tx[x].target]
             refused == RemovesOwner(m, tx[x]) /\ OwnerCount(tx[x].ctx.org) <= 1
  <1>3. CASE SameTenant(m, tx[x].ctx) /\ ~refused
    <2>1. PICK y : y = [tx[x] EXCEPT !.phase = "target"]
      OBVIOUS
    <2>2. tx' = [tx EXCEPT ![x] = y]
      BY <1>1, <1>3, <2>1 DEF LockMembership
    <2>3. y \in Tx /\ tx'[x] = y
      BY <1>1, <2>1, <2>2 DEF Tx, Phases
    <2>4. /\ y.phase = "target" /\ y.op = tx[x].op /\ y.actor = tx[x].actor
          /\ y.org = tx[x].org /\ y.target = tx[x].target
          /\ y.role = tx[x].role /\ y.scope = tx[x].scope /\ y.ctx = tx[x].ctx
      BY <1>1, <2>1 DEF Tx
    <2>5. CommandOK(x)'
      <3>1. Named(x)' /\ InContext(x)'
        BY <1>1, <1>2, <2>3, <2>4 DEF Named, InContext
      <3>2. tx[x].ctx.org \in Orgs
        BY <1>2 DEF Named, InContext, TInv, RowsTyped
      <3>3. RemovesOwner(m, tx[x]) => \E u \in Owners(tx[x].ctx.org) : u # tx[x].target
        BY <1>2, <1>3, <3>2, AnotherOwner
      <3>4. Guarded(x)'
        BY <1>1, <1>3, <2>3, <2>4, <3>3 DEF Guarded, SameTenant, Owners, RemovesOwner
      <3> QED
        BY <3>1, <3>4 DEF CommandOK
    <2>6. /\ \A o \in Orgs : HoldsOrg(x, o)' => HoldsOrg(x, o)
          /\ \A v \in Users : /\ HoldsRow(x, v)' => v = tx[x].target
                              /\ HoldsShare(x, v)' => HoldsShare(x, v)
      BY <1>1, <2>3, <2>4 DEF HoldsOrg, HoldsRow, HoldsShare, Administers
    <2>7. \A z \in Txs \ {x} : ~HoldsRow(z, tx[x].target) /\ ~HoldsShare(z, tx[x].target)
      BY <1>1, <1>3 DEF RowBlockers
    <2>8. \A z \in Txs \ {x} : \A o \in Orgs : ~(HoldsOrg(x, o)' /\ HoldsOrg(z, o))
      BY <2>6 DEF TInv, OrgsExclusive
    <2>9. \A z \in Txs \ {x} : \A v \in Users : HoldsShare(x, v)' => ~HoldsRow(z, v)
      BY <2>6 DEF TInv, RowsExclusive
    <2> QED
      BY <1>1, <2>2, <2>3, <2>5, <2>6, <2>7, <2>8, <2>9, QuietTInv
  <1>4. CASE ~(SameTenant(m, tx[x].ctx) /\ ~refused)
    BY <1>1, <1>4, FreeTInv DEF LockMembership
  <1> QED
    BY <1>3, <1>4

\* The operator's commands on accounts touch no membership.
LEMMA AccountTInv ==
  ASSUME TInv, NEW u \in Users, CreateUser(u) \/ DisableUser(u) PROVE TInv'
  <1>1. RowsTyped' /\ UNCHANGED <<org, member, tx>>
    BY DEF TInv, RowsTyped, CreateUser, DisableUser
  <1>2. MembersPlaced' /\ OrganizationsAreOwned' /\ OrgsExclusive' /\ RowsExclusive'
    BY <1>1, LocksKept DEF TInv, MembersPlaced, OrganizationsAreOwned, Owners
  <1>3. \A z \in Txs : CommandOK(z)'
    BY <1>1, CommandKept
  <1> QED
    BY <1>1, <1>2, <1>3 DEF TInv

\* Writes to restaurants, and the end of a deadlock.
LEMMA BusinessTInv ==
  ASSUME TInv, NEW x \in Txs,
         \/ CreateRestaurant(x) \/ UpdateRestaurant(x) \/ DeleteRestaurant(x)
         \/ BreakDeadlock(x)
  PROVE  TInv'
  <1>1. CASE BreakDeadlock(x)
    <2>1. RowsTyped' /\ UNCHANGED <<member, org>> /\ Free(x)
      BY <1>1 DEF BreakDeadlock, rows, TInv, RowsTyped
    <2> QED
      BY <2>1, FreeTInv
  <1>2. CASE CreateRestaurant(x) \/ UpdateRestaurant(x) \/ DeleteRestaurant(x)
    <2>1. /\ CommandOK(x) /\ tx[x].phase = "self"
          /\ tx[x].op \in {"create", "update_branch", "delete"}
      BY <1>2 DEF TInv, CreateRestaurant, UpdateRestaurant, DeleteRestaurant, Writes
    <2>2. /\ tx[x].target \in Restaurants /\ tx[x].ctx.org \in Orgs
      BY <2>1 DEF CommandOK, Named, InContext, Admin, TInv, RowsTyped
    <2>3. Free(x) /\ UNCHANGED <<user, member, org>>
      BY <1>2 DEF CreateRestaurant, UpdateRestaurant, DeleteRestaurant
    <2>4. RowsTyped'
      BY <1>2, <2>2, <2>3
      DEF TInv, RowsTyped, CreateRestaurant, UpdateRestaurant, DeleteRestaurant
    <2> QED
      BY <2>3, <2>4, FreeTInv
  <1> QED
    BY <1>1, <1>2

-----------------------------------------------------------------------------
(* Steps that change a membership *)

\* A user without a membership gets one, in an organization that has an owner or in
\* a new one that the user owns.
LEMMA JoinTInv ==
  ASSUME TInv, NEW u \in Users, member[u] = NoMember,
         NEW m \in Member, m.status = "active", m.org \in Orgs,
         member' = [member EXCEPT ![u] = m], org' = org \cup {m.org},
         m.role = "OWNER" \/ Owners(m.org) # {},
         UNCHANGED <<user, restaurant, refs>>, tx' \in [Txs -> Tx],
         \A z \in Txs : tx'[z] = tx[z] \/ tx'[z] = FreeTx
  PROVE  TInv'
  <1>1. /\ member \in [Users -> Member] /\ member'[u] = m
        /\ \A v \in Users : v # u => member'[v] = member[v]
    BY DEF TInv, RowsTyped
  <1>2. RowsTyped'
    BY DEF TInv, RowsTyped
  <1>3. MembersPlaced'
    BY <1>1 DEF TInv, MembersPlaced
  <1>4. \A o \in Orgs : Owners(o) \subseteq Owners(o)'
    BY <1>1, Blanks DEF Owners
  <1>5. OrganizationsAreOwned'
    <2>1. Owners(m.org)' # {}
      <3>1. CASE m.role = "OWNER"
        <4>1. u \in Owners(m.org)'
          BY <1>1, <3>1 DEF Owners
        <4> QED
          BY <4>1
      <3> QED
        BY <1>4, <3>1
    <2>2. ASSUME NEW o \in org', o # m.org
          PROVE  (o = Legacy /\ \A v \in Users : member'[v].org # o) \/ Owners(o)' # {}
      <3>1. o \in org /\ o \in Orgs
        BY <2>2 DEF TInv, RowsTyped
      <3> QED
        BY <1>1, <1>4, <2>2, <3>1 DEF TInv, OrganizationsAreOwned
    <2> QED
      BY <2>1, <2>2 DEF OrganizationsAreOwned
  <1>6. ASSUME NEW z \in Txs, tx'[z] = tx[z] PROVE CommandOK(z)'
    <2>1. tx[z].phase # "free" => tx[z].actor \in Users /\ tx[z].actor # u
      BY Blanks, NoneAssumption DEF TInv, CommandOK, Named, RowsTyped
    <2>2. tx[z].phase = "target" => /\ tx[z].target \in Users
                                   /\ member[tx[z].target].org = member[tx[z].actor].org
                                   /\ member[tx[z].actor].org \in Orgs
      BY DEF TInv, CommandOK, Named, InContext, Guarded, RowsTyped, Admin
    <2>3. tx[z].phase = "target" => tx[z].target # u
      BY <2>2, Blanks, NoneAssumption
    <2>4. \A v \in Owners(tx[z].ctx.org) : v # u /\ v \in Users
      BY Blanks DEF Owners
    <2> QED
      BY <1>1, <1>6, <2>1, <2>2, <2>3, <2>4, CommandKept
  <1>7. \A z \in Txs : CommandOK(z)'
    BY <1>6, Blanks DEF CommandOK
  <1>8. OrgsExclusive' /\ RowsExclusive'
    BY LocksKept, Blanks
  <1> QED
    BY <1>2, <1>3, <1>5, <1>7, <1>8 DEF TInv

\* create_membership: the owner who invites is an owner of the organization.
LEMMA InviteTInv == ASSUME TInv, NEW x \in Txs, CommitInvite(x) PROVE TInv'
  <1>1. /\ CommandOK(x) /\ tx[x].phase = "self" /\ tx[x].op = "invite" /\ Free(x)
        /\ UNCHANGED <<user, org, restaurant, refs>>
    BY DEF TInv, CommitInvite
  <1>2. /\ tx[x].actor \in Users /\ tx[x].target \in Users
        /\ tx[x].role \in Roles /\ tx[x].scope \in SUBSET Restaurants
        /\ tx[x].ctx = member[tx[x].actor] /\ tx[x].ctx.status = "active"
        /\ tx[x].ctx.role = "OWNER" /\ tx[x].ctx.org \in org /\ tx[x].ctx.org \in Orgs
    BY <1>1 DEF CommandOK, Named, InContext, Allowed, Admin, TInv, RowsTyped
  <1>3. CASE UNCHANGED member
    <2>1. RowsTyped'
      BY <1>1, <1>3 DEF TInv, RowsTyped
    <2> QED
      BY <1>1, <1>3, <2>1, FreeTInv
  <1>4. CASE ~UNCHANGED member
    <2> DEFINE m == [org |-> tx[x].ctx.org, role |-> tx[x].role, status |-> "active",
                     scope |-> tx[x].scope]
    <2>1. member[tx[x].target] = NoMember /\ member' = [member EXCEPT ![tx[x].target] = m]
      BY <1>4 DEF CommitInvite
    <2>2. PICK new : new = m
      OBVIOUS
    <2>3. /\ new \in Member /\ new.status = "active" /\ new.org = tx[x].ctx.org
          /\ member' = [member EXCEPT ![tx[x].target] = new]
      BY <1>2, <2>1, <2>2 DEF Member
    <2>4. tx[x].actor \in Owners(new.org)
      BY <1>2, <2>3 DEF Owners
    <2>5. /\ tx' \in [Txs -> Tx] /\ org' = org \cup {new.org}
          /\ \A z \in Txs : tx'[z] = tx[z] \/ tx'[z] = FreeTx
      BY <1>1, <1>2, <2>3, Blanks DEF Free, TInv
    <2> QED
      BY <1>1, <1>2, <2>1, <2>3, <2>4, <2>5, JoinTInv
  <1> QED
    BY <1>3, <1>4

\* create_organization makes its first owner.
LEMMA OrganizationTInv ==
  ASSUME TInv, NEW u \in Users, NEW o \in Orgs, CreateOrganization(u, o) PROVE TInv'
  <1>1. PICK new : new = [org |-> o, role |-> "OWNER", status |-> "active", scope |-> {}]
    OBVIOUS
  <1>2. /\ new \in Member /\ new.status = "active" /\ new.org = o /\ new.role = "OWNER"
    BY <1>1 DEF Member, Roles
  <1>3. /\ member[u] = NoMember /\ member' = [member EXCEPT ![u] = new]
        /\ org' = org \cup {new.org} /\ UNCHANGED <<user, restaurant, refs, tx>>
    BY <1>1, <1>2 DEF CreateOrganization
  <1>4. tx' \in [Txs -> Tx]
    BY <1>3 DEF TInv
  <1> QED
    BY <1>2, <1>3, <1>4, JoinTInv

\* The command that changes a membership, and what it is entitled to.
LEMMA GuardedAt ==
  ASSUME TInv, NEW x \in Txs, tx[x].phase = "target"
  PROVE  /\ tx[x].op \in {"update", "revoke"} /\ Administers(x)
         /\ tx[x].actor \in Users /\ tx[x].target \in Users
         /\ tx[x].ctx = member[tx[x].actor] /\ tx[x].ctx.status = "active"
         /\ tx[x].ctx.role = "OWNER" /\ tx[x].org = tx[x].ctx.org
         /\ tx[x].org \in org /\ tx[x].org \in Orgs
         /\ member[tx[x].target].org = tx[x].org
         /\ RemovesOwner(member[tx[x].target], tx[x]) =>
               \E u \in Owners(tx[x].org) : u # tx[x].target
  <1>1. Named(x) /\ InContext(x) /\ Guarded(x)
    BY DEF TInv, CommandOK
  <1>2. tx[x].op \in {"update", "revoke"} /\ tx[x].op \in Admin
    BY <1>1 DEF Guarded, Admin
  <1> QED
    BY <1>1, <1>2 DEF Named, InContext, Guarded, Allowed, Administers, TInv, RowsTyped

\* update_membership changes a membership that nobody else uses, in an organization
\* that nobody else administers.
LEMMA MembershipTInv == ASSUME TInv, NEW x \in Txs, CommitMembership(x) PROVE TInv'
  <1>1. /\ tx[x].phase = "target" /\ Free(x) /\ UNCHANGED <<user, org, restaurant, refs>>
        /\ tx[x] \in Tx
    BY DEF CommitMembership, TInv
  <1>2. CASE UNCHANGED member
    <2>1. RowsTyped'
      BY <1>1, <1>2 DEF TInv, RowsTyped
    <2> QED
      BY <1>1, <1>2, <2>1, FreeTInv
  <1>3. CASE ~UNCHANGED member
    <2>0. PICK u \in Users, o \in Orgs : u = tx[x].target /\ o = tx[x].org
      BY <1>1, GuardedAt
    <2>1. /\ u \in Users /\ o \in Orgs /\ o \in org /\ member[u].org = o
          /\ tx[x].actor \in Owners(o)
          /\ RemovesOwner(member[u], tx[x]) => \E v \in Owners(o) : v # u
      BY <1>1, <2>0, GuardedAt DEF Owners
    <2>2. /\ member \in [Users -> Member] /\ member[u] \in Member
      BY <2>1 DEF TInv, RowsTyped
    <2>3. PICK m : m = [member[u] EXCEPT
                          !.role = IF tx[x].role = None THEN @ ELSE tx[x].role,
                          !.status = IF tx[x].op = "revoke" THEN "revoked" ELSE @,
                          !.scope = IF tx[x].scope = None THEN @ ELSE tx[x].scope]
      OBVIOUS
    <2>4. /\ m \in Member /\ m.org = o
          /\ m.role = IF tx[x].role = None THEN member[u].role ELSE tx[x].role
          /\ m.status = IF tx[x].op = "revoke" THEN "revoked" ELSE member[u].status
      BY ZenonT(40), <1>1, <2>1, <2>2, <2>3 DEF Member, Tx
    <2>5. member' = [member EXCEPT ![u] = m]
      BY ZenonT(40), <1>3, <2>0, <2>2, <2>3 DEF CommitMembership, Member
    <2>6. member'[u] = m /\ \A v \in Users : v # u => member'[v] = member[v]
      BY <2>1, <2>2, <2>5
    <2>7. RowsTyped'
      BY <1>1, <2>1, <2>4, <2>5 DEF TInv, RowsTyped
    <2>8. MembersPlaced'
      BY <1>1, <2>1, <2>4, <2>6 DEF TInv, MembersPlaced
    <2>9. Owners(o)' # {}
      <3>1. \A v \in Owners(o) : v # u => v \in Owners(o)'
        BY <2>6 DEF Owners
      <3>2. CASE RemovesOwner(member[u], tx[x])
        BY <2>1, <3>1, <3>2
      <3>3. CASE ~RemovesOwner(member[u], tx[x]) /\ u \in Owners(o)
        <4>1. member[u].role = "OWNER" /\ member[u].status = "active"
          BY <3>3 DEF Owners
        <4>2. tx[x].op # "revoke" /\ tx[x].role \in {None, "OWNER"}
          BY <3>3, <4>1 DEF RemovesOwner
        <4>3. m.role = "OWNER" /\ m.status = "active"
          BY <2>4, <4>1, <4>2
        <4>4. u \in Owners(o)'
          BY <2>1, <2>4, <2>6, <4>3 DEF Owners
        <4> QED
          BY <4>4
      <3>4. CASE u \notin Owners(o)
        BY <2>1, <3>1, <3>4
      <3> QED
        BY <3>2, <3>3, <3>4
    <2>10. \A p \in Orgs : p # o => Owners(p)' = Owners(p)
      BY <2>1, <2>4, <2>6 DEF Owners
    <2>11. OrganizationsAreOwned'
      <3> SUFFICES ASSUME NEW p \in org
                   PROVE  \/ p = Legacy /\ \A v \in Users : member'[v].org # p
                          \/ Owners(p)' # {}
        BY <1>1 DEF OrganizationsAreOwned
      <3>1. p \in Orgs /\ \A v \in Users : member'[v].org = member[v].org
        BY <2>1, <2>4, <2>6 DEF TInv, RowsTyped
      <3> QED
        BY <2>9, <2>10, <3>1 DEF TInv, OrganizationsAreOwned
    <2>12. ASSUME NEW z \in Txs, z # x PROVE CommandOK(z)'
      <3>1. tx'[z] = tx[z]
        BY <1>1, <2>12 DEF Free, TInv
      <3>2. HoldsRow(x, u) /\ HoldsOrg(x, o)
        BY <1>1, <2>0, GuardedAt DEF HoldsRow, HoldsOrg
      <3>3. ~HoldsRow(z, u) /\ ~HoldsShare(z, u)
        BY <2>1, <2>12, <3>2 DEF TInv, RowsExclusive
      <3>4. tx[z].phase # "free" => tx[z].actor \in Users
        BY DEF TInv, CommandOK, Named
      <3>5. tx[z].phase # "free" => member'[tx[z].actor].org = member[tx[z].actor].org
        BY <2>1, <2>4, <2>6, <3>4
      <3>6. tx[z].phase \in {"self", "target"} => member'[tx[z].actor] = member[tx[z].actor]
        BY <2>6, <3>3, <3>4 DEF HoldsShare
      <3>7. ASSUME tx[z].phase = "target"
            PROVE  /\ member'[tx[z].target] = member[tx[z].target]
                   /\ \A v \in Owners(tx[z].ctx.org) : member'[v] = member[v]
        <4>1. /\ Administers(z) /\ tx[z].target \in Users /\ tx[z].org \in Orgs
              /\ tx[z].org = tx[z].ctx.org
          BY <3>7, GuardedAt
        <4>2. tx[z].target # u
          BY <3>3, <3>7, <4>1 DEF HoldsRow
        <4>3. tx[z].org # o
          BY <2>12, <3>2, <3>7, <4>1 DEF TInv, OrgsExclusive, HoldsOrg
        <4>4. u \notin Owners(tx[z].ctx.org)
          BY <2>1, <4>1, <4>3 DEF Owners
        <4>5. \A v \in Owners(tx[z].ctx.org) : v \in Users
          BY DEF Owners
        <4> QED
          BY <2>6, <4>1, <4>2, <4>4, <4>5
      <3> QED
        BY <1>1, <3>1, <3>5, <3>6, <3>7, CommandKept
    <2>13. tx' \in [Txs -> Tx] /\ tx'[x] = FreeTx
           /\ \A z \in Txs : tx'[z] = tx[z] \/ tx'[z] = FreeTx
      BY <1>1, Blanks DEF Free, TInv
    <2>14. CommandOK(x)' /\ OrgsExclusive' /\ RowsExclusive'
      BY <2>13, Blanks, LocksKept DEF CommandOK
    <2> QED
      BY <2>7, <2>8, <2>11, <2>12, <2>13, <2>14 DEF TInv
  <1> QED
    BY <1>2, <1>3

\* bootstrap-existing waits for the row of the user that it makes an owner.
LEMMA BootstrapTInv == ASSUME TInv, BootstrapExisting PROVE TInv'
  <1>1. PICK u \in Users, r \in Restaurants :
           /\ member[u].org \in {None, Legacy}
           /\ ~(member[u].role = "OWNER" /\ member[u].status = "active")
           /\ \A x \in Txs : ~HoldsShare(x, u) /\ ~HoldsRow(x, u)
           /\ member' = [member EXCEPT ![u].org = Legacy, ![u].role = "OWNER",
                                       ![u].status = "active"]
           /\ refs' = refs \cup {r}
    BY DEF BootstrapExisting
  <1>2. /\ member \in [Users -> Member] /\ member[u] \in Member
        /\ Legacy \in org /\ Legacy \in Orgs /\ UNCHANGED <<user, org, restaurant, tx>>
    BY LegacyAssumption DEF TInv, RowsTyped, BootstrapExisting
  <1>3. PICK m : m = [member[u] EXCEPT !.org = Legacy, !.role = "OWNER", !.status = "active"]
    OBVIOUS
  <1>4. m \in Member /\ m.org = Legacy /\ m.role = "OWNER" /\ m.status = "active"
    BY <1>2, <1>3 DEF Member, Roles
  <1>5. member' = [member EXCEPT ![u] = m]
    BY <1>1, <1>2, <1>3 DEF Member
  <1>6. member'[u] = m /\ \A v \in Users : v # u => member'[v] = member[v]
    BY <1>2, <1>5
  <1>7. RowsTyped' /\ MembersPlaced'
    BY <1>1, <1>2, <1>4, <1>5, <1>6 DEF TInv, RowsTyped, MembersPlaced
  <1>8. u \in Owners(Legacy)' /\ \A o \in Orgs : Owners(o) \subseteq Owners(o)'
    BY <1>1, <1>4, <1>6 DEF Owners
  <1>9. OrganizationsAreOwned'
    BY <1>2, <1>8 DEF TInv, OrganizationsAreOwned, RowsTyped
  <1>10. ASSUME NEW z \in Txs PROVE CommandOK(z)'
    <2>1. tx[z].phase # "free" => /\ tx[z].actor \in Users
                                 /\ member[tx[z].actor].org \in Orgs
      BY DEF TInv, CommandOK, Named, RowsTyped
    <2>2. tx[z].phase # "free" => member'[tx[z].actor].org = member[tx[z].actor].org
      BY <1>1, <1>4, <1>6, <2>1, NoneAssumption
    <2>3. tx[z].phase \in {"self", "target"} => member'[tx[z].actor] = member[tx[z].actor]
      BY <1>1, <1>6, <2>1 DEF HoldsShare
    <2>4. tx[z].phase = "target" => member'[tx[z].target] = member[tx[z].target]
      BY <1>1, <1>6, GuardedAt DEF HoldsRow
    <2>5. \A v \in Owners(tx[z].ctx.org) : member'[v] = member[v]
      BY <1>1, <1>6 DEF Owners
    <2> QED
      BY <1>2, <2>2, <2>3, <2>4, <2>5, CommandKept
  <1>11. OrgsExclusive' /\ RowsExclusive'
    BY <1>2, LocksKept
  <1> QED
    BY <1>2, <1>7, <1>9, <1>10, <1>11 DEF TInv

\* Every step keeps the invariant.
LEMMA NextTInv == ASSUME TInv, [Next]_vars PROVE TInv'
  <1>1. CASE UNCHANGED vars
    <2>1. UNCHANGED <<user, org, member, restaurant, refs, tx>>
      BY <1>1 DEF vars
    <2>2. /\ RowsTyped' /\ MembersPlaced' /\ OrganizationsAreOwned' /\ OrgsExclusive'
          /\ RowsExclusive' /\ tx' \in [Txs -> Tx]
      BY <2>1, LocksKept
      DEF TInv, RowsTyped, MembersPlaced, OrganizationsAreOwned, Owners
    <2>3. \A z \in Txs : CommandOK(z)'
      BY <2>1, CommandKept
    <2> QED
      BY <2>2, <2>3 DEF TInv
  <1>2. ASSUME NEW x \in Txs, BeginCommand(x) \/ TxStep(x) \/ BreakDeadlock(x) PROVE TInv'
    BY <1>2, BeginTInv, LockOrganizationTInv, ReadContextTInv, LockMembershipTInv,
       InviteTInv, MembershipTInv, BusinessTInv DEF TxStep
  <1>3. ASSUME NEW u \in Users, NEW o \in Orgs, CreateOrganization(u, o) PROVE TInv'
    BY <1>3, OrganizationTInv
  <1>4. ASSUME NEW u \in Users, CreateUser(u) \/ DisableUser(u) PROVE TInv'
    BY <1>4, AccountTInv
  <1>5. CASE BootstrapExisting
    BY <1>5, BootstrapTInv
  <1> QED
    BY <1>1, <1>2, <1>3, <1>4, <1>5 DEF Next

-----------------------------------------------------------------------------
(* Theorems *)

\* Every reachable state satisfies the invariant.
THEOREM TenancyInvariant == Spec => []TInv
  <1>1. TInv /\ [Next]_vars => TInv'
    BY NextTInv
  <1> QED
    BY <1>1, InitTInv, PTL DEF Spec

\* Commands that overlap leave every organization owned, and act only on a membership
\* that is still what they decided on (_owner serializes administration, current()
\* shares the membership of the actor, update_membership counts under the lock).
THEOREM Serialized == Spec => []CommandsSerialize
  <1>1. TInv => CommandsSerialize
    <2>1. TInv => TenancyTypeOK
      BY DEF TInv, RowsTyped, Tx, Phases, TenancyTypeOK
    <2>2. TInv => ContextStaysTrue
      BY DEF TInv, CommandOK, InContext, ContextStaysTrue
    <2> QED
      BY <2>1, <2>2 DEF TInv, CommandsSerialize
  <1> QED
    BY <1>1, TenancyInvariant, PTL

\* Administrators alone never wait for one another in a circle: whoever holds an
\* organization waits for a membership only while a business write uses it (_owner
\* locks the organization before any membership).
THEOREM AdminsGoOn == Spec => []AdminsDoNotDeadlock
  <1>1. ASSUME TInv, NEW X \in SUBSET {x \in Txs : Administers(x)}, Deadlocked(X)
        PROVE  FALSE
    <2>1. X \subseteq Txs /\ \A x \in X : Administers(x)
      OBVIOUS
    <2>2. \A x \in X : tx[x].phase # "target"
      BY <1>1 DEF Deadlocked, Blockers
    <2>3. \A x \in X : tx[x].phase # "org"
      <3> SUFFICES ASSUME NEW x \in X, tx[x].phase = "org" PROVE FALSE
        OBVIOUS
      <3>1. PICK y \in X : y \in ShareBlockers(x)
        BY <1>1 DEF Deadlocked, Blockers
      <3> QED
        BY <2>2, <3>1 DEF ShareBlockers, HoldsRow
    <2>4. \A x \in X : tx[x].phase # "self"
      <3> SUFFICES ASSUME NEW x \in X, tx[x].phase = "self" PROVE FALSE
        OBVIOUS
      <3>1. tx[x].op \in {"update", "revoke"}
        BY <1>1, <2>1 DEF Deadlocked, Blockers
      <3>2. PICK y \in X : y \in RowBlockers(x)
        BY <1>1, <3>1 DEF Deadlocked, Blockers
      <3>3. /\ y \in Txs /\ y # x /\ Administers(y) /\ HoldsShare(y, tx[x].target)
            /\ SameTenant(member[tx[x].target], tx[x].ctx)
        BY <2>1, <2>2, <3>2 DEF RowBlockers, HoldsRow
      <3>4. /\ Named(x) /\ InContext(x) /\ Named(y) /\ Administers(x) /\ x \in Txs
        BY <1>1, <2>1, <3>3 DEF TInv, CommandOK, HoldsShare
      <3>5. tx[y].org = tx[x].org /\ tx[x].org \in Orgs
        BY <1>1, <3>3, <3>4 DEF Named, InContext, SameTenant, HoldsShare, TInv, RowsTyped
      <3>6. HoldsOrg(x, tx[x].org) /\ HoldsOrg(y, tx[x].org)
        BY <3>3, <3>4, <3>5 DEF HoldsOrg, HoldsShare
      <3> QED
        BY <1>1, <3>3, <3>4, <3>5, <3>6 DEF TInv, OrgsExclusive
    <2>5. \A x \in X : tx[x].phase # "begun"
      <3> SUFFICES ASSUME NEW x \in X, tx[x].phase = "begun" PROVE FALSE
        OBVIOUS
      <3>1. PICK y \in X : y \in OrgBlockers(x)
        BY <1>1, <2>1 DEF Deadlocked, Blockers
      <3> QED
        BY <2>2, <2>3, <2>4, <3>1 DEF OrgBlockers, HoldsOrg
    <2>6. PICK x : x \in X
      BY <1>1 DEF Deadlocked
    <2>7. Blockers(x) = {}
      BY <2>2, <2>3, <2>4, <2>5, <2>6 DEF Blockers
    <2> QED
      BY <1>1, <2>6, <2>7 DEF Deadlocked
  <1>2. TInv => AdminsDoNotDeadlock
    BY <1>1 DEF AdminsDoNotDeadlock
  <1> QED
    BY <1>2, TenancyInvariant, PTL

\* What TenantsAreIsolated says of one step.
Isolated ==
    /\ \A u \in Users : member'[u] # member[u] => audit'.org = member'[u].org
    /\ \A r \in Restaurants :
         (restaurant'[r] # restaurant[r] \/ r \in refs' \ refs) =>
             audit'.org \in {restaurant[r], restaurant'[r]}
    /\ audit' # audit => audit'.org = member'[audit'.actor].org

\* A command that commits changes rows of the organization of its actor.
LEMMA CommitIsolated ==
  ASSUME TInv, NEW x \in Txs,
         \/ CommitInvite(x) \/ CommitMembership(x)
         \/ CreateRestaurant(x) \/ UpdateRestaurant(x) \/ DeleteRestaurant(x)
  PROVE  Isolated
  <1>1. CASE UNCHANGED <<member, restaurant, refs, audit>>
    BY <1>1 DEF Isolated
  <1>2. /\ tx[x].phase \in {"self", "target"} /\ CommandOK(x)
    BY DEF CommitInvite, CommitMembership, CreateRestaurant, UpdateRestaurant,
           DeleteRestaurant, Writes, TInv
  <1>3. /\ tx[x].actor \in Users /\ tx[x].ctx = member[tx[x].actor]
        /\ tx[x].ctx.org \in Orgs
        /\ tx[x].op \in Admin => tx[x].target \in Users
        /\ tx[x].op \notin Admin => tx[x].target \in Restaurants
        /\ member \in [Users -> Member] /\ restaurant \in [Restaurants -> Orgs \cup {None}]
    BY <1>2 DEF CommandOK, Named, InContext, TInv, RowsTyped
  <1>4. ASSUME Record(tx[x].ctx, tx[x].actor)
        PROVE  audit'.org = member[tx[x].actor].org /\ audit'.actor = tx[x].actor
    BY <1>3, <1>4 DEF Record
  <1>5. CASE CommitInvite(x) /\ ~UNCHANGED <<member, restaurant, refs, audit>>
    <2>1. /\ Record(tx[x].ctx, tx[x].actor) /\ UNCHANGED <<restaurant, refs>>
          /\ member[tx[x].target] = NoMember
          /\ tx[x].op = "invite"
          /\ member' = [member EXCEPT ![tx[x].target] =
                [org |-> tx[x].ctx.org, role |-> tx[x].role, status |-> "active",
                 scope |-> tx[x].scope]]
      BY <1>5 DEF CommitInvite
    <2>2. tx[x].actor # tx[x].target
      BY <1>3, <2>1, Blanks, NoneAssumption
    <2>3. /\ \A u \in Users : u # tx[x].target => member'[u] = member[u]
          /\ member'[tx[x].target].org = member[tx[x].actor].org
      BY <1>3, <2>1 DEF Admin
    <2> QED
      BY <1>3, <1>4, <2>1, <2>2, <2>3 DEF Isolated
  <1>6. CASE CommitMembership(x) /\ ~UNCHANGED <<member, restaurant, refs, audit>>
    <2>1. /\ Record(tx[x].ctx, tx[x].actor) /\ UNCHANGED <<restaurant, refs>>
          /\ tx[x].phase = "target"
          /\ member' = [member EXCEPT
                ![tx[x].target].role = IF tx[x].role = None THEN @ ELSE tx[x].role,
                ![tx[x].target].status = IF tx[x].op = "revoke" THEN "revoked" ELSE @,
                ![tx[x].target].scope = IF tx[x].scope = None THEN @ ELSE tx[x].scope]
      BY <1>6 DEF CommitMembership
    <2>2. member[tx[x].target].org = member[tx[x].actor].org /\ tx[x].target \in Users
      BY ZenonT(40), <1>3, <2>1, GuardedAt
    <2>3. /\ \A u \in Users : u # tx[x].target => member'[u] = member[u]
          /\ \A u \in Users : member'[u].org = member[u].org
      <3>1. PICK t \in Users, m \in Member : t = tx[x].target /\ m = member[t]
        BY <1>3, <2>2
      <3>2. PICK n : n = [m EXCEPT
                            !.role = IF tx[x].role = None THEN @ ELSE tx[x].role,
                            !.status = IF tx[x].op = "revoke" THEN "revoked" ELSE @,
                            !.scope = IF tx[x].scope = None THEN @ ELSE tx[x].scope]
        OBVIOUS
      <3>3. n.org = m.org
        BY <3>1, <3>2 DEF Member
      <3>4. member' = [member EXCEPT ![t] = n]
        BY ZenonT(40), <1>3, <2>1, <3>1, <3>2 DEF Member
      <3>5. \A u \in Users : u # t => member'[u] = member[u]
        BY <1>3, <3>4
      <3>6. member'[t] = n
        BY <1>3, <3>1, <3>4
      <3> QED
        BY <3>1, <3>3, <3>5, <3>6
    <2> QED
      BY <1>3, <1>4, <2>1, <2>2, <2>3 DEF Isolated
  <1>7. CASE /\ CreateRestaurant(x) \/ UpdateRestaurant(x) \/ DeleteRestaurant(x)
             /\ ~UNCHANGED <<member, restaurant, refs, audit>>
    <2>1. Record(tx[x].ctx, tx[x].actor) /\ UNCHANGED member
      BY <1>7 DEF CreateRestaurant, UpdateRestaurant, DeleteRestaurant
    <2>2. tx[x].target \in Restaurants
      BY <1>3, <1>7
      DEF CreateRestaurant, UpdateRestaurant, DeleteRestaurant, Writes, Admin
    <2>3. /\ \A r \in Restaurants : r # tx[x].target =>
               restaurant'[r] = restaurant[r] /\ r \notin refs' \ refs
          /\ tx[x].ctx.org \in {restaurant[tx[x].target], restaurant'[tx[x].target]}
      BY <1>3, <1>7, <2>2
      DEF CreateRestaurant, UpdateRestaurant, DeleteRestaurant, InScope
    <2> QED
      BY <1>3, <1>4, <2>1, <2>3 DEF Isolated
  <1> QED
    BY <1>1, <1>5, <1>6, <1>7

\* A command changes rows of its actor's organization only, and the audit entry says
\* so (MembershipRepository.get and restaurant_scope look no further, record names the
\* organization of the context).
THEOREM Isolation == Spec => TenantsAreIsolated
  <1>1. ASSUME TInv, [Next]_vars PROVE Isolated
    <2>1. CASE UNCHANGED <<member, restaurant, refs, audit>>
      BY <2>1 DEF Isolated
    <2>2. ASSUME NEW x \in Txs, \/ BeginCommand(x) \/ BreakDeadlock(x) \/ LockOrganization(x)
                                \/ ReadContext(x) \/ LockMembership(x)
          PROVE  UNCHANGED <<member, restaurant, refs, audit>>
      BY <2>2 DEF BeginCommand, BreakDeadlock, LockOrganization, ReadContext,
                  LockMembership, rows
    <2>3. ASSUME NEW u \in Users, CreateUser(u) \/ DisableUser(u)
          PROVE  UNCHANGED <<member, restaurant, refs, audit>>
      BY <2>3 DEF CreateUser, DisableUser
    <2>4. ASSUME NEW u \in Users, NEW o \in Orgs, CreateOrganization(u, o) PROVE Isolated
      <3>1. /\ member'[u].org = o /\ \A v \in Users : v # u => member'[v] = member[v]
            /\ audit'.org = o /\ audit'.actor = u /\ UNCHANGED <<restaurant, refs>>
        BY <1>1, <2>4 DEF CreateOrganization, TInv, RowsTyped
      <3> QED
        BY <3>1 DEF Isolated
    <2>5. CASE BootstrapExisting
      <3>1. PICK u \in Users, r \in Restaurants :
               /\ restaurant[r] = Legacy
               /\ member' = [member EXCEPT ![u].org = Legacy, ![u].role = "OWNER",
                                           ![u].status = "active"]
               /\ audit' = [org |-> Legacy, actor |-> u]
               /\ refs' = refs \cup {r}
        BY <2>5 DEF BootstrapExisting
      <3>2. /\ member'[u].org = Legacy /\ \A v \in Users : v # u => member'[v] = member[v]
            /\ audit'.org = Legacy /\ audit'.actor = u /\ UNCHANGED restaurant
        BY <1>1, <2>5, <3>1 DEF BootstrapExisting, TInv, RowsTyped, Member
      <3> QED
        BY <3>1, <3>2 DEF Isolated
    <2>6. CASE UNCHANGED vars
      BY <2>1, <2>6 DEF vars
    <2> QED
      BY <1>1, <2>1, <2>2, <2>3, <2>4, <2>5, <2>6, CommitIsolated DEF Next, TxStep
  <1>2. TInv /\ [Next]_vars =>
          [/\ \A u \in Users : member'[u] # member[u] => audit'.org = member'[u].org
           /\ \A r \in Restaurants :
                (restaurant'[r] # restaurant[r] \/ r \in refs' \ refs) =>
                    audit'.org \in {restaurant[r], restaurant'[r]}
           /\ audit' # audit => audit'.org = member'[audit'.actor].org]_vars
    BY <1>1 DEF Isolated
  <1> QED
    BY <1>2, TenancyInvariant, PTL DEF Spec, TenantsAreIsolated

=============================================================================
