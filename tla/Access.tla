-------------------------------- MODULE Access --------------------------------
(***************************************************************************)
(* Who may do what: businesses (tenants), their branches, people and       *)
(* workstations, the sessions they sign in with, and the platform staff    *)
(* who approve and suspend businesses (api/deps.py, routes/auth.py,        *)
(* tenants.py, staff.py, devices.py, subscriptions.py, platform.py).       *)
(*                                                                         *)
(* Every handler here reads plainly and locks nothing.  A request names    *)
(* its arguments in Call[t].  Left out: passwords, names and phone         *)
(* numbers, the expiry of tokens, users.is_active (which the API never     *)
(* clears), audit rows and platform events.                                *)
(***************************************************************************)
EXTENDS Records

CONSTANTS
    Call,               \* what each request asks for
    PlatformAdmins      \* users named in the settings

Tenant(x) == <<"tenant", x>>
User(u) == <<"user", u>>
Member(x, u) == <<"member", x, u>>
Granted(x, u, b) == <<"access", x, u, b>>
Branch(b) == <<"branch", b>>
Session(s) == <<"session", s>>
Device(i) == <<"device", i>>
Subscription(x) == <<"subscription", x>>

\* those of Desk included
Tables ==
    {"tenant", "user", "member", "access", "branch", "session", "device", "subscription",
     "shift", "punch", "appointment", "service", "material", "order", "promotion",
     "loyalty", "points", "document", "alert", "stock"}

KeysOf == [table \in Tables |-> {k \in Keys : k[1] = table}]
Tenants == {k[2] : k \in KeysOf["tenant"]}
Users == {k[2] : k \in KeysOf["user"]}
BranchIds == {k[2] : k \in KeysOf["branch"]}
Assigned == [granted |-> TRUE]

-----------------------------------------------------------------------------
(* Roles                                                                    *)

ManagerPermissions ==
    {"branches.read", "staff.read", "staff.manage", "devices.read", "devices.manage",
     "sales.read", "sales.write", "sales.refund", "inventory.read", "inventory.write",
     "purchases.read", "purchases.write", "purchases.approve", "expenses.read",
     "expenses.write", "customers.read", "customers.write", "accounting.read",
     "reports.read", "audit.read"}

AdminPermissions == ManagerPermissions \cup {"branches.manage", "accounting.write"}

RolePermissions ==
    [owner |-> AdminPermissions \cup {"tenant.manage"},
     admin |-> AdminPermissions,
     manager |-> ManagerPermissions,
     cashier |-> {"branches.read", "sales.read", "sales.write", "inventory.read",
                  "customers.read", "customers.write"},
     accountant |-> {"branches.read", "sales.read", "inventory.read", "purchases.read",
                     "expenses.read", "customers.read", "accounting.read",
                     "accounting.write", "reports.read"},
     stock_clerk |-> {"branches.read", "inventory.read", "inventory.write",
                      "purchases.read", "purchases.write", "devices.read"}]

Roles == DOMAIN RolePermissions

RoleAssignments ==
    [owner |-> Roles, admin |-> Roles \ {"owner"}, manager |-> {"cashier", "stock_clerk"},
     cashier |-> {}, accountant |-> {}, stock_clerk |-> {}]

PlatformRole(v, u) ==
    IF v[User(u)].platform # "none" THEN v[User(u)].platform
    ELSE IF u \in PlatformAdmins THEN "super_admin" ELSE "none"

PlatformOperators == {"super_admin", "admin"}

-----------------------------------------------------------------------------
(* Admission: v is what the request reads when it arrives                   *)

Alive(v, s) == Present(v[Session(s)]) /\ ~v[Session(s)].revoked

Sender(v, t) == v[Session(Call[t].session)].user

\* the users who have a membership of x
People(v, x) == {k[3] : k \in {m \in KeysOf["member"] : m[2] = x /\ Present(v[m])}}

BelongsTo(v, x, u) ==
    /\ Present(v[Tenant(x)]) /\ v[Tenant(x)].active
    /\ u \in People(v, x) /\ v[Member(x, u)].active

MayUse(v, x, u, b) ==
    /\ Present(v[Branch(b)]) /\ v[Branch(b)].tenant = x /\ v[Branch(b)].active
    /\ Present(v[Granted(x, u, b)])

\* get_tenant_context and require_permissions; at is "none" without X-Branch-ID
AdmittedTo(v, t, needs) ==
    LET c == Call[t]
        u == Sender(v, t)
    IN  /\ Alive(v, c.session)
        /\ BelongsTo(v, c.tenant, u)
        /\ c.at # "none" => MayUse(v, c.tenant, u, c.at)
        /\ needs \subseteq RolePermissions[v[Member(c.tenant, u)].role]

AdmittedAs(v, t, platformRoles) ==
    Alive(v, Call[t].session) /\ PlatformRole(v, Sender(v, t)) \in platformRoles

Public == {"signup", "bootstrap", "login", "refresh"}
OfPlatform ==
    {"approve", "reject", "suspend", "reactivate", "plan", "subscriptions", "platform_role"}
AccessNeeds ==
    [rename |-> {"tenant.manage"}, subscription |-> {"tenant.manage"},
     create_branch |-> {"branches.manage"}, update_branch |-> {"branches.manage"},
     create_staff |-> {"staff.manage"}, update_staff |-> {"staff.manage"},
     register_device |-> {}, update_device |-> {"devices.manage"}]

\* needs: the permissions of the handlers of a business
Admitted(v, t, needs) ==
    LET do == Call[t].do
    IN  \/ do \in Public
        \/ do = "logout" /\ Alive(v, Call[t].session)
        \/ do = "platform_role" /\ AdmittedAs(v, t, {"super_admin"})
        \/ do = "subscriptions" /\ AdmittedAs(v, t, PlatformOperators \cup {"support"})
        \/ do \in OfPlatform \ {"platform_role", "subscriptions"} /\ AdmittedAs(v, t, PlatformOperators)
        \/ do \in DOMAIN needs /\ AdmittedTo(v, t, needs[do])

\* the rows that are objects of the request's session from then on
Context(v, t) ==
    LET c == Call[t]
    IN  IF c.do \in Public THEN {}
        ELSE {Session(c.session), User(Sender(v, t))} \cup
             (IF c.do \in OfPlatform \cup {"logout"} THEN {}
              ELSE {Tenant(c.tenant), Member(c.tenant, Sender(v, t)), Branch(c.at)})

Authenticate(t, needs) ==
    /\ pc[t] = "idle"
    /\ IF Admitted(stored, t, needs) THEN Enter(t, Context(stored, t)) ELSE Fail(t)

Handles(t, do) == Call[t].do = do /\ At(t, "loaded")

MyRole(t) == held[t][Member(Call[t].tenant, Sender(held[t], t))].role

\* the update of row k of the request t to new
Update(t, k, new) == k :> Dirty(Object(t, k), new)

-----------------------------------------------------------------------------
(* Signing up and signing in                                                *)

\* _create_business
Business(t, approved) ==
    LET c == Call[t]
    IN     Tenant(c.tenant) :> [status |-> IF approved THEN "approved" ELSE "pending",
                                active |-> approved, name |-> "first"]
        @@ User(c.user) :> [platform |-> "none"]
        @@ Branch(c.branch) :> [tenant |-> c.tenant, main |-> TRUE, active |-> approved]
        @@ Member(c.tenant, c.user) :> [role |-> "owner", active |-> approved]
        @@ Granted(c.tenant, c.user, c.branch) :> Assigned

\* _issue_session: a new session, and the first refresh token that is good for it
NewSession(t, u) == Session(t) :> [user |-> u, token |-> t, revoked |-> FALSE]

\* an insert of a row that is there is a conflict
Create(t, news) ==
    IF \E k \in DOMAIN news : Present(found[t][k]) THEN Fail(t) ELSE Save(t, news)

SignUp(t) == Handles(t, "signup") /\ Create(t, Business(t, FALSE))

Bootstrap(t) ==
    Handles(t, "bootstrap") /\ Create(t, Business(t, TRUE) @@ NewSession(t, Call[t].user))

\* somewhere to work
HasAccess(v, u) ==
    \/ PlatformRole(v, u) # "none"
    \/ \E k \in KeysOf["tenant"] :
          /\ Present(v[k]) /\ v[k].status = "approved"
          /\ BelongsTo(v, k[2], u)

Login(t) ==
    LET u == Call[t].user
    IN  /\ Handles(t, "login")
        /\ IF Present(found[t][User(u)]) /\ HasAccess(found[t], u)
           THEN Save(t, NewSession(t, u))
           ELSE Fail(t)

\* The token is exchanged for a new one of the same session.
Refresh(t) ==
    LET k == Session(Call[t].session)
        was == found[t][k]
    IN  /\ Handles(t, "refresh")
        /\ IF Present(was) /\ ~was.revoked /\ was.token = Call[t].token
           THEN Save(t, Update(t, k, [was EXCEPT !.token = t]))
           ELSE Fail(t)

Revoked(t, k) == Update(t, k, [Object(t, k) EXCEPT !.revoked = TRUE])

Logout(t) == Handles(t, "logout") /\ Save(t, Revoked(t, Session(Call[t].session)))

-----------------------------------------------------------------------------
(* The platform's decisions on a business                                   *)

TenantOf(t) == Tenant(Call[t].tenant)
Loaded(t) == Object(t, TenantOf(t))

OfTenant(t, kind) ==
    {k \in KeysOf[kind] : Present(found[t][k]) /\
        CASE kind = "member" -> k[2] = Call[t].tenant
          [] OTHER -> found[t][k].tenant = Call[t].tenant}

\* Every membership and every branch is switched on, also one that was off for
\* a reason of its own.
ActivateChildren(t) ==
    [k \in OfTenant(t, "member") \cup OfTenant(t, "branch") |->
        Dirty(found[t][k], [found[t][k] EXCEPT !.active = TRUE])]

\* the sessions that are not revoked yet
LiveSessions(t) == {k \in KeysOf["session"] : Present(found[t][k]) /\ ~found[t][k].revoked}

\* mutant: somebody who has been removed keeps the session
RevokeTenantSessionsOfStaff(t) ==
    [k \in {s \in LiveSessions(t) : BelongsTo(found[t], Call[t].tenant, found[t][s].user)} |->
        [revoked |-> TRUE]]

\* of everyone who has a membership of it, wherever else they work
RevokeTenantSessions(t) ==
    [k \in {s \in LiveSessions(t) : found[t][s].user \in People(found[t], Call[t].tenant)} |->
        [revoked |-> TRUE]]

Approve(t) ==
    /\ Handles(t, "approve")
    /\ IF ~Present(Loaded(t)) THEN Fail(t)
       ELSE IF Loaded(t).status = "approved" /\ Loaded(t).active THEN Save(t, Nothing)
       ELSE Save(t, Update(t, TenantOf(t), [Loaded(t) EXCEPT !.status = "approved", !.active = TRUE])
                    @@ ActivateChildren(t))

Reject(t) ==
    /\ Handles(t, "reject")
    /\ IF ~Present(Loaded(t)) \/ Loaded(t).status = "approved" THEN Fail(t)
       ELSE Save(t, Update(t, TenantOf(t), [Loaded(t) EXCEPT !.status = "rejected", !.active = FALSE])
                    @@ RevokeTenantSessions(t))

Suspend(t) ==
    /\ Handles(t, "suspend")
    /\ IF ~Present(Loaded(t)) \/ Loaded(t).status # "approved" THEN Fail(t)
       ELSE IF ~Loaded(t).active THEN Save(t, Nothing)
       ELSE Save(t, Update(t, TenantOf(t), [Loaded(t) EXCEPT !.active = FALSE])
                    @@ RevokeTenantSessions(t))

Reactivate(t) ==
    /\ Handles(t, "reactivate")
    /\ IF ~Present(Loaded(t)) \/ Loaded(t).status # "approved" THEN Fail(t)
       ELSE Save(t, Update(t, TenantOf(t), [Loaded(t) EXCEPT !.active = TRUE]))

SetPlatformRole(t) ==
    LET k == User(Call[t].user)
    IN  /\ Handles(t, "platform_role")
        /\ IF Present(found[t][k])
           THEN Save(t, Update(t, k, [Object(t, k) EXCEPT !.platform = Call[t].role]))
           ELSE Fail(t)

FirstSubscription == [plan |-> "starter", status |-> "trialing"]

\* _ensure_subscription, and what is set on it
Subscribe(t, plan, status) ==
    LET k == Subscription(Call[t].tenant)
        was == IF Present(found[t][k]) THEN found[t][k] ELSE FirstSubscription
        new == [plan |-> IF plan = "same" THEN was.plan ELSE plan,
                status |-> IF status = "same" THEN was.status ELSE status]
    IN  Save(t, IF Present(found[t][k]) THEN Update(t, k, new) ELSE k :> new)

CurrentSubscription(t) == Handles(t, "subscription") /\ Subscribe(t, "same", "same")

\* The list gives every business that has none its first one.
ListSubscriptions(t) ==
    LET ks == {Subscription(k[2]) : k \in {x \in KeysOf["tenant"] : Present(found[t][x])}}
    IN  /\ Handles(t, "subscriptions")
        /\ Save(t, [k \in {x \in ks : ~Present(found[t][x])} |-> FirstSubscription])

UpdateSubscription(t) ==
    /\ Handles(t, "plan")
    /\ IF Present(Loaded(t)) THEN Subscribe(t, Call[t].plan, Call[t].status) ELSE Fail(t)

-----------------------------------------------------------------------------
(* The business's own settings                                              *)

RenameTenant(t) ==
    Handles(t, "rename") /\ Save(t, Update(t, TenantOf(t), [Loaded(t) EXCEPT !.name = Call[t].name]))

ActiveBranches(t) == {k \in OfTenant(t, "branch") : found[t][k].active}

\* one UPDATE of them all
NoLongerMain(t, ks) == [k \in ks |-> [main |-> FALSE]]

CreateBranch(t) ==
    LET c == Call[t]
        main == c.main \/ ActiveBranches(t) = {}
    IN  /\ Handles(t, "create_branch")
        /\ IF Present(found[t][Branch(c.branch)]) THEN Fail(t)
           ELSE Save(t, Branch(c.branch) :> [tenant |-> c.tenant, main |-> main, active |-> TRUE]
                        @@ Granted(c.tenant, Sender(held[t], t), c.branch) :> Assigned
                        @@ IF main THEN NoLongerMain(t, OfTenant(t, "branch")) ELSE Nothing)

UpdateBranch(t) ==
    LET c == Call[t]
        k == Branch(c.branch)
        was == Object(t, k)
    IN  /\ Handles(t, "update_branch")
        /\ IF \/ ~Present(was) \/ was.tenant # c.tenant
              \/ ~c.active /\ (ActiveBranches(t) \subseteq {k} \/ was.main \/ c.main)
           THEN Fail(t)
           ELSE Save(t, Update(t, k, [was EXCEPT !.main = c.main, !.active = c.active])
                        @@ IF c.main THEN NoLongerMain(t, OfTenant(t, "branch") \ {k}) ELSE Nothing)

\* _validate_branch_ids
ValidBranches(t, bs) ==
    \A b \in bs : Present(found[t][Branch(b)]) /\ found[t][Branch(b)].tenant = Call[t].tenant
                  /\ found[t][Branch(b)].active

\* the email may belong to a user of another business
CreateStaff(t) ==
    LET c == Call[t]
        m == Member(c.tenant, c.user)
    IN  /\ Handles(t, "create_staff")
        /\ IF \/ c.role \notin RoleAssignments[MyRole(t)]
              \/ ~ValidBranches(t, c.branches)
              \/ Present(found[t][m])
           THEN Fail(t)
           ELSE Save(t, m :> [role |-> c.role, active |-> TRUE]
                        @@ [k \in {Granted(c.tenant, c.user, b) : b \in c.branches} |-> Assigned]
                        @@ IF Present(found[t][User(c.user)]) THEN Nothing
                           ELSE User(c.user) :> [platform |-> "none"])

\* the branches of the member as the request finds them
BranchesOf(t, x, u) == {k[4] : k \in {g \in KeysOf["access"] : g[2] = x /\ g[3] = u /\ Present(found[t][g])}}

\* mutant: the owners are not counted
LastOwnerNever(t, was) == FALSE

\* was is the row of an owner, or of somebody who was one
LastOwner(t, was) ==
    /\ was.role = "owner"
    /\ Call[t].role # "owner" \/ ~Call[t].active
    /\ Cardinality({k \in OfTenant(t, "member") : found[t][k].role = "owner" /\ found[t][k].active}) <= 1

\* The rows of membership_branches are deleted and inserted again.
UpdateStaff(t) ==
    LET c == Call[t]
        k == Member(c.tenant, c.user)
        was == Object(t, k)
        now == BranchesOf(t, c.tenant, c.user)
        own == c.user = Sender(held[t], t)
        mayManage == {was.role, c.role} \subseteq RoleAssignments[MyRole(t)]
    IN  /\ Handles(t, "update_staff")
        /\ IF \/ ~Present(was)
              \/ own /\ (c.role # was.role \/ ~c.active \/ c.branches # now)
              \/ ~own /\ ~mayManage
              \/ ~ValidBranches(t, c.branches)
              \/ LastOwner(t, was)
           THEN Fail(t)
           ELSE Save(t, Update(t, k, [role |-> c.role, active |-> c.active])
                        @@ [g \in {Granted(c.tenant, c.user, b) : b \in now \cup c.branches} |->
                               IF g[4] \in c.branches THEN Assigned ELSE Absent])

RegisterDevice(t) ==
    LET c == Call[t]
        k == Device(c.device)
        new == [tenant |-> c.tenant, branch |-> c.branch, active |-> TRUE]
    IN  /\ Handles(t, "register_device")
        /\ IF c.at # c.branch THEN Fail(t)
           ELSE Save(t, IF Present(found[t][k]) THEN Update(t, k, new) ELSE k :> new)

UpdateDevice(t) ==
    LET c == Call[t]
        k == Device(c.device)
    IN  /\ Handles(t, "update_device")
        /\ IF ~Present(found[t][k]) \/ found[t][k].tenant # c.tenant \/ ~ValidBranches(t, {c.branch})
           THEN Fail(t)
           ELSE Save(t, Update(t, k, [found[t][k] EXCEPT !.branch = c.branch, !.active = c.active]))

AccessStep(t) ==
    \/ SignUp(t) \/ Bootstrap(t) \/ Login(t) \/ Refresh(t) \/ Logout(t)
    \/ Approve(t) \/ Reject(t) \/ Suspend(t) \/ Reactivate(t) \/ SetPlatformRole(t)
    \/ CurrentSubscription(t) \/ ListSubscriptions(t) \/ UpdateSubscription(t)
    \/ RenameTenant(t) \/ CreateBranch(t) \/ UpdateBranch(t)
    \/ CreateStaff(t) \/ UpdateStaff(t) \/ RegisterDevice(t) \/ UpdateDevice(t)

-----------------------------------------------------------------------------
(* Properties                                                               *)

Names == {"first", "second"}
PlatformRoles == {"none", "super_admin", "admin", "support"}
Plans == {"starter", "business", "pro"}
SubscriptionStatuses == {"trialing", "active", "past_due", "suspended", "cancelled"}

TenantRow == [status : {"pending", "approved", "rejected"}, active : BOOLEAN, name : Names]
UserRow == [platform : PlatformRoles]
MemberRow == [role : Roles, active : BOOLEAN]
BranchRow == [tenant : Tenants, main : BOOLEAN, active : BOOLEAN]
SessionRow == [user : Users, token : Txns \cup {"first"}, revoked : BOOLEAN]
DeviceRow == [tenant : Tenants, branch : BranchIds, active : BOOLEAN]
SubscriptionRow == [plan : Plans, status : SubscriptionStatuses]

AccessRow(k) ==
    CASE k[1] = "tenant" -> TenantRow
      [] k[1] = "user" -> UserRow
      [] k[1] = "member" -> MemberRow
      [] k[1] = "access" -> {Assigned}
      [] k[1] = "branch" -> BranchRow
      [] k[1] = "session" -> SessionRow
      [] k[1] = "device" -> DeviceRow
      [] k[1] = "subscription" -> SubscriptionRow

Done(t) == pc[t] = "done" /\ answer[t] = "created"

\* A session that has been revoked, by its owner or because the business was
\* suspended or rejected, stays so, whatever refresh was on its way: the refresh
\* writes the new token and leaves revoked_at alone (auth.py:252).
RevokedForGood ==
    [][\A k \in KeysOf["session"] : Present(stored[k]) /\ stored[k].revoked => stored'[k].revoked]_records

\* t makes the user a member of the business x
Hires(t, x, user) == Call[t].do = "create_staff" /\ Call[t].tenant = x /\ Call[t].user = user

\* When a business is suspended or rejected, nobody who belongs to it stays signed
\* in, except with a session or a membership that was being made at that moment
\* (platform.py:101).
ShutMeansOut ==
    [][\A t \in Txns : Call[t].do \in {"suspend", "reject"} /\ stored' # stored /\ Done(t)' /\ ~Done(t) =>
          \A k \in KeysOf["session"] :
             Present(stored'[k]) /\ ~stored'[k].revoked /\ stored'[k].user \in People(stored', Call[t].tenant) =>
                \E u \in rivals[t] : k = Session(u) \/ Hires(u, Call[t].tenant, stored'[k].user)
      ]_<<stored, requests>>

\* two requests of business x that have one of these to do decided together
Collided(x, handlers) ==
    \E t, u \in Txns : u \in rivals[t] /\ \A r \in {t, u} : Call[r].do \in handlers /\ Call[r].tenant = x

\* the active owners of x in the table v
Owners(v, x) ==
    {k \in KeysOf["member"] : k[2] = x /\ Present(v[k]) /\ v[k].role = "owner" /\ v[k].active}

\* "A business must keep at least one active owner" (staff.py:222): it does, unless
\* two removals of its staff have counted its owners before either was committed.
OwnerKept ==
    \A k \in KeysOf["tenant"] : Present(stored[k]) /\ stored[k].status = "approved" =>
        Owners(stored, k[2]) # {} \/ Collided(k[2], {"update_staff"})

TwoMains(v, k, l) ==
    /\ k # l /\ Present(v[k]) /\ Present(v[l])
    /\ v[k].tenant = v[l].tenant /\ v[k].main /\ v[l].main

\* A business has one main branch at most, unless two of its requests were choosing
\* one together (tenants.py:208: the others are made ordinary ones).
OneMainBranch ==
    \A k, l \in KeysOf["branch"] : TwoMains(stored, k, l) =>
        Collided(stored[k].tenant, {"create_branch", "update_branch"})

\* Whatever requests about its staff and its branches meet, a business has an owner
\* and one main branch at most, unless two of them decided together.
BusinessWhole == OwnerKept /\ OneMainBranch

-----------------------------------------------------------------------------
(* Assumptions on the constants                                             *)

IsKey(k) ==
    IF k[1] \in {"member", "material", "stock"} THEN k = <<k[1], k[2], k[3]>>
    ELSE IF k[1] = "access" THEN k = <<k[1], k[2], k[3], k[4]>>
    ELSE k = <<k[1], k[2]>>

\* the rows that a request names, and its arguments
AccessArguments(c) ==
    /\ c.do \notin {"signup", "bootstrap", "login"} => Session(c.session) \in Keys
    /\ c.do \notin {"login", "refresh", "logout", "subscriptions", "platform_role"} =>
          Tenant(c.tenant) \in Keys
    /\ c.do \in {"signup", "bootstrap", "login", "platform_role"} => User(c.user) \in Keys
    /\ c.do \in {"signup", "bootstrap", "create_staff", "update_staff"} =>
          Member(c.tenant, c.user) \in Keys
    /\ c.do \in {"signup", "bootstrap", "create_branch", "update_branch",
                  "register_device", "update_device"} => Branch(c.branch) \in Keys
    /\ c.do \in {"register_device", "update_device"} => Device(c.device) \in Keys
    /\ c.do \in {"plan", "subscription"} => Subscription(c.tenant) \in Keys
    /\ c.do \in {"create_branch", "update_branch"} => c.main \in BOOLEAN
    /\ c.do \in {"update_branch", "update_staff", "update_device"} => c.active \in BOOLEAN
    /\ c.do \in {"create_staff", "update_staff"} => c.role \in Roles
    /\ c.do = "platform_role" => c.role \in PlatformRoles
    /\ c.do = "rename" => c.name \in Names
    /\ c.do = "plan" => c.plan \in Plans \cup {"same"} /\ c.status \in SubscriptionStatuses \cup {"same"}

\* A business that is there at first has an owner, perhaps one who waits for the
\* approval, and one main branch at most.  A session has its user and a branch its
\* business: the foreign keys.
AccessAtStart ==
    /\ \A x \in Tenants : Present(AtStart[Tenant(x)]) =>
          \/ Owners(AtStart, x) # {}
          \/ /\ ~AtStart[Tenant(x)].active /\ AtStart[Tenant(x)].status # "approved"
             /\ \E k \in KeysOf["member"] :
                   k[2] = x /\ AtStart[k] = [role |-> "owner", active |-> FALSE]
    /\ \A k \in KeysOf["session"] : Present(AtStart[k]) => Present(AtStart[User(AtStart[k].user)])
    /\ \A k \in KeysOf["branch"] : Present(AtStart[k]) => Present(AtStart[Tenant(AtStart[k].tenant)])
    /\ \A k, l \in KeysOf["branch"] : ~TwoMains(AtStart, k, l)

ASSUME AccessAssumption ==
    /\ IsFiniteSet(Keys) /\ IsFiniteSet(Txns)
    /\ \A k \in Keys : k[1] \in Tables /\ IsKey(k)
    /\ AccessAtStart
===============================================================================
