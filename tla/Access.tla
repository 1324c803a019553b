------------------------------- MODULE Access -------------------------------
(***************************************************************************)
(* Who may do what: roles, permissions, features and their overrides, the  *)
(* accounts and organizations they hang on, and the system settings.  Each *)
(* process seeds the tables when it boots; administrators edit them while  *)
(* the API runs, every handler reading in one step and writing in another. *)
(* Role, organization and user overrides are rows found by a SELECT and    *)
(* inserted when it finds none: no constraint keeps two handlers, or a     *)
(* handler and a booting process, from inserting the same one.  An UPDATE  *)
(* has the columns whose new value is not the one loaded: an edit that     *)
(* asks for what it has read leaves what others committed in between.      *)
(*                                                                         *)
(* Source: apps/api/api_app/entitlements.py, routers/admin_users.py,       *)
(* routers/admin_console.py, packages/db/db/repository.py.                 *)
(***************************************************************************)
EXTENDS Naturals, Sequences, FiniteSets

CONSTANTS
    Features, Sensitive,        \* feature keys; those marked security_sensitive
    Roles, FirstRole,           \* the role of the accounts an older release left
    Grants,                     \* <<kind, role, item>> a role gets by default
    Users, Callers,             \* accounts; callers without an account
    CallerRoles,                \* the roles such a caller carries in its token
    Names,                      \* organization names
    Values, DefaultValue,       \* values of the one system setting
    OldRelease,                 \* the part of Grants an older release seeded
    Boots, Slots,               \* processes; handlers in flight
    MaxOrganizations, MaxEdits, MaxRightsFaults   \* bounds

VARIABLES
    stored,     \* unique keys present: roles, feature and permission keys
    globally,   \* globally_enabled of each feature
    overrides,  \* per scope and item its rows, in insertion order: what they say
    names,      \* organizations, in order of creation: their names
    users,      \* each account's organization and role
    setting, history,   \* the setting's row; system_setting_history
    boots,      \* what each process has read while it seeds
    request,    \* what each handler has read
    edits, rightsFaults,
    decided,    \* (history) what the last committed edit left a grant at
    overlapped, \* (history) grants inserted while another insert was pending
    written, lostUpdate \* (history) values the setting had; two updates of one version

\* A field that a request leaves alone.
Keep == "keep"

\* Default grants are about known roles and features; an older release had
\* fewer of them; a caller without an account has none.
ASSUME GrantsAssumption ==
    /\ \A g \in Grants : \/ g \in {"role"} \X Roles \X Features
                          \/ g \in {"permission"} \X Roles \X {g[3]}
    /\ OldRelease \subseteq Grants
    /\ Users \cap Callers = {} /\ Boots \cap Slots = {}
    /\ Keep \notin Roles \cup Names
    /\ FirstRole \in Roles /\ DefaultValue \in Values
    /\ MaxOrganizations \in Nat \ {0}

rightsTables == <<stored, globally, overrides, names, users, setting, history>>
rightsGhosts == <<decided, overlapped, written, lostUpdate>>
rightsVars == <<rightsTables, boots, request, edits, rightsFaults, rightsGhosts>>

Nobody == [organization |-> 0, role |-> "none"]
NoSetting == [value |-> "none", version |-> 0, by |-> "none"]
Idle == [kind |-> "none"]
Down == [stage |-> "down"]
Up == [stage |-> "up"]
-----------------------------------------------------------------------------
(* Rows *)

\* An override of one item for a role, an organization or a user.
Scopes == ({"permission", "role"} \X Roles) \cup ({"organization"} \X (1 .. MaxOrganizations))
            \cup ({"user"} \X Users)

Permissions == {g[3] : g \in {h \in Grants : h[1] = "permission"}}

Items == Features \cup Permissions

\* The four tables of overrides: what a row is about.
RoleFeatures == ({"role"} \X Roles) \X Features
OrganizationFeatures == ({"organization"} \X (1 .. MaxOrganizations)) \X Features
UserOverrides == ({"user"} \X Users) \X Features
RolePermissions == ({"permission"} \X Roles) \X Permissions

Pairs == RoleFeatures \cup OrganizationFeatures \cup UserOverrides \cup RolePermissions

UserRows == [organization : 1 .. MaxOrganizations, role : Roles] \cup {Nobody}

SettingRows == [value : Values, version : Nat \ {0}, by : Slots \cup {"none"}]

HistoryRows == [value : Values, version : Nat \ {0}, changed_by : Slots \cup {"none"}]

\* What a handler has read before it writes.
Requests ==
    {Idle}
    \cup [kind : {"grant"}, scope : Scopes, item : Features, enabled : BOOLEAN, row : Nat,
          writes : BOOLEAN]
    \cup [kind : {"user"}, user : Users, role : Roles \cup {Keep}, name : Names \cup {Keep},
          organization : 0 .. MaxOrganizations, new : BOOLEAN]
    \cup [kind : {"organization"}, name : Names]
    \cup [kind : {"setting"}, value : Values, read : SettingRows]

\* Where a process is in its seeding, and what it has read.
Stages == {"rbac", "features", "setting"}

BootStates ==
    {Down, Up} \cup [stage : Stages, step : {"read"}]
    \cup [stage : Stages, step : {"write"}, keys : SUBSET (Items \cup Roles),
          rows : SUBSET Grants, insert : BOOLEAN]

AccessTypeOK ==
    /\ stored \subseteq Items \cup Roles
    /\ globally \in [Features -> BOOLEAN]
    /\ overrides \in [Pairs -> Seq(BOOLEAN)]
    /\ names \in Seq(Names) /\ Len(names) <= MaxOrganizations
    /\ users \in [Users -> UserRows]
    /\ setting \in SettingRows \cup {NoSetting}
    /\ history \in Seq(HistoryRows)
    /\ boots \in [Boots -> BootStates]
    /\ request \in [Slots -> Requests]
    /\ overlapped \subseteq Pairs
    /\ \E known \in SUBSET Pairs : decided \in [known -> BOOLEAN]
    /\ written \in Seq(Values)
    /\ lostUpdate \in BOOLEAN

\* The items a role has an enabled row for; a role has what a row says it has.
Enabled(scope) ==
    {i \in Items : /\ <<scope, i>> \in Pairs
                  /\ \E n \in DOMAIN overrides[<<scope, i>>] : overrides[<<scope, i>>][n]}

PermissionKeys(role) == Enabled(<<"permission", role>>)

RoleFeatureKeys(role) == Enabled(<<"role", role>>)

\* A dict of rows: the last one in the result wins; {} without one.
Override(scope, item) ==
    LET rows == overrides[<<scope, item>>]
    IN  IF rows = <<>> THEN {} ELSE {rows[Len(rows)]}

OrganizationAllows(organization, feature) ==
    Override(<<"organization", organization>>, feature) # {FALSE}

UserOverride(user, feature) == Override(<<"user", user>>, feature)

-----------------------------------------------------------------------------
(* entitlements.py *)

\* _resolve_user_record: an account, or a caller known only by its token.
HasAccount(c) == c \in Users /\ users[c] # Nobody

\* An account's own role counts, never the roles its token was bridged to.
RolesOf(c) ==
    IF HasAccount(c) THEN {users[c].role}
    ELSE IF c \in Callers THEN CallerRoles[c] ELSE {}

EffectivePermissions(c) == UNION {PermissionKeys(r) : r \in RolesOf(c)}

Holds(c, permission) == permission \in EffectivePermissions(c)

\* resolve_organization_id: 0 when there is none.
EffectiveOrganization(c) == IF HasAccount(c) THEN users[c].organization ELSE 0

\* resolve_organization_scope
Unrestricted(c) == EffectiveOrganization(c) = 0 /\ Holds(c, "admin.organizations")

Base(c, feature) ==
    /\ globally[feature]
    /\ \E r \in RolesOf(c) : feature \in RoleFeatureKeys(r)
    /\ EffectiveOrganization(c) # 0 => OrganizationAllows(EffectiveOrganization(c), feature)

\* get_effective_features: an override narrows a sensitive feature and
\* replaces the role's and the organization's say for any other.
Effective(c, feature) ==
    LET override == UserOverride(c, feature) IN
    /\ feature \in stored
    /\ \/ override = {} /\ Base(c, feature)
       \/ /\ override = {TRUE}
          /\ IF feature \in Sensitive THEN Base(c, feature) ELSE globally[feature]

\* get_user_entitlements: what an administrator sees of an account is what
\* the account's own requests are decided by.
Entitlements(u) ==
    [permissions |-> EffectivePermissions(u), features |-> {f \in Features : Effective(u, f)}]

-----------------------------------------------------------------------------
(* Seeding: read what exists, insert what is missing, in one session per   *)
(* catalog.  A key another process inserted in between breaks the commit   *)
(* and with it the boot.                                                   *)

Kinds(stage) == IF stage = "rbac" THEN {"permission"} ELSE {"role"}

StageGrants(stage) == {g \in Grants : g[1] \in Kinds(stage)}

StageKeys(stage) ==
    IF stage = "rbac" THEN Roles \cup {g[3] : g \in StageGrants(stage)} ELSE Features

NextStage(stage) ==
    CASE stage = "rbac" -> [stage |-> "features", step |-> "read"]
      [] stage = "features" -> [stage |-> "setting", step |-> "read"]
      [] stage = "setting" -> Up

\* What a default grant is about, and the tables with rows for some of them.
PairOf(g) == <<<<g[1], g[2]>>, g[3]>>
Inserted(rows, new) ==
    [p \in Pairs |-> IF \E g \in new : PairOf(g) = p THEN Append(rows[p], TRUE) ELSE rows[p]]

Start(b) ==
    /\ boots[b] = Down
    /\ boots' = [boots EXCEPT ![b] = [stage |-> "rbac", step |-> "read"]]
    /\ UNCHANGED <<rightsTables, request, edits, rightsFaults, rightsGhosts>>

Seeding(b, step) ==
    /\ boots[b].stage \in Stages
    /\ boots[b].step = step

\* Mutant: only enabled rows count as existing.
MutMissing(stage) ==
    {g \in StageGrants(stage) :
        \A n \in DOMAIN overrides[PairOf(g)] : ~overrides[PairOf(g)][n]}

\* A row that exists is left alone, whatever it says.
Missing(stage) == {g \in StageGrants(stage) : overrides[PairOf(g)] = <<>>}

SeedRead(b) ==
    LET stage == boots[b].stage IN
    /\ Seeding(b, "read")
    /\ boots' = [boots EXCEPT ![b] =
            IF stage = "setting"
            THEN [stage |-> stage, step |-> "write", keys |-> {}, rows |-> {},
                  insert |-> setting = NoSetting]
            ELSE [stage |-> stage, step |-> "write", keys |-> StageKeys(stage) \ stored,
                  rows |-> Missing(stage), insert |-> FALSE]]
    /\ UNCHANGED <<rightsTables, request, edits, rightsFaults, rightsGhosts>>

\* The pairs another handler or process has seen no row for and will insert.
Pending(except) ==
    {<<request[s].scope, request[s].item>> :
        s \in {t \in Slots \ {except} : request[t].kind = "grant" /\ request[t].row = 0}}
    \cup {PairOf(g) :
        g \in UNION {boots[b].rows : b \in {c \in Boots \ {except} : Seeding(c, "write")}}}

SeedRows(b) ==
    LET seen == boots[b] IN
    /\ seen.stage \in {"rbac", "features"}
    /\ seen.keys \cap stored = {}
    /\ stored' = stored \cup seen.keys
    /\ overrides' = Inserted(overrides, seen.rows)
    /\ overlapped' = overlapped \cup
            ({PairOf(g) : g \in seen.rows} \cap Pending(b))
    /\ UNCHANGED <<globally, names, users, setting, history, decided, written, lostUpdate>>

FirstSetting == [value |-> DefaultValue, version |-> 1, by |-> "none"]

\* seed_system_settings_defaults: never touches a row that is there.
SeedSetting(b) ==
    /\ boots[b].stage = "setting"
    /\ boots[b].insert => setting = NoSetting
    /\ IF boots[b].insert
       THEN setting' = FirstSetting /\ written' = <<DefaultValue>>
       ELSE UNCHANGED <<setting, written>>
    /\ UNCHANGED <<stored, globally, overrides, names, users, history, decided, overlapped,
                   lostUpdate>>

SeedWrite(b) ==
    /\ Seeding(b, "write")
    /\ SeedRows(b) \/ SeedSetting(b)
    /\ boots' = [boots EXCEPT ![b] = NextStage(@.stage)]
    /\ UNCHANGED <<request, edits, rightsFaults>>

\* A key that appeared in the meantime: the boot fails and starts again.
SeedConflict(b) ==
    /\ Seeding(b, "write")
    /\ \/ boots[b].keys \cap stored # {}
       \/ boots[b].insert /\ setting # NoSetting
    /\ boots' = [boots EXCEPT ![b] = Down]
    /\ UNCHANGED <<rightsTables, request, edits, rightsFaults, rightsGhosts>>

-----------------------------------------------------------------------------
(* Handlers *)

Begin(s, c, permission, record) ==
    /\ request[s] = Idle
    /\ edits < MaxEdits
    /\ Holds(c, permission)
    /\ request' = [request EXCEPT ![s] = record]
    /\ edits' = edits + 1
    /\ UNCHANGED <<rightsTables, boots, rightsFaults, rightsGhosts>>

End(s) == request' = [request EXCEPT ![s] = Idle]

\* The handler's request dies before it commits.
Fail(s) ==
    /\ request[s] # Idle
    /\ rightsFaults < MaxRightsFaults
    /\ rightsFaults' = rightsFaults + 1
    /\ End(s)
    /\ UNCHANGED <<rightsTables, boots, edits, rightsGhosts>>

\* PUT /features/{key}: the row is there or the answer is 404; a blind write.
SetGlobal(c, feature, enabled) ==
    /\ edits < MaxEdits
    /\ Holds(c, "admin.feature_management")
    /\ feature \in stored
    /\ globally' = [globally EXCEPT ![feature] = enabled]
    /\ edits' = edits + 1
    /\ UNCHANGED <<stored, overrides, names, users, setting, history, boots, request, rightsFaults,
                   rightsGhosts>>

\* What the route looks up before it calls the repository: 404 without it.
Known(scope) ==
    CASE scope[1] = "role" -> scope[2] \in stored
      [] scope[1] = "organization" -> scope[2] \in DOMAIN names
      [] scope[1] = "user" -> users[scope[2]] # Nobody
      [] OTHER -> FALSE

PermissionFor(scope) ==
    IF scope[1] = "user" THEN "admin.users.features" ELSE "admin.feature_management"

\* scalar_one_or_none: none, one, or an exception for good once there are two.
Only(rows) == Len(rows) <= 1

BeginSetFeature(s, c, scope, feature, enabled) ==
    LET rows == overrides[<<scope, feature>>] IN
    /\ Known(scope)
    /\ feature \in stored
    /\ Only(rows)
    /\ Begin(s, c, PermissionFor(scope),
             [kind |-> "grant", scope |-> scope, item |-> feature, enabled |-> enabled,
              row |-> Len(rows), writes |-> Override(scope, feature) # {enabled}])

\* Mutant: every change is a new row.
MutWithGrant(r) == Append(overrides[<<r.scope, r.item>>], r.enabled)

WithGrant(r) ==
    LET rows == overrides[<<r.scope, r.item>>]
    IN  IF r.row = 0 THEN Append(rows, r.enabled)
        ELSE IF r.writes THEN [rows EXCEPT ![r.row] = r.enabled] ELSE rows

\* What the edit leaves the grant at.
Decision(r) == IF r.writes THEN r.enabled ELSE overrides[<<r.scope, r.item>>][r.row]

CommitSetFeature(s) ==
    LET r == request[s] IN
    /\ r.kind = "grant"
    /\ overrides' = [overrides EXCEPT ![<<r.scope, r.item>>] = WithGrant(r)]
    /\ decided' = [p \in DOMAIN decided \cup {<<r.scope, r.item>>} |->
                    IF p = <<r.scope, r.item>> THEN Decision(r) ELSE decided[p]]
    /\ overlapped' = IF r.row = 0 THEN overlapped \cup ({<<r.scope, r.item>>} \cap Pending(s))
                     ELSE overlapped
    /\ End(s)
    /\ UNCHANGED <<stored, globally, names, users, setting, history, boots, edits, rightsFaults,
                   written, lostUpdate>>

-----------------------------------------------------------------------------
(* Accounts and organizations *)

\* find_organization_by_name: 0 when there is none; names are unique.
Named(name) ==
    IF \E o \in DOMAIN names : names[o] = name
    THEN CHOOSE o \in DOMAIN names : names[o] = name ELSE 0

\* create_user: the address is free (409) and the role is known (400).
BeginCreateUser(s, c, user, role, name) ==
    /\ users[user] = Nobody
    /\ role \in stored
    /\ Begin(s, c, "admin.users.create",
             [kind |-> "user", user |-> user, role |-> role, name |-> name,
              organization |-> Named(name), new |-> TRUE])

\* update_user_profile: role and company are optional; the role is checked
\* before the company is looked up.
BeginUpdateUser(s, c, user, role, name) ==
    /\ users[user] # Nobody
    /\ role = Keep \/ role \in stored
    /\ role # Keep \/ name # Keep
    /\ Begin(s, c, "admin.users.edit",
             [kind |-> "user", user |-> user, role |-> role, name |-> name,
              organization |-> IF name = Keep THEN users[user].organization ELSE Named(name),
              new |-> FALSE])

\* The organization is created inline; a name taken in between is an error.
CreateInline(s) ==
    LET r == request[s] IN
    /\ r.kind = "user"
    /\ r.organization = 0
    /\ IF Named(r.name) = 0
       THEN /\ Len(names) < MaxOrganizations
            /\ names' = Append(names, r.name)
            /\ request' = [request EXCEPT ![s].organization = Len(names')]
       ELSE End(s) /\ UNCHANGED names
    /\ UNCHANGED <<stored, globally, overrides, users, setting, history, boots, edits, rightsFaults,
                   rightsGhosts>>

\* Only the fields the request named change.
Profile(r) ==
    [organization |-> IF r.name = Keep THEN users[r.user].organization ELSE r.organization,
     role |-> IF r.role = Keep THEN users[r.user].role ELSE r.role]

\* The account's row; a second one with the same address is an error that
\* leaves the organization behind.
SaveUser(s) ==
    LET r == request[s] IN
    /\ r.kind = "user"
    /\ r.organization # 0
    /\ IF r.new /\ users[r.user] # Nobody THEN UNCHANGED users
       ELSE users' = [users EXCEPT ![r.user] = Profile(r)]
    /\ End(s)
    /\ UNCHANGED <<stored, globally, overrides, names, setting, history, boots, edits, rightsFaults,
                   rightsGhosts>>

\* POST /organizations: 409 when the name is taken.
BeginCreateOrganization(s, c, name) ==
    /\ Named(name) = 0
    /\ Begin(s, c, "admin.organizations", [kind |-> "organization", name |-> name])

CommitCreateOrganization(s) ==
    LET r == request[s] IN
    /\ r.kind = "organization"
    /\ IF Named(r.name) = 0
       THEN Len(names) < MaxOrganizations /\ names' = Append(names, r.name)
       ELSE UNCHANGED names
    /\ End(s)
    /\ UNCHANGED <<stored, globally, overrides, users, setting, history, boots, edits, rightsFaults,
                   rightsGhosts>>

\* PATCH /organizations/{id} with a name; a taken one breaks the constraint.
RenameOrganization(c, organization, name) ==
    /\ edits < MaxEdits
    /\ Holds(c, "admin.organizations")
    /\ organization \in DOMAIN names
    /\ Named(name) = 0
    /\ names' = [names EXCEPT ![organization] = name]
    /\ edits' = edits + 1
    /\ UNCHANGED <<stored, globally, overrides, users, setting, history, boots, request, rightsFaults,
                   rightsGhosts>>

-----------------------------------------------------------------------------
(* System settings *)

BeginSetSetting(s, c, value) ==
    /\ setting # NoSetting
    /\ Begin(s, c, "admin.system_settings",
             [kind |-> "setting", value |-> value, read |-> setting])

\* Mutant: the history gets the new value.
MutPrevious(r) == [value |-> r.value, version |-> r.read.version, changed_by |-> r.read.by]

Previous(r) == [value |-> r.read.value, version |-> r.read.version, changed_by |-> r.read.by]

\* The UPDATE of a column: nothing if its new value is the one loaded.
Updated(new, read, now) == IF new = read THEN now ELSE new

CommitSetSetting(s) ==
    LET r == request[s] IN
    /\ r.kind = "setting" /\ setting # NoSetting
    /\ history' = Append(history, Previous(r))
    /\ setting' = [value |-> Updated(r.value, r.read.value, setting.value),
                   version |-> r.read.version + 1,
                   by |-> Updated(s, r.read.by, setting.by)]
    /\ written' = Append(written, setting'.value)
    /\ lostUpdate' = (lostUpdate \/ r.read # setting)
    /\ End(s)
    /\ UNCHANGED <<stored, globally, overrides, names, users, boots, edits, rightsFaults, decided,
                   overlapped>>

-----------------------------------------------------------------------------
AccessInit ==
    /\ \E release \in {{}, OldRelease} :
         /\ stored = UNION {{g[2], g[3]} : g \in release}
         /\ overrides = Inserted([p \in Pairs |-> << >>], release)
         /\ IF release = {} THEN /\ names = << >> /\ users = [u \in Users |-> Nobody]
                                 /\ setting = NoSetting /\ written = << >>
            ELSE /\ \E n \in Names : names = <<n>>
                 /\ users = [u \in Users |-> [organization |-> 1, role |-> FirstRole]]
                 /\ setting = FirstSetting
                 /\ written = <<DefaultValue>>
    /\ globally = [f \in Features |-> TRUE]
    /\ history = << >>
    /\ boots = [b \in Boots |-> Down]
    /\ request = [s \in Slots |-> Idle]
    /\ edits = 0
    /\ rightsFaults = 0
    /\ decided = << >>
    /\ overlapped = {}
    /\ lostUpdate = FALSE

Booting(b) == Start(b) \/ SeedRead(b) \/ SeedWrite(b) \/ SeedConflict(b)

Committing(s) ==
    \/ CommitSetFeature(s) \/ CreateInline(s) \/ SaveUser(s)
    \/ CommitCreateOrganization(s) \/ CommitSetSetting(s) \/ Fail(s)

Editing(c) ==
    \/ \E f \in Features, b \in BOOLEAN : SetGlobal(c, f, b)
    \/ \E o \in DOMAIN names, n \in Names : RenameOrganization(c, o, n)
    \/ \E s \in Slots :
         \/ \E scope \in Scopes, f \in Features, b \in BOOLEAN :
              BeginSetFeature(s, c, scope, f, b)
         \/ \E u \in Users, r \in Roles \cup {Keep}, n \in Names \cup {Keep} :
              \/ r # Keep /\ n # Keep /\ BeginCreateUser(s, c, u, r, n)
              \/ BeginUpdateUser(s, c, u, r, n)
         \/ \E n \in Names : BeginCreateOrganization(s, c, n)
         \/ \E v \in Values : BeginSetSetting(s, c, v)

AccessNext ==
    \/ \E b \in Boots : Booting(b)
    \/ \E s \in Slots : Committing(s)
    \/ \E c \in Callers \cup Users : Editing(c)

AccessSpec == AccessInit /\ [][AccessNext]_rightsVars

-----------------------------------------------------------------------------
(* Properties *)

\* What the code reads from the rows of a grant.
ReadAs(scope, item) ==
    IF scope[1] \in {"permission", "role"} THEN item \in Enabled(scope)
    ELSE Override(scope, item) # {FALSE}

(***************************************************************************)
(* What the last committed edit left a grant at is what the rows say,      *)
(* however boots, upgrades, retries and other edits come between ("never   *)
(* reverts an admin's later edit", seed_feature_defaults), and one row     *)
(* says it, unless two inserts of that grant overlapped: the value asked   *)
(* for, or, where that was the value the edit had read, what the edits     *)
(* committed since then have made of it.  The history of the setting holds *)
(* every value it had, in order, with the versions 1, 2, ..., unless two   *)
(* updates read the same version (set_system_setting).                     *)
(***************************************************************************)
EditsGovern ==
    /\ \A p \in Pairs \ overlapped :
         /\ Len(overrides[p]) <= 1
         /\ p \in DOMAIN decided => (ReadAs(p[1], p[2]) <=> decided[p])
    /\ ~lostUpdate /\ setting # NoSetting =>
         /\ setting.version = Len(history) + 1
         /\ \A n \in DOMAIN history : history[n].version = n /\ history[n].value = written[n]
         /\ setting.value = written[Len(history) + 1]

\* What a step may give an account a feature by.
GainsForAReason ==
    \A u \in Users, f \in Features :
      f \in Entitlements(u).features' \ Entitlements(u).features =>
         \/ globally'[f] # globally[f]
         \/ users'[u] # users[u]
         \/ \E s \in Slots :
              /\ request[s].kind = "grant" /\ request'[s] = Idle
              /\ request[s].item = f
              /\ request[s].scope \in
                     {<<"role", users[u].role>>, <<"user", u>>,
                      <<"organization", users[u].organization>>}
              /\ request[s].enabled
         \/ LET p == <<<<"role", users[u].role>>, f>> IN
            /\ p \in Pairs
            /\ Len(overrides'[p]) > Len(overrides[p])
            /\ overrides[p] = <<>> \/ p \in overlapped'

(***************************************************************************)
(* A step gives an account a feature only for a reason an administrator    *)
(* gave: a grant or override committed in that step, the global switch,    *)
(* the account's own row, or a default nobody had decided yet.  No boot,   *)
(* rename, failure or edit of somebody else's row opens it                 *)
(* (get_effective_features, seed_feature_defaults).                        *)
(***************************************************************************)
OpensForAReason == [][GainsForAReason]_rightsVars
=============================================================================
