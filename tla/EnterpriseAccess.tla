-------------------------- MODULE EnterpriseAccess --------------------------
(***************************************************************************)
(* The tables that decide who sees an organization's datasets and whether  *)
(* their content may leave for an external model: workspaces and their     *)
(* members, datasets, entitlement grants, model routing policies; and the  *)
(* two pure decisions over them, dataset_is_entitled and                   *)
(* ModelRoutingEngine.evaluate.                                            *)
(*                                                                         *)
(* Source: services/enterprise_data/enterprise_data_service,               *)
(* routers/admin_workspaces.py, routers/admin_enterprise_data.py,          *)
(* routers/admin_data_governance.py, packages/db/db/repository.py.         *)
(***************************************************************************)
EXTENDS Naturals, Sequences, FiniteSets

CONSTANTS
    People,                 \* users with an account
    OrganizationOf,         \* the organization of each
    Claims,                 \* the roles each one's token carries
    RoleNames, AgentTypes,
    Workspaces, WorkspaceOwner,
    Datasets, Owner, ClassOf,   \* organization and classification of each dataset
    Classes, AllowedByDefault,  \* classifications; those an external model may see
    Platform,               \* a policy of no organization
    PositionReader,         \* the agent type that reads positions for trade ideas
    PositionDatasets,       \* datasets of the domains POSITION and PORTFOLIO
    MaxGrants, MaxPolicies, MaxChanges  \* bounds

VARIABLES
    workspaces, members,    \* existing workspaces; <<workspace, user>> pairs
    datasets,               \* registered datasets
    grants,                 \* EnterpriseDataEntitlement rows
    policies,               \* ModelRoutingPolicy rows, oldest first
    issued, changes,        \* grants ever made; edits made
    enforced                \* the database checks foreign keys (PostgreSQL)

accessTables == <<workspaces, members, datasets, grants, policies, issued, changes, enforced>>

Organizations == {Owner[d] : d \in Datasets} \cup {OrganizationOf[u] : u \in People}

PrincipalTypes == {"USER", "ROLE", "WORKSPACE", "AGENT"}

Principals(type) ==
    CASE type = "USER" -> People
      [] type = "ROLE" -> RoleNames
      [] type = "WORKSPACE" -> Workspaces
      [] type = "AGENT" -> AgentTypes

MemberRows == Workspaces \X People

Entitlement(n, dataset, type, principal) ==
    [id |-> n, dataset |-> dataset, principal_type |-> type, principal_id |-> principal]

EntitlementRow(g) ==
    /\ g.id \in 1 .. MaxGrants
    /\ g.dataset \in Datasets
    /\ g.principal_type \in PrincipalTypes
    /\ g.principal_id \in Principals(g.principal_type)

PolicyRows ==
    [organization : Organizations \cup {Platform}, data_classification : Classes,
     allow_external_llm_processing : BOOLEAN]

EnterpriseAccessTypeOK ==
    /\ workspaces \subseteq Workspaces
    /\ members \subseteq MemberRows
    /\ datasets \subseteq Datasets
    /\ \A g \in grants : EntitlementRow(g)
    /\ policies \in Seq(PolicyRows)

-----------------------------------------------------------------------------
(* dataset_entitlement.py *)

\* list_enterprise_data_entitlements
GrantsOn(dataset) == {g \in grants : g.dataset = dataset}

\* list_workspace_ids_for_user: memberships of deleted workspaces count too.
WorkspaceIdsFor(user) == {m[1] : m \in {p \in members : p[2] = user}}

Matches(g, user, roles, memberOf) ==
    \/ g.principal_type = "USER" /\ g.principal_id = user
    \/ g.principal_type = "ROLE" /\ g.principal_id \in roles
    \/ g.principal_type = "WORKSPACE" /\ g.principal_id \in memberOf

\* Mutant: a grant to a workspace that is gone does not count as a grant.
MutDatasetIsEntitled(entitlements, user, roles, memberOf) ==
    LET live == {g \in entitlements : g.principal_type = "WORKSPACE" => g.principal_id \in workspaces}
    IN  live = {} \/ \E g \in live : Matches(g, user, roles, memberOf)

\* Without any grant the whole organization sees the dataset.
DatasetIsEntitled(entitlements, user, roles, memberOf) ==
    entitlements = {} \/ \E g \in entitlements : Matches(g, user, roles, memberOf)

AgentIsEntitled(entitlements, agent) ==
    LET agents == {g \in entitlements : g.principal_type = "AGENT"}
    IN  agents = {} \/ \E g \in agents : g.principal_id = agent

\* list_enterprise_datasets(organization_id=...)
DatasetsOf(organization) == {d \in datasets : Owner[d] = organization}

\* filter_entitled_enterprise_datasets, read in one piece.
Sees(user, dataset) ==
    /\ dataset \in DatasetsOf(OrganizationOf[user])
    /\ DatasetIsEntitled(GrantsOn(dataset), user, Claims[user], WorkspaceIdsFor(user))

-----------------------------------------------------------------------------
(* model_routing.py *)

\* list_model_routing_policies: those of the organization and the platform's.
PoliciesFor(organization) ==
    LET shared == {n \in DOMAIN policies : policies[n].organization \in {organization, Platform}}
    IN  [n \in shared |-> policies[n]]

\* Positions of the policies of one owner for one classification.
Written(list, owner, class) ==
    {n \in DOMAIN list : list[n].organization = owner /\ list[n].data_classification = class}

Newest(positions) == CHOOSE n \in positions : \A m \in positions : m <= n

\* ModelRoutingEngine.evaluate: the organization's newest policy, else the
\* platform's newest, else the built-in default.
MayLeave(list, organization, class) ==
    LET own == Written(list, organization, class)
        platform == Written(list, Platform, class)
    IN  IF own # {} THEN list[Newest(own)].allow_external_llm_processing
        ELSE IF platform # {} THEN list[Newest(platform)].allow_external_llm_processing
        ELSE class \in AllowedByDefault

-----------------------------------------------------------------------------
(* Administrators *)

Change == changes < MaxChanges /\ changes' = changes + 1

\* POST /admin/workspaces: 400 for an unknown organization.
CreateWorkspace(w) ==
    /\ Change
    /\ w \notin workspaces
    /\ WorkspaceOwner[w] \in Organizations
    /\ workspaces' = workspaces \cup {w}
    /\ UNCHANGED <<members, datasets, grants, policies, issued, enforced>>

\* Members and grants refer to it: only a database that checks refuses, and
\* the grants' principal is no reference at all.
DeleteWorkspace(w) ==
    /\ Change
    /\ w \in workspaces
    /\ enforced => \A m \in members : m[1] # w
    /\ workspaces' = workspaces \ {w}
    /\ UNCHANGED <<members, datasets, grants, policies, issued, enforced>>

\* add_workspace_member: a second membership is a no-op.
AddMember(w, u) ==
    /\ Change
    /\ w \in workspaces
    /\ members' = members \cup {<<w, u>>}
    /\ UNCHANGED <<workspaces, datasets, grants, policies, issued, enforced>>

\* Needs the membership, not the workspace.
RemoveMember(w, u) ==
    /\ Change
    /\ <<w, u>> \in members
    /\ members' = members \ {<<w, u>>}
    /\ UNCHANGED <<workspaces, datasets, grants, policies, issued, enforced>>

RegisterDataset(d) ==
    /\ Change
    /\ d \notin datasets
    /\ datasets' = datasets \cup {d}
    /\ UNCHANGED <<workspaces, members, grants, policies, issued, enforced>>

\* POST .../entitlements: the principal is not looked up.
GrantEntitlement(d, type, principal) ==
    /\ Change
    /\ d \in datasets
    /\ issued < MaxGrants
    /\ issued' = issued + 1
    /\ grants' = grants \cup {Entitlement(issued + 1, d, type, principal)}
    /\ UNCHANGED <<workspaces, members, datasets, policies, enforced>>

RevokeEntitlement(g) ==
    /\ Change
    /\ g \in grants
    /\ grants' = grants \ {g}
    /\ UNCHANGED <<workspaces, members, datasets, policies, issued, enforced>>

\* A policy is never edited: a newer one takes over.
CreatePolicy(p) ==
    /\ Change
    /\ Len(policies) < MaxPolicies
    /\ policies' = Append(policies, p)
    /\ UNCHANGED <<workspaces, members, datasets, grants, issued, enforced>>

DeletePolicy(n) ==
    /\ Change
    /\ n \in DOMAIN policies
    /\ policies' = SubSeq(policies, 1, n - 1) \o SubSeq(policies, n + 1, Len(policies))
    /\ UNCHANGED <<workspaces, members, datasets, grants, issued, enforced>>

\* A new platform, or one with its workspaces and datasets set up.
EnterpriseAccessInit ==
    /\ workspaces \in {{}, Workspaces}
    /\ datasets = (IF workspaces = {} THEN {} ELSE Datasets)
    /\ members = {}
    /\ grants = {}
    /\ policies = << >>
    /\ issued = 0
    /\ changes = 0
    /\ enforced \in BOOLEAN

Administer ==
    \/ \E w \in Workspaces : CreateWorkspace(w) \/ DeleteWorkspace(w)
    \/ \E w \in Workspaces, u \in People : AddMember(w, u) \/ RemoveMember(w, u)
    \/ \E d \in Datasets : RegisterDataset(d)
    \/ \E d \in Datasets, type \in PrincipalTypes :
         \E principal \in Principals(type) : GrantEntitlement(d, type, principal)
    \/ \E g \in grants : RevokeEntitlement(g)
    \/ \E p \in PolicyRows : CreatePolicy(p)
    \/ \E n \in DOMAIN policies : DeletePolicy(n)

EnterpriseAccessSpec == EnterpriseAccessInit /\ [][Administer]_accessTables

-----------------------------------------------------------------------------
(* Properties *)

ForPeople(g) == g.principal_type # "AGENT"

\* What a step may show a user a dataset by.
ShownForAReason ==
    \A u \in People, d \in Datasets :
      Sees(u, d)' /\ ~Sees(u, d) =>
         \/ d \notin datasets
         \/ \E g \in grants' \ grants :
              g.dataset = d /\ Matches(g, u, Claims[u], WorkspaceIdsFor(u))
         \/ \E m \in members' \ members :
              m[2] = u /\ \E g \in GrantsOn(d) : g.principal_type = "WORKSPACE"
                                                  /\ g.principal_id = m[1]
         \/ /\ grants' # grants /\ grants' \subseteq grants
            /\ \A g \in GrantsOn(d)' : ~ForPeople(g)

(***************************************************************************)
(* A user comes to see a dataset only when it is registered, when a grant  *)
(* or a membership of the user's own opens it, or when the last grant that *)
(* names people goes.  Deleting a workspace, somebody else's grant or a    *)
(* policy opens nothing (dataset_is_entitled, delete_workspace).           *)
(***************************************************************************)
AccessOpensForAReason == [][ShownForAReason]_accessTables

(***************************************************************************)
(* dataset_entitlement.py: "AGENT principal-type entitlements ... are      *)
(* evaluated independently of dataset_is_entitled's USER/ROLE/WORKSPACE    *)
(* check, not folded into the same allow-list trigger": for people, a      *)
(* dataset's grants to agents might as well not be there.                  *)
(***************************************************************************)
AgentGrantsAreApart ==
    \A u \in People, d \in datasets :
        LET sees(entitlements) ==
                DatasetIsEntitled(entitlements, u, Claims[u], WorkspaceIdsFor(u))
        IN  sees(GrantsOn(d)) = sees({g \in GrantsOn(d) : ForPeople(g)})
=============================================================================
