------------------------------- MODULE MCDesk -------------------------------
(***************************************************************************)
(* Components that share no state with the others, each checked on its     *)
(* own: the first state says which of them runs, the others stay as they   *)
(* began.  Access and Chat run twice, with different bounds.               *)
(***************************************************************************)
EXTENDS Chat, Access, Opportunities, TLC, Integers

CONSTANTS
    x1, x2, y1, y2,     \* interchangeable requests and processes
    Parts       \* those that run

VARIABLES
    part        \* which component runs

-----------------------------------------------------------------------------
(* Requests and processes: two of a kind *)

Xs == {x1, x2}
Ys == {y1, y2}

\* An administrator who is no account, a role with two features, one of them newer than
\* the release that seeded the tables.
MCFeatures == {"f1", "f2"}
MCSensitive == {"f2"}
MCRoles == {"ADMIN", "TRADER"}
MCPermissions == {"admin.feature_management", "admin.users.features", "admin.users.create",
                  "admin.users.edit", "admin.organizations", "admin.system_settings"}
MCGrants == {<<"permission", "ADMIN", p>> : p \in MCPermissions}
                \cup {<<"role", "TRADER", f>> : f \in MCFeatures}
MCOldRelease == MCGrants \ {<<"role", "TRADER", "f2">>}
MCUsers == {"u1"}
MCCallers == {"dev"}
MCCallerRoles == [c \in MCCallers |-> {"ADMIN"}]
MCNames == {"n1", "n2"}
MCValues == {"x", "y"}
\* One organization with a dataset of each of two classes, and another one with one, which
\* has no people.
MCOrganizationOf == [u \in MCUsers |-> "o1"]
MCClaims == [u \in MCUsers |-> {"TRADER"}]
MCRoleNames == {"TRADER"}
MCAgentTypes == {"STRATEGY", "ENTERPRISE_OPPORTUNITY_ENGINE"}
MCWorkspaces == {"w1"}
MCWorkspaceOwner == [w \in MCWorkspaces |-> "o1"]
MCClassOf == [price |-> "PUBLIC", book |-> "CUSTOMER", other |-> "CUSTOMER"]
MCDatasets == DOMAIN MCClassOf
MCOwner == [price |-> "o1", book |-> "o1", other |-> "o2"]
MCClasses == {"PUBLIC", "CUSTOMER"}
MCAllowed == {"PUBLIC"}
MCSessions == {"c1"}
MCTopics == {"enterprise_data_query", "enterprise_trade_idea", "show_evidence",
             "general_status"}
MCRequired == [t \in MCTopics |-> t]

MCAdmins == {"dev"}
MCPositionDatasets == {"book", "other"}
MCOpportunityJobs == {"j1"}
MCRecordRows ==
    {[dataset |-> d, market |-> "m1", direction |-> r] :
        d \in {"book", "other"}, r \in {"LONG", "SHORT"}}
    \cup {[dataset |-> "book", market |-> m, direction |-> "NONE"] : m \in {"m1", "none"}}
    \cup {[dataset |-> "price", market |-> "m1", direction |-> "LONG"]}
MCSignalRow(o, materiality, direction) ==
    [organization |-> o, market |-> "m1", materiality |-> materiality, direction |-> direction]
MCSignalRows ==
    {MCSignalRow("o2", 80, "BEARISH"), MCSignalRow("platform", 65, "BULLISH"),
     MCSignalRow("o1", 80, "BULLISH"), MCSignalRow("o1", 64, "BEARISH"),
     MCSignalRow("platform", 80, "NEUTRAL")}
MCViewRow(o, lean, confident) ==
    [organization |-> o, market |-> "m1", lean |-> lean, confident |-> confident]
MCViewRows ==
    {MCViewRow("platform", "BEARISH", TRUE), MCViewRow("o1", "BULLISH", TRUE),
     MCViewRow("o2", "BEARISH", TRUE), MCViewRow("platform", "NEUTRAL", TRUE),
     MCViewRow("o1", "BEARISH", FALSE)}
MCIdeas == {[market |-> "m1", direction |-> r] : r \in {"LONG", "SPREAD"}}

-----------------------------------------------------------------------------
mcVars == <<part, rightsVars, allChatVars, opportunityVars>>

\* A component that does not run begins in one way.
MCInit ==
    /\ part \in Parts
    /\ ChatInit
    /\ part # "talk" => enforced
    /\ part # "tables" => (workspaces = {} <=> part \notin {"talk", "offers"})
    /\ OpportunitiesInit
    /\ AccessInit
    /\ part \notin {"boots", "edits"} => stored = {}

\* Two processes boot and one edit runs; or one boots and two edits run.
Entitle ==
    /\ part \in {"boots", "edits"}
    /\ AccessNext
    /\ part = "boots" => edits' <= 1
    /\ part = "edits" => boots'[y1] = Down \/ boots'[y2] = Down
    /\ UNCHANGED <<part, allChatVars, opportunityVars>>

\* Up to three edits of the tables, or two and a question; or two questions that may overlap
\* and an edit or a fault, or one question, an edit and a fault, of the topics that tell of
\* datasets.  Nobody edits the other organization's tables, and one type of agent is enough.
Converse ==
    /\ part \in {"tables", "talk"}
    /\ ChatNext
    /\ part = "tables" => asked' <= 1 /\ faults' = 0 /\ changes' + asked' <= 3
    /\ "other" \in datasets' => "other" \in datasets
    /\ \A n \in DOMAIN policies' : policies'[n].organization # "o2"
    /\ \A g \in grants' : g.dataset # "other" /\ g.principal_id # PositionReader
    /\ part = "talk" =>
         /\ changes' <= 1 /\ changes' + asked' + faults' <= 3
         /\ \A s \in Senders :
              handler'[s].phase = "turn" => handler'[s].topic # "general_status"
    /\ UNCHANGED <<part, rightsVars, opportunityVars>>

\* One job (jobs only read what they share), three rows, or some of
\* these together with edits of datasets or grants or a fault.
Offer ==
    /\ part = "offers"
    /\ OpportunitiesNext
    /\ Posts' + jobFaults' + changes' <= 3
    /\ Len(offers') <= 2 /\ issued' <= 1 /\ changes' <= 2
    /\ UNCHANGED <<part, rightsVars, chatVars>>

MCNext == Offer \/ Entitle \/ Converse

MCSpec == MCInit /\ [][MCNext]_mcVars

\* Exchanging two requests, or two processes, changes nothing.
Symmetry == Permutations(Xs) \cup Permutations(Ys)

=============================================================================
