----------------------------- MODULE DeskProofs -----------------------------
(***************************************************************************)
(* What opens a dataset to a user, what of it reaches an external model,   *)
(* and what of a conversation is stored; what opens a feature to an        *)
(* account, and that the rows say what was decided; what an opportunity    *)
(* drafted for an organization rests on: for any number of users, grants,  *)
(* policies, questions, jobs, boots, edits, failures and restarts.         *)
(***************************************************************************)
EXTENDS Chat, Access, Opportunities, SequenceTheorems, FiniteSetTheorems,
        WellFoundedInduction, TLAPS

-----------------------------------------------------------------------------
(* Who sees a dataset *)

\* The three tables that a decision reads.
Untouched == UNCHANGED <<members, datasets, grants>>

\* Where they stay, nobody sees more.
LEMMA NothingOpensUntouched ==
    ASSUME Untouched
    PROVE  ShownForAReason
  BY DEF Untouched, ShownForAReason, Sees, DatasetsOf, GrantsOn, WorkspaceIdsFor

\* A user to whom a registered dataset is hidden matches none of its grants.
LEMMA HiddenMatchesNothing ==
    ASSUME NEW u \in People, NEW d \in datasets, ~Sees(u, d),
           Owner[d] = OrganizationOf[u]
    PROVE  /\ GrantsOn(d) # {}
           /\ \A g \in GrantsOn(d) : ~Matches(g, u, Claims[u], WorkspaceIdsFor(u))
  BY DEF Sees, DatasetsOf, DatasetIsEntitled

-----------------------------------------------------------------------------

\* A new membership shows its own user what the workspace was granted.
LEMMA AddMemberOpens ==
    ASSUME NEW w \in Workspaces, NEW m \in People, AddMember(w, m)
    PROVE  ShownForAReason
<1> SUFFICES ASSUME NEW u \in People, NEW d \in datasets, Sees(u, d)', ~Sees(u, d)
             PROVE  \E p \in members' \ members :
                      p[2] = u /\ \E g \in GrantsOn(d) : g.principal_type = "WORKSPACE"
                                                          /\ g.principal_id = p[1]
  BY DEF ShownForAReason
<1>1. datasets' = datasets /\ grants' = grants /\ members' = members \cup {<<w, m>>}
  BY DEF AddMember
<1>2. Owner[d] = OrganizationOf[u] /\ GrantsOn(d)' = GrantsOn(d)
  BY <1>1 DEF Sees, DatasetsOf, GrantsOn
<1>3. PICK g \in GrantsOn(d) : Matches(g, u, Claims[u], WorkspaceIdsFor(u))'
  BY <1>1, <1>2, HiddenMatchesNothing DEF Sees, DatasetIsEntitled, Matches
<1>4. ~Matches(g, u, Claims[u], WorkspaceIdsFor(u))
  BY <1>2, HiddenMatchesNothing
<1>5. /\ g.principal_type = "WORKSPACE"
      /\ g.principal_id \in WorkspaceIdsFor(u)' /\ g.principal_id \notin WorkspaceIdsFor(u)
  BY <1>3, <1>4 DEF Matches
<1>6. PICK p \in members' : p[2] = u /\ p[1] = g.principal_id
  BY <1>5 DEF WorkspaceIdsFor
<1>7. p \notin members
  BY <1>5, <1>6 DEF WorkspaceIdsFor
<1> QED
  BY <1>5, <1>6, <1>7

\* One membership less shows nobody more.
LEMMA RemoveMemberOpensNothing ==
    ASSUME NEW w \in Workspaces, NEW m \in People, RemoveMember(w, m)
    PROVE  ShownForAReason
<1> SUFFICES ASSUME NEW u \in People, NEW d \in datasets, Sees(u, d)', ~Sees(u, d)
             PROVE  FALSE
  BY DEF ShownForAReason
<1>1. datasets' = datasets /\ grants' = grants /\ members' \subseteq members
  BY DEF RemoveMember
<1>2. WorkspaceIdsFor(u)' \subseteq WorkspaceIdsFor(u)
  BY <1>1 DEF WorkspaceIdsFor
<1>3. Owner[d] = OrganizationOf[u] /\ GrantsOn(d)' = GrantsOn(d)
  BY <1>1 DEF Sees, DatasetsOf, GrantsOn
<1>4. PICK g \in GrantsOn(d) : Matches(g, u, Claims[u], WorkspaceIdsFor(u))'
  BY <1>1, <1>3, HiddenMatchesNothing DEF Sees, DatasetIsEntitled, Matches
<1>5. Matches(g, u, Claims[u], WorkspaceIdsFor(u))
  BY <1>2, <1>4 DEF Matches
<1> QED
  BY <1>3, <1>5, HiddenMatchesNothing

\* A dataset without grants is shown to its organization.
LEMMA RegisterDatasetOpens ==
    ASSUME NEW e \in Datasets, RegisterDataset(e)
    PROVE  ShownForAReason
  BY DEF RegisterDataset, ShownForAReason, Sees, DatasetsOf, GrantsOn, WorkspaceIdsFor

\* A grant shows its dataset to those it names.
LEMMA GrantOpens ==
    ASSUME NEW e \in Datasets, NEW type, NEW principal, GrantEntitlement(e, type, principal)
    PROVE  ShownForAReason
<1> SUFFICES ASSUME NEW u \in People, NEW d \in datasets, Sees(u, d)', ~Sees(u, d)
             PROVE  \E g \in grants' \ grants :
                      g.dataset = d /\ Matches(g, u, Claims[u], WorkspaceIdsFor(u))
  BY DEF ShownForAReason
<1>1. /\ datasets' = datasets /\ members' = members
      /\ grants' = grants \cup {Entitlement(issued + 1, e, type, principal)}
  BY DEF GrantEntitlement
<1>2. Owner[d] = OrganizationOf[u] /\ WorkspaceIdsFor(u)' = WorkspaceIdsFor(u)
  BY <1>1 DEF Sees, DatasetsOf, WorkspaceIdsFor
<1>3. GrantsOn(d) \subseteq GrantsOn(d)'
  BY <1>1 DEF GrantsOn
<1>4. PICK g \in GrantsOn(d)' : Matches(g, u, Claims[u], WorkspaceIdsFor(u))'
  BY <1>2, <1>3, HiddenMatchesNothing DEF Sees, DatasetIsEntitled, Matches
<1>5. g \in grants' /\ g.dataset = d /\ Matches(g, u, Claims[u], WorkspaceIdsFor(u))
  BY <1>2, <1>4 DEF GrantsOn, Matches
<1>6. g \notin grants
  BY <1>2, <1>5, HiddenMatchesNothing DEF GrantsOn
<1> QED
  BY <1>5, <1>6

\* A dataset opens to others when its last grant goes.
LEMMA RevokeOpens ==
    ASSUME NEW r \in grants, RevokeEntitlement(r)
    PROVE  ShownForAReason
<1> SUFFICES ASSUME NEW u \in People, NEW d \in datasets, Sees(u, d)', ~Sees(u, d)
             PROVE  /\ grants' # grants /\ grants' \subseteq grants
                    /\ \A g \in GrantsOn(d)' : ~ForPeople(g)
  BY DEF ShownForAReason
<1>1. datasets' = datasets /\ members' = members /\ grants' = grants \ {r}
  BY DEF RevokeEntitlement
<1>2. /\ Owner[d] = OrganizationOf[u] /\ WorkspaceIdsFor(u)' = WorkspaceIdsFor(u)
      /\ GrantsOn(d)' \subseteq GrantsOn(d)
  BY <1>1 DEF Sees, DatasetsOf, WorkspaceIdsFor, GrantsOn
<1>3. \A g \in GrantsOn(d)' : ~Matches(g, u, Claims[u], WorkspaceIdsFor(u))'
  BY <1>2, HiddenMatchesNothing DEF Matches
<1>4. GrantsOn(d)' = {}
  BY <1>3 DEF Sees, DatasetIsEntitled
<1> QED
  BY <1>1, <1>4

-----------------------------------------------------------------------------
(***************************************************************************)
(* Whatever the tables hold, a user comes to see a dataset only by a       *)
(* registration, a grant or membership of the user's own, or the end of    *)
(* the last grant that names people (dataset_is_entitled and every         *)
(* administrator's endpoint over its tables).                              *)
(***************************************************************************)
THEOREM AccessNeedsAReason == EnterpriseAccessSpec => AccessOpensForAReason
<1>1. ASSUME Administer
      PROVE  ShownForAReason
  <2>1. CASE \E w \in Workspaces : CreateWorkspace(w) \/ DeleteWorkspace(w)
    BY <2>1, NothingOpensUntouched DEF CreateWorkspace, DeleteWorkspace, Untouched
  <2>2. CASE \E w \in Workspaces, u \in People : AddMember(w, u) \/ RemoveMember(w, u)
    BY <2>2, AddMemberOpens, RemoveMemberOpensNothing
  <2>3. CASE \E d \in Datasets : RegisterDataset(d)
    BY <2>3, RegisterDatasetOpens
  <2>4. CASE \E d \in Datasets, type \in PrincipalTypes :
               \E principal \in Principals(type) : GrantEntitlement(d, type, principal)
    BY <2>4, GrantOpens
  <2>5. CASE \E g \in grants : RevokeEntitlement(g)
    BY <2>5, RevokeOpens
  <2>6. CASE \E p \in PolicyRows : CreatePolicy(p)
    BY <2>6, NothingOpensUntouched DEF CreatePolicy, Untouched
  <2>7. CASE \E n \in DOMAIN policies : DeletePolicy(n)
    BY <2>7, NothingOpensUntouched DEF DeletePolicy, Untouched
  <2> QED
    BY <1>1, <2>1, <2>2, <2>3, <2>4, <2>5, <2>6, <2>7 DEF Administer
<1>2. [Administer]_accessTables => [ShownForAReason]_accessTables
  BY <1>1
<1> QED
  BY <1>2, PTL DEF EnterpriseAccessSpec, AccessOpensForAReason

-----------------------------------------------------------------------------
(* What a handler keeps in each phase *)

Opening == [phase : {"conversation"}, session : Sessions]

Asking == [phase : {"turn", "authorize", "datasets", "idea"}, session : Sessions, user : People,
           topic : Topics, question : Nat]

Listing == [phase : {"workspaces"}, session : Sessions, user : People, topic : Topics,
            question : Nat, left : SUBSET Datasets, entitled : {{}}]

Reading == [phase : {"grants"}, session : Sessions, user : People, topic : Topics,
            question : Nat, left : SUBSET Datasets, entitled : SUBSET Datasets,
            memberOf : SUBSET Workspaces]

Checking == [phase : {"positions"}, session : Sessions, user : People, topic : Topics,
             question : Nat, left : SUBSET Datasets, entitled : SUBSET Datasets]

Answering == [phase : {"committee", "model", "reply", "answer"}, session : Sessions,
              user : People, topic : Topics, question : Nat, shown : SUBSET Datasets,
              named : SUBSET Datasets, model : {"none", "external", "fallback"}]

Handlers ==
    {Free} \cup Opening \cup Asking \cup Listing \cup Reading \cup Checking \cup Answering

Turns == [role : {"user", "assistant"}, question : Nat, content : Topics]

ChatTypeOK ==
    /\ datasets \subseteq Datasets
    /\ members \subseteq MemberRows
    /\ sessions \in [Sessions -> [user : People \cup {"nobody"}, messages : Seq(Turns)]]
    /\ transcript \in Seq([conversation : Sessions, role : {"user", "assistant"},
                           question : Nat])
    /\ cited \subseteq Datasets
    /\ handler \in [Senders -> Handlers]
    /\ asked \in Nat

\* Handler s goes on to record r, no other one moves.
MovesTo(s, r) ==
    /\ handler'[s] = r
    /\ \A q \in Senders : q # s => handler'[q] = handler[q]

\* A handler's phase tells the form of its record.
LEMMA PhaseForms ==
    ASSUME ChatTypeOK, NEW s \in Senders
    PROVE  /\ handler[s].phase = "free" <=> handler[s] = Free
           /\ handler[s].phase = "conversation" => handler[s] \in Opening
           /\ handler[s].phase \in {"turn", "authorize", "datasets", "idea"} =>
                handler[s] \in Asking
           /\ handler[s].phase = "workspaces" => handler[s] \in Listing
           /\ handler[s].phase = "grants" => handler[s] \in Reading
           /\ handler[s].phase = "positions" => handler[s] \in Checking
           /\ handler[s].phase \in {"committee", "model", "reply", "answer"} =>
                handler[s] \in Answering
           /\ handler[s] # Free => handler[s].session \in Sessions
<1>1. handler[s] \in Handlers
  BY DEF ChatTypeOK
<1> QED
  BY <1>1 DEF Handlers, Free, Opening, Asking, Listing, Reading, Checking, Answering

\* Assigning a record of one of these forms moves the handler.
LEMMA HandlerMoves ==
    ASSUME ChatTypeOK, NEW s \in Senders, NEW r \in Handlers,
           handler' = [handler EXCEPT ![s] = r]
    PROVE  MovesTo(s, r) /\ handler' \in [Senders -> Handlers]
  BY DEF ChatTypeOK, MovesTo

-----------------------------------------------------------------------------
(* The steps of a handler, as moves *)

\* What an answered tool call leaves is of the last form.
LEMMA FactsForm ==
    ASSUME NEW h, h.session \in Sessions, h.user \in People, h.topic \in Topics,
           h.question \in Nat, NEW shown \in SUBSET Datasets, NEW named \in SUBSET Datasets,
           NEW model \in {"none", "external", "fallback"}
    PROVE  /\ Facts(h, shown, named, model) \in Answering
           /\ [Facts(h, shown, named, model) EXCEPT !.phase = "reply"] \in Answering
           /\ [Facts(h, shown, named, model) EXCEPT !.phase = "committee"] \in Answering
  BY DEF Facts, Answering

\* Only the handler itself, and what trade ideas cite, change while it reads (ChatAgent.ask).
ReadsOnly == UNCHANGED <<accessTables, permitted, sessions, conversations, transcript, asked,
                         faults, troubled, edited>>

\* The permission of the topic is read, and the topic's tool called.
LEMMA AuthorizeMoves ==
    ASSUME ChatTypeOK, NEW s \in Senders, Authorize(s)
    PROVE  /\ handler[s] \in Asking /\ handler[s].phase = "authorize" /\ ReadsOnly
           /\ cited' = cited
           /\ handler' \in [Senders -> Handlers]
           /\ \E r \in Handlers :
                /\ MovesTo(s, r)
                /\ \/ /\ Required[handler[s].topic] \in permitted[handler[s].user]
                      /\ handler[s].topic = "enterprise_data_query"
                      /\ r = [handler[s] EXCEPT !.phase = "datasets"]
                   \/ /\ Required[handler[s].topic] \in permitted[handler[s].user]
                      /\ handler[s].topic = "enterprise_trade_idea"
                      /\ r = [handler[s] EXCEPT !.phase = "idea"]
                   \/ /\ Required[handler[s].topic] \in permitted[handler[s].user]
                      /\ handler[s].topic \notin {"enterprise_data_query",
                                                  "enterprise_trade_idea"}
                      /\ \E quoted \in SUBSET cited :
                           /\ handler[s].topic \notin Quoting => quoted = {}
                           /\ r = Facts(handler[s], quoted, quoted, "external")
                   \/ r = [Facts(handler[s], {}, {}, "none") EXCEPT !.phase = "reply"]
<1>1. /\ handler[s] \in Asking /\ handler[s].phase = "authorize" /\ ReadsOnly
      /\ cited' = cited
  BY PhaseForms DEF Authorize, Advance, ReadsOnly
<1>2. /\ handler[s].session \in Sessions /\ handler[s].user \in People
      /\ handler[s].topic \in Topics /\ handler[s].question \in Nat
  BY <1>1 DEF Asking
<1>3. PICK r : /\ r \in (IF Required[handler[s].topic] \notin permitted[handler[s].user]
                         THEN {[Facts(handler[s], {}, {}, "none") EXCEPT !.phase = "reply"]}
                         ELSE Dispatched(handler[s]))
               /\ handler' = [handler EXCEPT ![s] = r]
  BY DEF Authorize, Advance
<1>4. CASE Required[handler[s].topic] \notin permitted[handler[s].user]
  <2>1. r = [Facts(handler[s], {}, {}, "none") EXCEPT !.phase = "reply"]
    BY <1>3, <1>4
  <2>2. r \in Handlers
    BY <1>2, <2>1, FactsForm DEF Handlers
  <2> QED
    BY <1>1, <1>3, <2>1, <2>2, HandlerMoves
<1>5. CASE Required[handler[s].topic] \in permitted[handler[s].user]
  <2>1. r \in Dispatched(handler[s])
    BY <1>3, <1>5
  <2>2. CASE handler[s].topic = "enterprise_data_query"
    <3>1. r = [handler[s] EXCEPT !.phase = "datasets"]
      BY <2>1, <2>2 DEF Dispatched, Quoting
    <3>2. [handler[s] EXCEPT !.phase = "datasets"] \in Asking
      BY <1>1 DEF Asking
    <3>3. r \in Handlers
      BY <3>1, <3>2 DEF Handlers
    <3> QED
      BY <1>1, <1>3, <1>5, <2>2, <3>1, <3>3, HandlerMoves
  <2>3. CASE handler[s].topic = "enterprise_trade_idea"
    <3>1. r = [handler[s] EXCEPT !.phase = "idea"]
      BY <2>1, <2>3 DEF Dispatched, Quoting
    <3>2. [handler[s] EXCEPT !.phase = "idea"] \in Asking
      BY <1>1 DEF Asking
    <3>3. r \in Handlers
      BY <3>1, <3>2 DEF Handlers
    <3> QED
      BY <1>1, <1>3, <1>5, <2>3, <3>1, <3>3, HandlerMoves
  <2>4. CASE handler[s].topic \notin {"enterprise_data_query", "enterprise_trade_idea"}
    <3>1. PICK quoted \in SUBSET cited :
            /\ handler[s].topic \notin Quoting => quoted = {}
            /\ r = Facts(handler[s], quoted, quoted, "external")
      BY <2>1, <2>4 DEF Dispatched
    <3>2. r \in Handlers
      BY <1>2, <3>1, FactsForm DEF Handlers, ChatTypeOK
    <3>3. MovesTo(s, r) /\ handler' \in [Senders -> Handlers]
      BY <1>3, <3>2, HandlerMoves
    <3> QED
      BY <1>1, <1>5, <2>4, <3>1, <3>2, <3>3
  <2> QED
    BY <2>2, <2>3, <2>4
<1> QED
  BY <1>4, <1>5

\* The question stays the same while the handler reads.
SameQuestion(r, h) ==
    /\ r.session = h.session /\ r.user = h.user
    /\ r.topic = h.topic /\ r.question = h.question

\* An answered tool call is about the question that was asked.
LEMMA FactsQuestion ==
    ASSUME NEW h, NEW shown, NEW named, NEW model
    PROVE  /\ SameQuestion(Facts(h, shown, named, model), h)
           /\ Facts(h, shown, named, model).phase = "model"
           /\ Facts(h, shown, named, model).shown = shown
           /\ Facts(h, shown, named, model).named = named
           /\ Facts(h, shown, named, model).model = model
  BY DEF Facts, SameQuestion

\* The organization's datasets are listed; without any the answer names none.
LEMMA ListDatasetsMoves ==
    ASSUME ChatTypeOK, NEW s \in Senders, ListDatasets(s)
    PROVE  /\ handler[s] \in Asking /\ handler[s].phase = "datasets" /\ ReadsOnly
           /\ handler' \in [Senders -> Handlers]
           /\ \E r \in Handlers :
                /\ MovesTo(s, r)
                /\ SameQuestion(r, handler[s])
                /\ \/ /\ DatasetsOf(OrganizationOf[handler[s].user]) = {}
                      /\ r \in Answering /\ r.phase = "model"
                      /\ r.shown = {} /\ r.named = {}
                   \/ /\ r \in Listing
                      /\ r.left = DatasetsOf(OrganizationOf[handler[s].user])
<1> DEFINE found == DatasetsOf(OrganizationOf[handler[s].user])
           listed == [phase |-> "workspaces", session |-> handler[s].session,
                      user |-> handler[s].user, topic |-> handler[s].topic,
                      question |-> handler[s].question, left |-> found, entitled |-> {}]
<1>1. handler[s] \in Asking /\ handler[s].phase = "datasets" /\ ReadsOnly
  BY PhaseForms DEF ListDatasets, Advance, ReadsOnly
<1>2. /\ handler[s].session \in Sessions /\ handler[s].user \in People
      /\ handler[s].topic \in Topics /\ handler[s].question \in Nat
  BY <1>1 DEF Asking
<1>3. CASE found = {}
  <2>1. handler' = [handler EXCEPT ![s] = Facts(handler[s], {}, {}, "external")]
    BY <1>3 DEF ListDatasets, Advance
  <2>2. Facts(handler[s], {}, {}, "external") \in Answering
    BY <1>2, FactsForm
  <2>3. MovesTo(s, Facts(handler[s], {}, {}, "external")) /\ handler' \in [Senders -> Handlers]
    BY <2>1, <2>2, HandlerMoves DEF Handlers
  <2> QED
    BY <1>1, <1>3, <2>2, <2>3, FactsQuestion DEF Handlers
<1>4. CASE found # {}
  <2>1. handler' = [handler EXCEPT ![s] = listed]
    BY <1>4 DEF ListDatasets, Advance
  <2>2. listed \in Listing /\ SameQuestion(listed, handler[s]) /\ listed.left = found
    <3>1. found \in SUBSET Datasets
      BY DEF ChatTypeOK, DatasetsOf
    <3> QED
      BY <1>2, <3>1 DEF Listing, SameQuestion
  <2> HIDE DEF listed
  <2>3. MovesTo(s, listed) /\ handler' \in [Senders -> Handlers]
    BY <2>1, <2>2, HandlerMoves DEF Handlers
  <2> QED
    BY <1>1, <2>2, <2>3 DEF Handlers
<1> QED
  BY <1>3, <1>4

\* The memberships are read.
LEMMA ReadWorkspacesMoves ==
    ASSUME ChatTypeOK, NEW s \in Senders, ReadWorkspaces(s)
    PROVE  /\ handler[s] \in Listing /\ ReadsOnly
           /\ handler' \in [Senders -> Handlers]
           /\ \E r \in Reading :
                /\ MovesTo(s, r)
                /\ SameQuestion(r, handler[s])
                /\ r.left = handler[s].left /\ r.entitled = {}
                /\ r.memberOf = WorkspaceIdsFor(handler[s].user)
<1> DEFINE r == [phase |-> "grants", session |-> handler[s].session,
                 user |-> handler[s].user, topic |-> handler[s].topic,
                 question |-> handler[s].question, left |-> handler[s].left,
                 entitled |-> {}, memberOf |-> WorkspaceIdsFor(handler[s].user)]
<1>1. handler[s] \in Listing /\ ReadsOnly
  BY PhaseForms DEF ReadWorkspaces, Advance, ReadsOnly
<1>2. handler' = [handler EXCEPT ![s] = r]
  BY DEF ReadWorkspaces, Advance
<1>3. r \in Reading
  <2>1. WorkspaceIdsFor(handler[s].user) \in SUBSET Workspaces
    BY DEF ChatTypeOK, WorkspaceIdsFor, MemberRows
  <2> QED
    BY <1>1, <2>1 DEF Listing, Reading
<1>4. /\ SameQuestion(r, handler[s]) /\ r.left = handler[s].left /\ r.entitled = {}
      /\ r.memberOf = WorkspaceIdsFor(handler[s].user)
  BY DEF SameQuestion
<1> HIDE DEF r
<1>5. MovesTo(s, r) /\ handler' \in [Senders -> Handlers]
  BY <1>2, <1>3, HandlerMoves DEF Handlers
<1> QED
  BY <1>1, <1>3, <1>4, <1>5

\* The grants of one dataset are read and decided on.
LEMMA ReadGrantsMoves ==
    ASSUME ChatTypeOK, NEW s \in Senders, NEW d \in Datasets, ReadGrants(s, d)
    PROVE  /\ handler[s] \in Reading /\ d \in handler[s].left /\ ReadsOnly
           /\ handler' \in [Senders -> Handlers]
           /\ \E r \in Reading :
                /\ MovesTo(s, r)
                /\ SameQuestion(r, handler[s])
                /\ r.left = handler[s].left \ {d} /\ r.memberOf = handler[s].memberOf
                /\ r.entitled =
                     IF DatasetIsEntitled(GrantsOn(d), handler[s].user,
                                          Claims[handler[s].user], handler[s].memberOf)
                     THEN handler[s].entitled \cup {d} ELSE handler[s].entitled
<1> DEFINE granted == DatasetIsEntitled(GrantsOn(d), handler[s].user,
                                        Claims[handler[s].user], handler[s].memberOf)
           r == [handler[s] EXCEPT
                   !.left = handler[s].left \ {d},
                   !.entitled = IF granted THEN handler[s].entitled \cup {d}
                                ELSE handler[s].entitled]
<1>1. handler[s] \in Reading /\ d \in handler[s].left /\ ReadsOnly
  BY PhaseForms DEF ReadGrants, Advance, ReadsOnly
<1>2. handler' = [handler EXCEPT ![s] = r]
  BY DEF ReadGrants, Advance
<1>3. /\ r \in Reading
      /\ SameQuestion(r, handler[s])
      /\ r.left = handler[s].left \ {d} /\ r.memberOf = handler[s].memberOf
      /\ r.entitled = IF granted THEN handler[s].entitled \cup {d} ELSE handler[s].entitled
  <2> HIDE DEF granted
  <2> QED
    BY <1>1 DEF Reading, SameQuestion
<1> HIDE DEF r
<1>4. MovesTo(s, r) /\ handler' \in [Senders -> Handlers]
  BY <1>2, <1>3, HandlerMoves DEF Handlers
<1> QED
  BY <1>1, <1>3, <1>4

\* The policies are read and the model chosen.
LEMMA ReadPoliciesMoves ==
    ASSUME ChatTypeOK, NEW s \in Senders, ReadPolicies(s)
    PROVE  /\ handler[s] \in Reading /\ handler[s].left = {} /\ ReadsOnly
           /\ handler' \in [Senders -> Handlers]
           /\ \E r \in Answering :
                /\ MovesTo(s, r)
                /\ SameQuestion(r, handler[s])
                /\ r.phase = "model"
                /\ r.named = handler[s].entitled
                /\ LET organization == OrganizationOf[handler[s].user]
                       open == {d \in handler[s].entitled :
                                  MayLeave(PoliciesFor(organization), organization, ClassOf[d])}
                   IN  /\ r.shown = open
                       /\ r.model = "external" => handler[s].entitled \subseteq open
<1> DEFINE organization == OrganizationOf[handler[s].user]
           leaves(d) == MayLeave(PoliciesFor(organization), organization, ClassOf[d])
           blocked == {d \in handler[s].entitled : ~leaves(d)}
           chosen == ModelFor(blocked, handler[s].entitled)
<1>1. /\ handler[s] \in Reading /\ handler[s].left = {} /\ ReadsOnly
      /\ handler' = [handler EXCEPT ![s] =
           IF handler[s].entitled = {} THEN Facts(handler[s], {}, {}, "external")
           ELSE Facts(handler[s], handler[s].entitled \ blocked, handler[s].entitled, chosen)]
  BY PhaseForms DEF ReadPolicies, Advance, ReadsOnly
<1>2. chosen \in {"external", "fallback"} /\ (chosen = "external" => blocked = {})
  BY DEF ModelFor
<1>3. /\ handler[s].session \in Sessions /\ handler[s].user \in People
      /\ handler[s].topic \in Topics /\ handler[s].question \in Nat
      /\ handler[s].entitled \in SUBSET Datasets
  BY <1>1 DEF Reading
<1> HIDE DEF leaves, chosen
<1>4. PICK shown \in SUBSET Datasets, model \in {"none", "external", "fallback"} :
        /\ handler' = [handler EXCEPT ![s] =
                         Facts(handler[s], shown, handler[s].entitled, model)]
        /\ shown = {d \in handler[s].entitled : leaves(d)}
        /\ model = "external" => handler[s].entitled \subseteq shown
  <2>1. CASE handler[s].entitled = {}
    BY <1>1, <2>1
  <2>2. CASE handler[s].entitled # {}
    <3>1. handler[s].entitled \ blocked = {d \in handler[s].entitled : leaves(d)}
      OBVIOUS
    <3>2. chosen = "external" => handler[s].entitled \subseteq handler[s].entitled \ blocked
      BY <1>2
    <3> QED
      BY <1>1, <1>2, <1>3, <2>2, <3>1, <3>2
  <2> QED
    BY <2>1, <2>2
<1> DEFINE r == Facts(handler[s], shown, handler[s].entitled, model)
<1>5. r \in Answering
  BY <1>3, FactsForm
<1>6. /\ SameQuestion(r, handler[s]) /\ r.phase = "model" /\ r.shown = shown
      /\ r.named = handler[s].entitled /\ r.model = model
  BY FactsQuestion
<1> HIDE DEF r
<1>7. MovesTo(s, r) /\ handler' \in [Senders -> Handlers]
  BY <1>4, <1>5, HandlerMoves DEF Handlers, r
<1> QED
  BY <1>1, <1>4, <1>5, <1>6, <1>7 DEF leaves

\* The model has answered.
LEMMA CompleteMoves ==
    ASSUME ChatTypeOK, NEW s \in Senders, Complete(s)
    PROVE  /\ handler[s] \in Answering /\ ReadsOnly
           /\ handler' \in [Senders -> Handlers]
           /\ \E r \in Answering :
                MovesTo(s, r) /\ SameQuestion(r, handler[s]) /\ r.phase = "reply"
<1>1. handler[s] \in Answering /\ ReadsOnly
  BY PhaseForms DEF Complete, Advance, ReadsOnly
<1>2. handler' = [handler EXCEPT ![s] = [handler[s] EXCEPT !.phase = "reply"]]
  BY DEF Complete, Advance
<1> DEFINE r == [handler[s] EXCEPT !.phase = "reply"]
<1>3. r \in Answering /\ SameQuestion(r, handler[s]) /\ r.phase = "reply"
  BY <1>1 DEF Answering, SameQuestion
<1> HIDE DEF r
<1>4. MovesTo(s, r) /\ handler' \in [Senders -> Handlers]
  BY <1>2, <1>3, HandlerMoves DEF Handlers, r
<1> QED
  BY <1>1, <1>3, <1>4

\* The organization's datasets of positions are listed.
LEMMA ListPositionsMoves ==
    ASSUME ChatTypeOK, NEW s \in Senders, ListPositions(s)
    PROVE  /\ handler[s] \in Asking /\ handler[s].phase = "idea" /\ ReadsOnly
           /\ cited' = cited
           /\ handler' \in [Senders -> Handlers]
           /\ \E r \in Checking :
                /\ MovesTo(s, r)
                /\ SameQuestion(r, handler[s])
                /\ r.left = DatasetsOf(OrganizationOf[handler[s].user]) \cap PositionDatasets
                /\ r.entitled = {}
<1> DEFINE found == DatasetsOf(OrganizationOf[handler[s].user]) \cap PositionDatasets
           r == [phase |-> "positions", session |-> handler[s].session,
                 user |-> handler[s].user, topic |-> handler[s].topic,
                 question |-> handler[s].question, entitled |-> {}, left |-> found]
<1>1. /\ handler[s] \in Asking /\ handler[s].phase = "idea" /\ ReadsOnly
      /\ cited' = cited
  BY PhaseForms DEF ListPositions, Advance, ReadsOnly
<1>2. handler' = [handler EXCEPT ![s] = r]
  BY DEF ListPositions, Advance
<1>3. r \in Checking
  <2>1. found \in SUBSET Datasets
    BY DEF ChatTypeOK, DatasetsOf
  <2> HIDE DEF found
  <2> QED
    BY <1>1, <2>1 DEF Asking, Checking
<1>4. SameQuestion(r, handler[s]) /\ r.left = found /\ r.entitled = {}
  BY DEF SameQuestion
<1> HIDE DEF r
<1>5. MovesTo(s, r) /\ handler' \in [Senders -> Handlers]
  BY <1>2, <1>3, HandlerMoves DEF Handlers
<1> QED
  BY <1>1, <1>3, <1>4, <1>5

\* Whether the agent that reads positions may read one dataset's.
LEMMA CheckReaderMoves ==
    ASSUME ChatTypeOK, NEW s \in Senders, NEW d \in Datasets, CheckReader(s, d)
    PROVE  /\ handler[s] \in Checking /\ d \in handler[s].left /\ ReadsOnly
           /\ cited' = cited
           /\ handler' \in [Senders -> Handlers]
           /\ \E r \in Checking :
                /\ MovesTo(s, r)
                /\ SameQuestion(r, handler[s])
                /\ r.left = handler[s].left \ {d}
                /\ r.entitled = IF AgentIsEntitled(GrantsOn(d), PositionReader)
                                THEN handler[s].entitled \cup {d} ELSE handler[s].entitled
<1> DEFINE granted == AgentIsEntitled(GrantsOn(d), PositionReader)
           r == [handler[s] EXCEPT
                   !.left = handler[s].left \ {d},
                   !.entitled = IF granted THEN handler[s].entitled \cup {d}
                                ELSE handler[s].entitled]
<1>1. /\ handler[s] \in Checking /\ d \in handler[s].left /\ ReadsOnly
      /\ cited' = cited
  BY PhaseForms DEF CheckReader, Advance, ReadsOnly
<1>2. handler' = [handler EXCEPT ![s] = r]
  BY DEF CheckReader, Advance
<1>3. /\ r \in Checking
      /\ SameQuestion(r, handler[s])
      /\ r.left = handler[s].left \ {d}
      /\ r.entitled = IF granted THEN handler[s].entitled \cup {d} ELSE handler[s].entitled
  <2> HIDE DEF granted
  <2> QED
    BY <1>1 DEF Checking, SameQuestion
<1> HIDE DEF r
<1>4. MovesTo(s, r) /\ handler' \in [Senders -> Handlers]
  BY <1>2, <1>3, HandlerMoves DEF Handlers
<1> QED
  BY <1>1, <1>3, <1>4

\* The idea cites some of what the agent may read.
LEMMA DraftIdeaMoves ==
    ASSUME ChatTypeOK, NEW s \in Senders, DraftIdea(s)
    PROVE  /\ handler[s] \in Checking /\ handler[s].left = {} /\ ReadsOnly
           /\ handler' \in [Senders -> Handlers]
           /\ \E r \in Answering :
                /\ MovesTo(s, r)
                /\ SameQuestion(r, handler[s])
                /\ r.phase = "committee"
                /\ r.named \subseteq handler[s].entitled /\ r.shown = r.named
                /\ cited' = cited \cup r.named
<1>1. handler[s] \in Checking /\ handler[s].left = {} /\ ReadsOnly
  BY PhaseForms DEF DraftIdea, ReadsOnly
<1>2. PICK used \in SUBSET handler[s].entitled :
        /\ cited' = cited \cup used
        /\ handler' = [handler EXCEPT ![s] =
                         [Facts(handler[s], used, used, "external") EXCEPT !.phase = "committee"]]
  BY DEF DraftIdea
<1>3. /\ handler[s].session \in Sessions /\ handler[s].user \in People
      /\ handler[s].topic \in Topics /\ handler[s].question \in Nat
      /\ used \in SUBSET Datasets
  BY <1>1 DEF Checking
<1> DEFINE r == [Facts(handler[s], used, used, "external") EXCEPT !.phase = "committee"]
<1>4. r \in Answering
  BY <1>3, FactsForm
<1>5. /\ SameQuestion(r, handler[s]) /\ r.phase = "committee"
      /\ r.shown = used /\ r.named = used
  BY DEF Facts, SameQuestion
<1> HIDE DEF r
<1>6. MovesTo(s, r) /\ handler' \in [Senders -> Handlers]
  BY <1>2, <1>4, HandlerMoves DEF Handlers, r
<1> QED
  BY <1>1, <1>2, <1>4, <1>5, <1>6

\* The committee's models have answered.
LEMMA DeliberateMoves ==
    ASSUME ChatTypeOK, NEW s \in Senders, Deliberate(s)
    PROVE  /\ handler[s] \in Answering /\ handler[s].phase = "committee" /\ ReadsOnly
           /\ cited' = cited
           /\ handler' \in [Senders -> Handlers]
           /\ \E r \in Answering :
                /\ MovesTo(s, r) /\ SameQuestion(r, handler[s]) /\ r.phase = "model"
                /\ r.shown = handler[s].shown /\ r.named = handler[s].named
                /\ r.model = handler[s].model
<1>1. /\ handler[s] \in Answering /\ handler[s].phase = "committee" /\ ReadsOnly
      /\ cited' = cited
  BY PhaseForms DEF Deliberate, Advance, ReadsOnly
<1>2. handler' = [handler EXCEPT ![s] = [handler[s] EXCEPT !.phase = "model"]]
  BY DEF Deliberate, Advance
<1> DEFINE r == [handler[s] EXCEPT !.phase = "model"]
<1>3. /\ r \in Answering /\ SameQuestion(r, handler[s]) /\ r.phase = "model"
      /\ r.shown = handler[s].shown /\ r.named = handler[s].named
      /\ r.model = handler[s].model
  BY <1>1 DEF Answering, SameQuestion
<1> HIDE DEF r
<1>4. MovesTo(s, r) /\ handler' \in [Senders -> Handlers]
  BY <1>2, <1>3, HandlerMoves DEF Handlers, r
<1> QED
  BY <1>1, <1>3, <1>4

-----------------------------------------------------------------------------
(* Types *)

\* While a handler reads, only its record changes.
Reads(s) ==
    \/ Authorize(s) \/ ListDatasets(s) \/ ReadWorkspaces(s)
    \/ \E d \in Datasets : ReadGrants(s, d)
    \/ ReadPolicies(s)
    \/ ListPositions(s) \/ \E d \in Datasets : CheckReader(s, d)
    \/ DraftIdea(s) \/ Deliberate(s) \/ Complete(s)

\* What trade ideas cite only grows while a handler reads.
LEMMA ReadsCite ==
    ASSUME ChatTypeOK, NEW s \in Senders, Reads(s)
    PROVE  cited \subseteq cited' /\ cited' \subseteq Datasets
<1>1. CASE DraftIdea(s)
  <2>1. PICK r \in Answering : cited' = cited \cup r.named
    BY <1>1, DraftIdeaMoves
  <2> QED
    BY <2>1 DEF ChatTypeOK, Answering
<1>2. CASE \/ Authorize(s) \/ ListDatasets(s) \/ ReadWorkspaces(s)
           \/ \E d \in Datasets : ReadGrants(s, d)
           \/ ReadPolicies(s)
           \/ ListPositions(s) \/ \E d \in Datasets : CheckReader(s, d)
           \/ Deliberate(s) \/ Complete(s)
  <2>1. cited' = cited
    BY <1>2 DEF Authorize, ListDatasets, ReadWorkspaces, ReadGrants, ReadPolicies, ListPositions,
       CheckReader, Deliberate, Complete, Advance
  <2> QED
    BY <2>1 DEF ChatTypeOK
<1> QED
  BY <1>1, <1>2 DEF Reads

\* Every read keeps the question, and only the handler moves.
LEMMA ReadsKeepQuestion ==
    ASSUME ChatTypeOK, NEW s \in Senders, Reads(s)
    PROVE  /\ ReadsOnly
           /\ handler' \in [Senders -> Handlers]
           /\ \A q \in Senders : q # s => handler'[q] = handler[q]
           /\ SameQuestion(handler'[s], handler[s])
           /\ handler[s].phase \in {"authorize", "datasets", "workspaces", "grants", "idea",
                                   "positions", "committee", "model"}
           /\ handler'[s].phase \in {"datasets", "workspaces", "grants", "idea", "positions",
                                    "committee", "model", "reply"}
<1>1. CASE Authorize(s)
  <2>1. PICK r \in Handlers :
          /\ MovesTo(s, r)
          /\ \/ r = [handler[s] EXCEPT !.phase = "datasets"]
             \/ r = [handler[s] EXCEPT !.phase = "idea"]
             \/ \E quoted \in SUBSET cited : r = Facts(handler[s], quoted, quoted, "external")
             \/ r = [Facts(handler[s], {}, {}, "none") EXCEPT !.phase = "reply"]
    BY <1>1, AuthorizeMoves
  <2>2. handler[s] \in Asking /\ handler[s].phase = "authorize"
    BY <1>1, AuthorizeMoves
  <2>3. SameQuestion(r, handler[s]) /\ r.phase \in {"datasets", "idea", "model", "reply"}
    BY <2>1, <2>2 DEF Facts, SameQuestion, Asking
  <2> QED
    BY <1>1, <2>1, <2>2, <2>3, AuthorizeMoves DEF MovesTo
<1>2. CASE ListDatasets(s)
  <2>1. PICK r \in Handlers :
          /\ MovesTo(s, r) /\ SameQuestion(r, handler[s])
          /\ (r \in Answering /\ r.phase = "model") \/ r \in Listing
    BY <1>2, ListDatasetsMoves
  <2>2. r.phase \in {"model", "workspaces"}
    BY <2>1 DEF Listing
  <2> QED
    BY <1>2, <2>1, <2>2, ListDatasetsMoves DEF MovesTo
<1>3. CASE ReadWorkspaces(s)
  <2>1. PICK r \in Reading : MovesTo(s, r) /\ SameQuestion(r, handler[s])
    BY <1>3, ReadWorkspacesMoves
  <2>2. r.phase = "grants" /\ handler[s].phase = "workspaces"
    BY <1>3, <2>1, ReadWorkspacesMoves DEF Reading, Listing
  <2> QED
    BY <1>3, <2>1, <2>2, ReadWorkspacesMoves DEF MovesTo
<1>4. ASSUME NEW d \in Datasets, ReadGrants(s, d)
      PROVE  /\ ReadsOnly
             /\ handler' \in [Senders -> Handlers]
             /\ \A q \in Senders : q # s => handler'[q] = handler[q]
             /\ SameQuestion(handler'[s], handler[s])
             /\ handler[s].phase = "grants" /\ handler'[s].phase = "grants"
  <2>1. PICK r \in Reading : MovesTo(s, r) /\ SameQuestion(r, handler[s])
    BY <1>4, ReadGrantsMoves
  <2>2. r.phase = "grants" /\ handler[s].phase = "grants"
    BY <1>4, <2>1, ReadGrantsMoves DEF Reading
  <2> QED
    BY <1>4, <2>1, <2>2, ReadGrantsMoves DEF MovesTo
<1>5. CASE ReadPolicies(s)
  <2>1. PICK r \in Answering :
          MovesTo(s, r) /\ SameQuestion(r, handler[s]) /\ r.phase = "model"
    BY <1>5, ReadPoliciesMoves
  <2>2. handler[s].phase = "grants"
    BY <1>5, ReadPoliciesMoves DEF Reading
  <2> QED
    BY <1>5, <2>1, <2>2, ReadPoliciesMoves DEF MovesTo
<1>6. CASE Complete(s)
  <2>1. PICK r \in Answering :
          MovesTo(s, r) /\ SameQuestion(r, handler[s]) /\ r.phase = "reply"
    BY <1>6, CompleteMoves
  <2>2. handler[s].phase = "model"
    BY <1>6 DEF Complete
  <2> QED
    BY <1>6, <2>1, <2>2, CompleteMoves DEF MovesTo
<1>7. CASE ListPositions(s)
  <2>1. PICK r \in Checking : MovesTo(s, r) /\ SameQuestion(r, handler[s])
    BY <1>7, ListPositionsMoves
  <2>2. r.phase = "positions"
    BY <2>1 DEF Checking
  <2> QED
    BY <1>7, <2>1, <2>2, ListPositionsMoves DEF MovesTo
<1>8. ASSUME NEW d \in Datasets, CheckReader(s, d)
      PROVE  /\ ReadsOnly
             /\ handler' \in [Senders -> Handlers]
             /\ \A q \in Senders : q # s => handler'[q] = handler[q]
             /\ SameQuestion(handler'[s], handler[s])
             /\ handler[s].phase = "positions" /\ handler'[s].phase = "positions"
  <2>1. PICK r \in Checking : MovesTo(s, r) /\ SameQuestion(r, handler[s])
    BY <1>8, CheckReaderMoves
  <2>2. r.phase = "positions" /\ handler[s].phase = "positions"
    BY <1>8, <2>1, CheckReaderMoves DEF Checking
  <2> QED
    BY <1>8, <2>1, <2>2, CheckReaderMoves DEF MovesTo
<1>9. CASE DraftIdea(s)
  <2>1. PICK r \in Answering :
          MovesTo(s, r) /\ SameQuestion(r, handler[s]) /\ r.phase = "committee"
    BY <1>9, DraftIdeaMoves
  <2>2. handler[s].phase = "positions"
    BY <1>9, DraftIdeaMoves DEF Checking
  <2> QED
    BY <1>9, <2>1, <2>2, DraftIdeaMoves DEF MovesTo
<1>10. CASE Deliberate(s)
  <2>1. PICK r \in Answering :
          MovesTo(s, r) /\ SameQuestion(r, handler[s]) /\ r.phase = "model"
    BY <1>10, DeliberateMoves
  <2> QED
    BY <1>10, <2>1, DeliberateMoves DEF MovesTo
<1> QED
  BY <1>1, <1>2, <1>3, <1>4, <1>5, <1>6, <1>7, <1>8, <1>9, <1>10 DEF Reads

\* The steps of a handler other than reads.
Writes(s) ==
    \/ SaveConversation(s) \/ SaveTurn(s) \/ Reply(s) \/ SaveAnswer(s) \/ ChatFails(s)

\* The step that writes leaves the other handlers and the tables alone, and it ends the
\* request or keeps its question.
LEMMA WritesMove ==
    ASSUME ChatTypeOK, NEW s \in Senders, Writes(s)
    PROVE  /\ UNCHANGED <<accessTables, permitted, cited, asked, edited>>
           /\ handler' \in [Senders -> Handlers]
           /\ handler[s] # Free
           /\ \E r \in Handlers :
                /\ MovesTo(s, r)
                /\ \/ r = Free /\ ~SaveTurn(s) /\ ~Reply(s)
                   \/ /\ SaveTurn(s) /\ handler[s] \in Asking /\ handler[s].phase = "turn"
                      /\ SameQuestion(r, handler[s]) /\ r.phase = "authorize"
                   \/ /\ Reply(s) /\ handler[s] \in Answering /\ handler[s].phase = "reply"
                      /\ SameQuestion(r, handler[s]) /\ r.phase = "answer"
<1>1. Free \in Handlers /\ Free.phase = "free"
  BY DEF Handlers, Free
<1>2. CASE SaveTurn(s)
  <2>1. handler[s] \in Asking /\ handler[s].phase = "turn"
    BY <1>2, PhaseForms DEF SaveTurn
  <2> DEFINE r == [handler[s] EXCEPT !.phase = "authorize"]
  <2>2. handler' = [handler EXCEPT ![s] = r]
    BY <1>2 DEF SaveTurn
  <2>3. r \in Handlers /\ SameQuestion(r, handler[s]) /\ r.phase = "authorize"
    BY <2>1 DEF Handlers, Asking, SameQuestion
  <2> HIDE DEF r
  <2> QED
    BY <1>1, <1>2, <2>1, <2>2, <2>3, HandlerMoves DEF SaveTurn
<1>3. CASE Reply(s)
  <2>1. handler[s] \in Answering /\ handler[s].phase = "reply"
    BY <1>3, PhaseForms DEF Reply
  <2> DEFINE r == [handler[s] EXCEPT !.phase = "answer"]
  <2>2. handler' = [handler EXCEPT ![s] = r]
    BY <1>3 DEF Reply
  <2>3. r \in Handlers /\ SameQuestion(r, handler[s]) /\ r.phase = "answer"
    BY <2>1 DEF Handlers, Answering, SameQuestion
  <2> HIDE DEF r
  <2> QED
    BY <1>1, <1>3, <2>1, <2>2, <2>3, HandlerMoves DEF Reply
<1>4. CASE SaveConversation(s) \/ SaveAnswer(s) \/ ChatFails(s)
  <2>1. handler' = [handler EXCEPT ![s] = Free]
        /\ UNCHANGED <<accessTables, permitted, cited, asked, edited>>
        /\ handler[s].phase # "free"
    BY <1>4 DEF SaveConversation, SaveAnswer, ChatFails
  <2>2. MovesTo(s, Free) /\ handler' \in [Senders -> Handlers] /\ handler[s] # Free
    BY <1>1, <2>1, HandlerMoves
  <2>3. handler'[s].phase = "free"
    BY <1>1, <2>2 DEF MovesTo
  <2>4. ~SaveTurn(s)
    <3>1. SaveTurn(s) => handler'[s] = [handler[s] EXCEPT !.phase = "authorize"]
                         /\ handler[s] \in Asking
      BY PhaseForms DEF SaveTurn, ChatTypeOK
    <3> QED
      BY <2>3, <3>1 DEF Asking
  <2>5. ~Reply(s)
    <3>1. Reply(s) => handler'[s] = [handler[s] EXCEPT !.phase = "answer"]
                      /\ handler[s] \in Answering
      BY PhaseForms DEF Reply, ChatTypeOK
    <3> QED
      BY <2>3, <3>1 DEF Answering
  <2> QED
    BY <1>1, <2>1, <2>2, <2>4, <2>5
<1> QED
  BY <1>2, <1>3, <1>4 DEF Writes

\* A question is put into the session's messages and taken up by the handler.
LEMMA SendMoves ==
    ASSUME ChatTypeOK, NEW s \in Senders, NEW c \in Sessions, NEW u \in People,
           NEW topic \in Topics, SendMessage(s, c, u, topic)
    PROVE  /\ UNCHANGED <<accessTables, permitted, cited, conversations, transcript>>
           /\ handler[s] = Free
           /\ edited' = edited \ {s}
           /\ asked' \in Nat
           /\ handler' \in [Senders -> Handlers]
           /\ \E r \in Asking :
                /\ MovesTo(s, r)
                /\ r.phase = "turn" /\ r.session = c /\ r.question = asked' /\ r.topic = topic
<1> DEFINE r == [phase |-> "turn", session |-> c, user |-> u, topic |-> topic,
                 question |-> asked']
<1>1. asked' \in Nat
  BY DEF SendMessage, ChatTypeOK
<1>2. r \in Asking
  BY <1>1 DEF Asking
<1>3. handler' = [handler EXCEPT ![s] = r]
  BY DEF SendMessage
<1>4. r.phase = "turn" /\ r.session = c /\ r.question = asked' /\ r.topic = topic
  OBVIOUS
<1> HIDE DEF r
<1>5. MovesTo(s, r) /\ handler' \in [Senders -> Handlers]
  BY <1>2, <1>3, HandlerMoves DEF Handlers
<1> QED
  BY <1>1, <1>2, <1>4, <1>5 DEF SendMessage

\* A new session is opened in memory.
LEMMA CreateMoves ==
    ASSUME ChatTypeOK, NEW s \in Senders, NEW c \in Sessions, NEW u \in People,
           CreateSession(s, c, u)
    PROVE  /\ UNCHANGED <<accessTables, permitted, cited, asked, transcript, edited>>
           /\ handler[s] = Free
           /\ handler' \in [Senders -> Handlers]
           /\ \E r \in Opening : MovesTo(s, r) /\ r.session = c
<1> DEFINE r == [phase |-> "conversation", session |-> c]
<1>1. r \in Opening /\ r.session = c
  BY DEF Opening
<1>2. handler' = [handler EXCEPT ![s] = r]
  BY DEF CreateSession
<1> HIDE DEF r
<1>3. MovesTo(s, r) /\ handler' \in [Senders -> Handlers]
  BY <1>1, <1>2, HandlerMoves DEF Handlers
<1> QED
  BY <1>1, <1>3 DEF CreateSession

\* Administrators keep to existing datasets, workspaces and users.
LEMMA TablesStayTyped ==
    ASSUME datasets \subseteq Datasets, members \subseteq MemberRows, Administer
    PROVE  datasets' \subseteq Datasets /\ members' \subseteq MemberRows
<1>1. CASE \E w \in Workspaces : CreateWorkspace(w) \/ DeleteWorkspace(w)
  BY <1>1 DEF CreateWorkspace, DeleteWorkspace
<1>2. CASE \E w \in Workspaces, u \in People : AddMember(w, u) \/ RemoveMember(w, u)
  BY <1>2 DEF AddMember, RemoveMember, MemberRows
<1>3. CASE \E d \in Datasets : RegisterDataset(d)
  BY <1>3 DEF RegisterDataset
<1>4. CASE \/ \E d \in Datasets, type \in PrincipalTypes :
                \E principal \in Principals(type) : GrantEntitlement(d, type, principal)
           \/ \E g \in grants : RevokeEntitlement(g)
           \/ \E p \in PolicyRows : CreatePolicy(p)
           \/ \E n \in DOMAIN policies : DeletePolicy(n)
  BY <1>4 DEF GrantEntitlement, RevokeEntitlement, CreatePolicy, DeletePolicy
<1> QED
  BY <1>1, <1>2, <1>3, <1>4 DEF Administer

\* What a turn is in memory, and in the table.
LEMMA TurnTypes ==
    ASSUME NEW role \in {"user", "assistant"}, NEW n \in Nat, NEW topic \in Topics,
           NEW c \in Sessions
    PROVE  /\ Turn(role, n, topic) \in Turns
           /\ MessageRow(c, Turn(role, n, topic)) =
                [conversation |-> c, role |-> role, question |-> n]
           /\ MessageRow(c, Turn(role, n, topic)) \in
                [conversation : Sessions, role : {"user", "assistant"}, question : Nat]
  BY DEF Turn, Turns, MessageRow

\* A turn appended to a session's messages.
LEMMA MessagesGrow ==
    ASSUME ChatTypeOK, NEW c \in Sessions, NEW turn \in Turns,
           sessions' = [sessions EXCEPT ![c].messages = Append(@, turn)]
    PROVE  /\ sessions' \in [Sessions -> [user : People \cup {"nobody"}, messages : Seq(Turns)]]
           /\ sessions'[c].user = sessions[c].user
           /\ sessions'[c].messages = Append(sessions[c].messages, turn)
           /\ \A b \in Sessions : b # c => sessions'[b] = sessions[b]
<1>1. sessions[c] \in [user : People \cup {"nobody"}, messages : Seq(Turns)]
  BY DEF ChatTypeOK
<1>2. Append(sessions[c].messages, turn) \in Seq(Turns)
  BY <1>1
<1>3. /\ sessions'[c] = [sessions[c] EXCEPT !.messages = Append(sessions[c].messages, turn)]
      /\ \A b \in Sessions : b # c => sessions'[b] = sessions[b]
  BY DEF ChatTypeOK
<1>4. /\ sessions'[c].user = sessions[c].user
      /\ sessions'[c].messages = Append(sessions[c].messages, turn)
      /\ sessions'[c] \in [user : People \cup {"nobody"}, messages : Seq(Turns)]
  <2>1. PICK u \in People \cup {"nobody"}, list \in Seq(Turns) :
          sessions[c] = [user |-> u, messages |-> list]
    BY <1>1
  <2>2. sessions[c].messages = list /\ sessions[c].user = u
    BY <2>1
  <2> DEFINE longer == Append(list, turn)
  <2>3. longer \in Seq(Turns)
    BY <2>1
  <2>4. sessions'[c] = [sessions[c] EXCEPT !.messages = longer]
    BY <1>3, <2>2
  <2> HIDE DEF longer
  <2>5. sessions'[c] = [user |-> u, messages |-> longer]
    BY <2>1, <2>4
  <2>6. sessions'[c].user = u /\ sessions'[c].messages = longer
    BY <2>5
  <2>7. sessions'[c] \in [user : People \cup {"nobody"}, messages : Seq(Turns)]
    BY <2>1, <2>3, <2>5
  <2> QED
    BY <2>2, <2>6, <2>7 DEF longer
<1> QED
  BY <1>3, <1>4 DEF ChatTypeOK

\* Type correctness of the chat, step by step.
LEMMA ChatTypesInductive ==
    /\ ChatInit => ChatTypeOK
    /\ ChatTypeOK /\ [ChatNext]_allChatVars => ChatTypeOK'
<1>1. ASSUME ChatInit
      PROVE  ChatTypeOK
  <2>1. Unknown \in [user : People \cup {"nobody"}, messages : Seq(Turns)]
    BY DEF Unknown
  <2>2. Free \in Handlers
    BY DEF Handlers
  <2> QED
    BY <1>1, <2>1, <2>2 DEF ChatInit, EnterpriseAccessInit, ChatTypeOK
<1>2. ASSUME ChatTypeOK, [ChatNext]_allChatVars
      PROVE  ChatTypeOK'
  <2>1. ASSUME NEW s \in Senders, NEW c \in Sessions, NEW u \in People, CreateSession(s, c, u)
        PROVE  ChatTypeOK'
    <3>1. sessions' \in [Sessions -> [user : People \cup {"nobody"}, messages : Seq(Turns)]]
      BY <1>2, <2>1 DEF CreateSession, ChatTypeOK
    <3> QED
      BY <1>2, <2>1, <3>1, CreateMoves DEF ChatTypeOK, accessTables
  <2>2. ASSUME NEW s \in Senders, NEW c \in Sessions, NEW u \in People, NEW topic \in Topics,
               SendMessage(s, c, u, topic)
        PROVE  ChatTypeOK'
    <3>1. asked' \in Nat /\ Turn("user", asked', topic) \in Turns
      BY <1>2, <2>2, SendMoves, TurnTypes
    <3>2. sessions' = [sessions EXCEPT ![c].messages = Append(@, Turn("user", asked', topic))]
      BY <2>2 DEF SendMessage
    <3>3. sessions' \in [Sessions -> [user : People \cup {"nobody"}, messages : Seq(Turns)]]
      BY <1>2, <3>1, <3>2, MessagesGrow
    <3> QED
      BY <1>2, <2>2, <3>1, <3>3, SendMoves DEF ChatTypeOK, accessTables
  <2>3. ASSUME NEW s \in Senders, Reads(s)
        PROVE  ChatTypeOK'
    BY <1>2, <2>3, ReadsKeepQuestion, ReadsCite DEF ChatTypeOK, ReadsOnly, accessTables
  <2>4. ASSUME NEW s \in Senders, Writes(s)
        PROVE  ChatTypeOK'
    <3>1. /\ UNCHANGED <<accessTables, cited, asked>> /\ handler' \in [Senders -> Handlers]
      BY <1>2, <2>4, WritesMove
    <3>2. sessions' \in [Sessions -> [user : People \cup {"nobody"}, messages : Seq(Turns)]]
      <4>1. CASE Reply(s)
        <5>1. handler[s] \in Answering
          BY <1>2, <4>1, PhaseForms DEF Reply
        <5>2. /\ Turn("assistant", handler[s].question, handler[s].topic) \in Turns
              /\ handler[s].session \in Sessions
          BY <5>1, TurnTypes DEF Answering
        <5> QED
          BY <1>2, <4>1, <5>2, MessagesGrow DEF Reply
      <4>2. CASE ~Reply(s)
        BY <1>2, <2>4, <4>2
        DEF Writes, SaveConversation, SaveTurn, SaveAnswer, ChatFails, ChatTypeOK
      <4> QED
        BY <4>1, <4>2
    <3>3. transcript' \in Seq([conversation : Sessions, role : {"user", "assistant"},
                               question : Nat])
      <4>1. CASE SaveTurn(s)
        <5>1. handler[s] \in Asking
          BY <1>2, <4>1, PhaseForms DEF SaveTurn
        <5>2. MessageRow(handler[s].session, Turn("user", handler[s].question, handler[s].topic))
                \in [conversation : Sessions, role : {"user", "assistant"}, question : Nat]
          BY <5>1, TurnTypes DEF Asking
        <5> QED
          BY <1>2, <4>1, <5>2 DEF SaveTurn, ChatTypeOK
      <4>2. CASE SaveAnswer(s)
        <5>1. handler[s] \in Answering
          BY <1>2, <4>2, PhaseForms DEF SaveAnswer
        <5>2. MessageRow(handler[s].session,
                         Turn("assistant", handler[s].question, handler[s].topic))
                \in [conversation : Sessions, role : {"user", "assistant"}, question : Nat]
          BY <5>1, TurnTypes DEF Answering
        <5> QED
          BY <1>2, <4>2, <5>2 DEF SaveAnswer, ChatTypeOK
      <4>3. CASE ~SaveTurn(s) /\ ~SaveAnswer(s)
        BY <1>2, <2>4, <4>3 DEF Writes, SaveConversation, Reply, ChatFails, ChatTypeOK
      <4> QED
        BY <4>1, <4>2, <4>3
    <3> QED
      BY <1>2, <3>1, <3>2, <3>3 DEF ChatTypeOK, accessTables
  <2>5. CASE ChatRestart
    <3>1. Unknown \in [user : People \cup {"nobody"}, messages : Seq(Turns)]
      BY DEF Unknown
    <3>2. Free \in Handlers
      BY DEF Handlers
    <3> QED
      BY <1>2, <2>5, <3>1, <3>2 DEF ChatRestart, ChatTypeOK, accessTables
  <2>6. CASE Edit
    BY <1>2, <2>6, TablesStayTyped DEF Edit, ChatTypeOK
  <2>7. ASSUME NEW u \in People, Reassign(u, {"chief_agent.chat"})
        PROVE  ChatTypeOK'
    BY <1>2, <2>7 DEF Reassign, ChatTypeOK
  <2>8. CASE UNCHANGED allChatVars
    BY <1>2, <2>8 DEF allChatVars, chatVars, accessTables, ChatTypeOK
  <2> QED
    BY <1>2, <2>1, <2>2, <2>3, <2>4, <2>5, <2>6, <2>7, <2>8
    DEF ChatNext, Handling, Reads, Writes
<1> QED
  BY <1>1, <1>2

-----------------------------------------------------------------------------
(* What a handler has read *)

(***************************************************************************)
(* Only datasets of the asker's organization are collected, for a trade    *)
(* idea only positions; and unless a table was edited meanwhile, what was  *)
(* read piece by piece is what the tables say: the permission, the         *)
(* memberships, and of the datasets that are done the ones that the user   *)
(* sees, or that the agent which reads positions may read.                 *)
(***************************************************************************)
ReadSoFar(s) ==
    LET h == handler[s]
        organization == OrganizationOf[h.user]
    IN
    /\ h.phase \in {"datasets", "workspaces", "grants"} => h.topic = "enterprise_data_query"
    /\ h.phase \in {"idea", "positions", "committee"} => h.topic = "enterprise_trade_idea"
    /\ h.phase \in {"workspaces", "grants", "positions"} =>
         \A d \in h.left \cup h.entitled : Owner[d] = organization
    /\ h.phase = "positions" => h.left \cup h.entitled \subseteq PositionDatasets
    /\ s \notin edited =>
         /\ h.phase \in {"datasets", "workspaces", "grants", "idea", "positions", "committee",
                         "model"} =>
              Required[h.topic] \in permitted[h.user]
         /\ h.phase = "positions" =>
              \A d \in h.entitled : AgentIsEntitled(GrantsOn(d), PositionReader)
         /\ h.phase = "workspaces" => h.left = DatasetsOf(organization)
         /\ h.phase = "grants" =>
              /\ h.memberOf = WorkspaceIdsFor(h.user)
              /\ h.left \subseteq DatasetsOf(organization)
              /\ h.entitled = {d \in DatasetsOf(organization) \ h.left : Sees(h.user, d)}

WellRead(s) == ReadSoFar(s) /\ AnswerStaysInside(s)

\* Tables that stay give the same answers.
LEMMA SameTables ==
    ASSUME UNCHANGED accessTables
    PROVE  /\ \A o : DatasetsOf(o)' = DatasetsOf(o) /\ PoliciesFor(o)' = PoliciesFor(o)
           /\ \A u : WorkspaceIdsFor(u)' = WorkspaceIdsFor(u)
           /\ \A d : GrantsOn(d)' = GrantsOn(d)
           /\ \A u, d : Sees(u, d)' <=> Sees(u, d)
<1>1. /\ datasets' = datasets /\ members' = members /\ grants' = grants
      /\ policies' = policies
  BY DEF accessTables
<1>2. \A o : DatasetsOf(o)' = DatasetsOf(o) /\ PoliciesFor(o)' = PoliciesFor(o)
  BY <1>1 DEF DatasetsOf, PoliciesFor
<1>3. \A u : WorkspaceIdsFor(u)' = WorkspaceIdsFor(u)
  BY <1>1 DEF WorkspaceIdsFor
<1>4. \A d : GrantsOn(d)' = GrantsOn(d)
  BY <1>1 DEF GrantsOn
<1>5. \A u, d : Sees(u, d)' <=> Sees(u, d)
  BY <1>2, <1>3, <1>4 DEF Sees, DatasetIsEntitled, Matches
<1> QED
  BY <1>2, <1>3, <1>4, <1>5

\* A handler that stands still stays well read as long as the tables stay.
LEMMA OthersStayWellRead ==
    ASSUME NEW q, WellRead(q), handler'[q] = handler[q], cited \subseteq cited',
           UNCHANGED <<accessTables, permitted>>, q \in edited' <=> q \in edited
    PROVE  WellRead(q)'
<1>1. permitted' = permitted
  OBVIOUS
<1>2. ReadSoFar(q)'
  <2>1. ReadSoFar(q)
    BY DEF WellRead
  <2>2. \A d : AgentIsEntitled(GrantsOn(d), PositionReader)' <=>
               AgentIsEntitled(GrantsOn(d), PositionReader)
    BY SameTables DEF AgentIsEntitled
  <2> QED
    BY <1>1, <2>1, <2>2, SameTables DEF ReadSoFar
<1>3. AnswerStaysInside(q)'
  <2>1. AnswerStaysInside(q)
    BY DEF WellRead
  <2>2. PICK h, organization : h = handler[q] /\ organization = OrganizationOf[h.user]
    OBVIOUS
  <2>3. /\ PoliciesFor(organization)' = PoliciesFor(organization)
        /\ {d \in Datasets : Sees(h.user, d)'} = {d \in Datasets : Sees(h.user, d)}
        /\ \A d : GrantsOn(d)' = GrantsOn(d)
    BY SameTables
  <2>4. handler'[q] = h
    BY <2>2
  <2>5. h.topic # "enterprise_data_query" /\ h.named \subseteq cited => h.named \subseteq cited'
    OBVIOUS
  <2> QED
    BY <1>1, <2>1, <2>2, <2>3, <2>4, <2>5 DEF AnswerStaysInside
<1> QED
  BY <1>2, <1>3 DEF WellRead

\* An edit leaves a handler what holds in spite of edits.
LEMMA EditsAreRemembered ==
    ASSUME ChatTypeOK, NEW q \in Senders, WellRead(q), UNCHANGED <<handler, cited>>,
           edited' = edited \cup InFlight
    PROVE  WellRead(q)'
<1>1. CASE handler[q] = Free
  BY <1>1 DEF WellRead, ReadSoFar, AnswerStaysInside, Free
<1>2. CASE handler[q] # Free
  <2>1. q \in edited'
    BY <1>2 DEF InFlight
  <2> QED
    BY <2>1 DEF WellRead, ReadSoFar, AnswerStaysInside
<1> QED
  BY <1>1, <1>2

\* A phase in which nothing has been read yet, or nothing is kept any more.
LEMMA NothingRead ==
    ASSUME NEW s, handler[s].phase \in {"free", "conversation", "turn", "authorize",
                                        "reply", "answer"}
    PROVE  WellRead(s)
  BY DEF WellRead, ReadSoFar, AnswerStaysInside

\* The permission of the topic is read.
LEMMA AuthorizeReads ==
    ASSUME ChatTypeOK, NEW s \in Senders, Authorize(s)
    PROVE  WellRead(s)'
<1>1. PICK r \in Handlers :
        /\ MovesTo(s, r)
        /\ \/ /\ Required[handler[s].topic] \in permitted[handler[s].user]
              /\ handler[s].topic = "enterprise_data_query"
              /\ r = [handler[s] EXCEPT !.phase = "datasets"]
           \/ /\ Required[handler[s].topic] \in permitted[handler[s].user]
              /\ handler[s].topic = "enterprise_trade_idea"
              /\ r = [handler[s] EXCEPT !.phase = "idea"]
           \/ /\ Required[handler[s].topic] \in permitted[handler[s].user]
              /\ handler[s].topic \notin {"enterprise_data_query", "enterprise_trade_idea"}
              /\ \E quoted \in SUBSET cited :
                   /\ handler[s].topic \notin Quoting => quoted = {}
                   /\ r = Facts(handler[s], quoted, quoted, "external")
           \/ r = [Facts(handler[s], {}, {}, "none") EXCEPT !.phase = "reply"]
  BY AuthorizeMoves
<1>2. handler[s] \in Asking /\ permitted' = permitted /\ cited' = cited
  BY AuthorizeMoves DEF ReadsOnly
<1>3. handler'[s] = r
  BY <1>1 DEF MovesTo
<1>4. CASE /\ Required[handler[s].topic] \in permitted[handler[s].user]
           /\ handler[s].topic = "enterprise_data_query"
           /\ r = [handler[s] EXCEPT !.phase = "datasets"]
  <2>1. r.phase = "datasets" /\ r.topic = handler[s].topic /\ r.user = handler[s].user
    BY <1>2, <1>4 DEF Asking
  <2> QED
    BY <1>2, <1>3, <1>4, <2>1 DEF WellRead, ReadSoFar, AnswerStaysInside
<1>5. CASE /\ Required[handler[s].topic] \in permitted[handler[s].user]
           /\ handler[s].topic = "enterprise_trade_idea"
           /\ r = [handler[s] EXCEPT !.phase = "idea"]
  <2>1. r.phase = "idea" /\ r.topic = handler[s].topic /\ r.user = handler[s].user
    BY <1>2, <1>5 DEF Asking
  <2> QED
    BY <1>2, <1>3, <1>5, <2>1 DEF WellRead, ReadSoFar, AnswerStaysInside
<1>6. ASSUME Required[handler[s].topic] \in permitted[handler[s].user],
             handler[s].topic \notin {"enterprise_data_query", "enterprise_trade_idea"},
             NEW quoted \in SUBSET cited,
             handler[s].topic \notin Quoting => quoted = {},
             r = Facts(handler[s], quoted, quoted, "external")
      PROVE  WellRead(s)'
  <2>1. /\ SameQuestion(r, handler[s]) /\ r.phase = "model"
        /\ r.shown = quoted /\ r.named = quoted
    BY <1>6, FactsQuestion
  <2>2. ReadSoFar(s)'
    BY <1>2, <1>3, <1>6, <2>1 DEF SameQuestion, ReadSoFar
  <2>3. AnswerStaysInside(s)'
    BY <1>2, <1>3, <1>6, <2>1 DEF SameQuestion, AnswerStaysInside
  <2> QED
    BY <2>2, <2>3 DEF WellRead
<1>7. CASE r = [Facts(handler[s], {}, {}, "none") EXCEPT !.phase = "reply"]
  <2>1. r.phase = "reply"
    BY <1>7 DEF Facts
  <2> QED
    BY <1>3, <2>1 DEF WellRead, ReadSoFar, AnswerStaysInside
<1> QED
  BY <1>1, <1>4, <1>5, <1>6, <1>7

\* The organization's datasets are listed.
LEMMA ListDatasetsReads ==
    ASSUME ChatTypeOK, NEW s \in Senders, WellRead(s), ListDatasets(s)
    PROVE  WellRead(s)'
<1> DEFINE found == DatasetsOf(OrganizationOf[handler[s].user])
<1>1. PICK r \in Handlers :
        /\ MovesTo(s, r)
        /\ SameQuestion(r, handler[s])
        /\ \/ /\ found = {} /\ r \in Answering /\ r.phase = "model"
              /\ r.shown = {} /\ r.named = {}
           \/ r \in Listing /\ r.left = found
  BY ListDatasetsMoves
<1>2. /\ handler[s].phase = "datasets" /\ permitted' = permitted /\ edited' = edited
      /\ UNCHANGED accessTables
  BY ListDatasetsMoves DEF ReadsOnly
<1>3. handler'[s] = r /\ r.user = handler[s].user /\ r.topic = handler[s].topic
  BY <1>1 DEF MovesTo, SameQuestion
<1>4. /\ handler[s].topic = "enterprise_data_query"
      /\ s \notin edited => Required[handler[s].topic] \in permitted[handler[s].user]
  BY <1>2 DEF WellRead, ReadSoFar
<1>5. CASE found = {} /\ r.phase = "model" /\ r.shown = {} /\ r.named = {}
  <2>1. {d \in Datasets : Sees(r.user, d)'} = {}
    BY <1>2, <1>3, <1>5, SameTables DEF Sees
  <2> QED
    BY <1>2, <1>3, <1>4, <1>5, <2>1 DEF WellRead, ReadSoFar, AnswerStaysInside
<1>6. CASE r \in Listing /\ r.left = found
  <2>1. r.phase = "workspaces" /\ r.entitled = {}
    BY <1>6 DEF Listing
  <2>2. \A d \in found : Owner[d] = OrganizationOf[handler[s].user]
    BY DEF DatasetsOf
  <2>3. DatasetsOf(OrganizationOf[r.user])' = found
    BY <1>2, <1>3, SameTables
  <2> HIDE DEF found
  <2> QED
    BY <1>2, <1>3, <1>4, <1>6, <2>1, <2>2, <2>3 DEF WellRead, ReadSoFar, AnswerStaysInside
<1> QED
  BY <1>1, <1>5, <1>6

\* The memberships are read.
LEMMA ReadWorkspacesReads ==
    ASSUME ChatTypeOK, NEW s \in Senders, WellRead(s), ReadWorkspaces(s)
    PROVE  WellRead(s)'
<1>1. PICK r \in Reading :
        /\ MovesTo(s, r)
        /\ SameQuestion(r, handler[s])
        /\ r.left = handler[s].left /\ r.entitled = {}
        /\ r.memberOf = WorkspaceIdsFor(handler[s].user)
  BY ReadWorkspacesMoves
<1>2. /\ handler[s] \in Listing /\ permitted' = permitted /\ edited' = edited
      /\ UNCHANGED accessTables
  BY ReadWorkspacesMoves DEF ReadsOnly
<1>3. /\ handler'[s] = r /\ r.user = handler[s].user /\ r.topic = handler[s].topic
      /\ r.phase = "grants" /\ handler[s].phase = "workspaces"
  BY <1>1, <1>2 DEF MovesTo, SameQuestion, Reading, Listing
<1> DEFINE organization == OrganizationOf[handler[s].user]
<1>4. /\ handler[s].topic = "enterprise_data_query"
      /\ \A d \in handler[s].left : Owner[d] = organization
      /\ s \notin edited =>
           /\ Required[handler[s].topic] \in permitted[handler[s].user]
           /\ handler[s].left = DatasetsOf(organization)
  BY <1>3 DEF WellRead, ReadSoFar
<1>5. /\ DatasetsOf(organization)' = DatasetsOf(organization)
      /\ WorkspaceIdsFor(r.user)' = WorkspaceIdsFor(handler[s].user)
  BY <1>2, <1>3, SameTables
<1>6. s \notin edited =>
        {d \in DatasetsOf(organization) \ handler[s].left : Sees(r.user, d)'} = {}
  BY <1>4
<1>7. ReadSoFar(s)'
  BY <1>1, <1>2, <1>3, <1>4, <1>5, <1>6 DEF ReadSoFar
<1> QED
  BY <1>3, <1>7 DEF WellRead, AnswerStaysInside

\* The grants of one dataset are read.
LEMMA ReadGrantsReads ==
    ASSUME ChatTypeOK, NEW s \in Senders, WellRead(s), NEW d \in Datasets, ReadGrants(s, d)
    PROVE  WellRead(s)'
<1>0. PICK h, organization : h = handler[s] /\ organization = OrganizationOf[h.user]
  OBVIOUS
<1> DEFINE granted == DatasetIsEntitled(GrantsOn(d), h.user, Claims[h.user], h.memberOf)
<1>1. PICK r \in Reading :
        /\ MovesTo(s, r)
        /\ SameQuestion(r, h)
        /\ r.left = h.left \ {d} /\ r.memberOf = h.memberOf
        /\ r.entitled = IF granted THEN h.entitled \cup {d} ELSE h.entitled
  BY <1>0, ReadGrantsMoves
<1>2. /\ h \in Reading /\ d \in h.left /\ permitted' = permitted /\ edited' = edited
      /\ UNCHANGED accessTables
  BY <1>0, ReadGrantsMoves DEF ReadsOnly
<1>3. /\ handler'[s] = r /\ r.user = h.user /\ r.topic = h.topic
      /\ r.phase = "grants" /\ h.phase = "grants"
  BY <1>0, <1>1, <1>2 DEF MovesTo, SameQuestion, Reading
<1>4. /\ h.topic = "enterprise_data_query"
      /\ \A e \in h.left \cup h.entitled : Owner[e] = organization
      /\ s \notin edited =>
           /\ Required[h.topic] \in permitted[h.user]
           /\ h.memberOf = WorkspaceIdsFor(h.user)
           /\ h.left \subseteq DatasetsOf(organization)
           /\ h.entitled = {e \in DatasetsOf(organization) \ h.left : Sees(h.user, e)}
  BY <1>0, <1>3 DEF WellRead, ReadSoFar
<1>5. /\ DatasetsOf(organization)' = DatasetsOf(organization)
      /\ WorkspaceIdsFor(h.user)' = WorkspaceIdsFor(h.user)
      /\ \A e : Sees(h.user, e)' <=> Sees(h.user, e)
  BY <1>0, <1>2, SameTables
<1>6. \A e \in r.left \cup r.entitled : Owner[e] = organization
  <2> HIDE DEF granted
  <2> QED
    BY <1>0, <1>1, <1>2, <1>4
<1>7. ASSUME s \notin edited
      PROVE  /\ r.left \subseteq DatasetsOf(organization)
             /\ r.entitled = {e \in DatasetsOf(organization) \ r.left : Sees(h.user, e)}
  <2>1. d \in DatasetsOf(organization) /\ (granted <=> Sees(h.user, d))
    BY <1>0, <1>2, <1>4, <1>7 DEF Sees
  <2> HIDE DEF granted
  <2> QED
    BY <1>0, <1>1, <1>2, <1>4, <1>7, <2>1
<1>8. ReadSoFar(s)'
  <2> HIDE DEF granted
  <2> QED
    BY <1>0, <1>1, <1>2, <1>3, <1>4, <1>5, <1>6, <1>7 DEF ReadSoFar
<1> QED
  BY <1>0, <1>3, <1>8 DEF WellRead, AnswerStaysInside

\* The policies are read: what is named and shown is what the tables say.
LEMMA ReadPoliciesReads ==
    ASSUME ChatTypeOK, NEW s \in Senders, WellRead(s), ReadPolicies(s)
    PROVE  WellRead(s)'
<1>0. PICK h, organization : h = handler[s] /\ organization = OrganizationOf[h.user]
  OBVIOUS
<1> DEFINE leaves(d) == MayLeave(PoliciesFor(organization), organization, ClassOf[d])
<1>1. PICK r \in Answering :
        /\ MovesTo(s, r)
        /\ SameQuestion(r, h)
        /\ r.phase = "model"
        /\ r.named = h.entitled
        /\ r.shown = {d \in h.entitled : leaves(d)}
        /\ r.model = "external" => h.entitled \subseteq {d \in h.entitled : leaves(d)}
  BY <1>0, ReadPoliciesMoves
<1>2. /\ h \in Reading /\ h.left = {} /\ permitted' = permitted /\ edited' = edited
      /\ UNCHANGED accessTables
  BY <1>0, ReadPoliciesMoves DEF ReadsOnly
<1>3. /\ handler'[s] = r /\ r.user = h.user /\ r.topic = h.topic /\ h.phase = "grants"
      /\ h.entitled \subseteq Datasets
  BY <1>0, <1>1, <1>2 DEF MovesTo, SameQuestion, Reading
<1>4. /\ h.topic = "enterprise_data_query"
      /\ \A e \in h.entitled : Owner[e] = organization
      /\ s \notin edited =>
           /\ Required[h.topic] \in permitted[h.user]
           /\ h.entitled = {e \in DatasetsOf(organization) \ h.left : Sees(h.user, e)}
  BY <1>0, <1>3 DEF WellRead, ReadSoFar
<1>5. s \notin edited => h.entitled = {e \in Datasets : Sees(h.user, e)}
  <2>1. \A e : Sees(h.user, e) => e \in DatasetsOf(organization)
    BY <1>0 DEF Sees
  <2>2. DatasetsOf(organization) \subseteq Datasets
    BY DEF DatasetsOf, ChatTypeOK
  <2> QED
    BY <1>0, <1>2, <1>4, <2>1, <2>2
<1>6. /\ \A e : Sees(h.user, e)' <=> Sees(h.user, e)
      /\ PoliciesFor(organization)' = PoliciesFor(organization)
  BY <1>0, <1>2, SameTables
<1>7. AnswerStaysInside(s)'
  <2> DEFINE open == {d \in Datasets : leaves(d)}
  <2>1. r.shown \subseteq open /\ (r.model = "external" => r.named \subseteq open)
    <3> HIDE DEF leaves
    <3> QED
      BY <1>0, <1>1, <1>3
  <2>2. open = {d \in Datasets :
                  MayLeave(PoliciesFor(organization)', organization, ClassOf[d])}
    BY <1>0, <1>6
  <2>3. r.shown \subseteq r.named /\ \A e \in r.named : Owner[e] = organization
    BY <1>0, <1>1, <1>4
  <2>4. s \notin edited => r.named = {e \in Datasets : Sees(h.user, e)'}
    BY <1>0, <1>1, <1>5, <1>6
  <2> HIDE DEF open, leaves
  <2> QED
    BY <1>0, <1>2, <1>3, <1>4, <2>1, <2>2, <2>3, <2>4 DEF AnswerStaysInside
<1> QED
  BY <1>0, <1>1, <1>2, <1>3, <1>4, <1>7 DEF WellRead, ReadSoFar

\* The datasets of positions are listed.
LEMMA ListPositionsReads ==
    ASSUME ChatTypeOK, NEW s \in Senders, WellRead(s), ListPositions(s)
    PROVE  WellRead(s)'
<1> DEFINE found == DatasetsOf(OrganizationOf[handler[s].user]) \cap PositionDatasets
<1>1. PICK r \in Checking :
        MovesTo(s, r) /\ SameQuestion(r, handler[s]) /\ r.left = found /\ r.entitled = {}
  BY ListPositionsMoves
<1>2. handler[s].phase = "idea" /\ permitted' = permitted /\ edited' = edited
  BY ListPositionsMoves DEF ReadsOnly
<1>3. /\ handler'[s] = r /\ r.user = handler[s].user /\ r.topic = handler[s].topic
      /\ r.phase = "positions"
  BY <1>1 DEF MovesTo, SameQuestion, Checking
<1>4. /\ handler[s].topic = "enterprise_trade_idea"
      /\ s \notin edited => Required[handler[s].topic] \in permitted[handler[s].user]
  BY <1>2 DEF WellRead, ReadSoFar
<1>5. /\ \A d \in found : Owner[d] = OrganizationOf[handler[s].user]
      /\ found \subseteq PositionDatasets
  BY DEF DatasetsOf
<1> HIDE DEF found
<1> QED
  BY <1>1, <1>2, <1>3, <1>4, <1>5 DEF WellRead, ReadSoFar, AnswerStaysInside

\* Whether the agent may read one of them.
LEMMA CheckReaderReads ==
    ASSUME ChatTypeOK, NEW s \in Senders, WellRead(s), NEW d \in Datasets, CheckReader(s, d)
    PROVE  WellRead(s)'
<1> DEFINE granted(e) == AgentIsEntitled(GrantsOn(e), PositionReader)
<1>0. PICK h, organization : h = handler[s] /\ organization = OrganizationOf[h.user]
  OBVIOUS
<1>1. PICK r \in Checking :
        /\ MovesTo(s, r)
        /\ SameQuestion(r, h)
        /\ r.left = h.left \ {d}
        /\ r.entitled = IF granted(d) THEN h.entitled \cup {d} ELSE h.entitled
  BY <1>0, CheckReaderMoves
<1>2. /\ h \in Checking /\ d \in h.left /\ permitted' = permitted /\ edited' = edited
      /\ UNCHANGED accessTables
  BY <1>0, CheckReaderMoves DEF ReadsOnly
<1>3. /\ handler'[s] = r /\ r.user = h.user /\ r.topic = h.topic
      /\ r.phase = "positions" /\ h.phase = "positions"
  BY <1>0, <1>1, <1>2 DEF MovesTo, SameQuestion, Checking
<1>4. /\ h.topic = "enterprise_trade_idea"
      /\ \A e \in h.left \cup h.entitled : Owner[e] = organization
      /\ h.left \cup h.entitled \subseteq PositionDatasets
      /\ s \notin edited =>
           /\ Required[h.topic] \in permitted[h.user]
           /\ \A e \in h.entitled : granted(e)
  BY <1>0, <1>3 DEF WellRead, ReadSoFar
<1>5. \A e : AgentIsEntitled(GrantsOn(e), PositionReader)' <=> granted(e)
  BY <1>2, SameTables DEF AgentIsEntitled
<1> HIDE DEF granted
<1>6. /\ \A e \in r.left \cup r.entitled : Owner[e] = organization
      /\ r.left \cup r.entitled \subseteq PositionDatasets
      /\ s \notin edited => \A e \in r.entitled : granted(e)
  BY <1>0, <1>1, <1>2, <1>4
<1>7. ReadSoFar(s)'
  BY <1>0, <1>2, <1>3, <1>4, <1>5, <1>6 DEF ReadSoFar
<1> QED
  BY <1>0, <1>3, <1>7 DEF WellRead, AnswerStaysInside

\* The idea cites only what the agent may read.
LEMMA DraftIdeaReads ==
    ASSUME ChatTypeOK, NEW s \in Senders, WellRead(s), DraftIdea(s)
    PROVE  WellRead(s)' /\ \E used \in SUBSET PositionDatasets : cited' = cited \cup used
<1>0. PICK h, organization : h = handler[s] /\ organization = OrganizationOf[h.user]
  OBVIOUS
<1>1. PICK r \in Answering :
        /\ MovesTo(s, r)
        /\ SameQuestion(r, h)
        /\ r.phase = "committee"
        /\ r.named \subseteq h.entitled /\ r.shown = r.named
        /\ cited' = cited \cup r.named
  BY <1>0, DraftIdeaMoves
<1>2. /\ h.phase = "positions" /\ permitted' = permitted /\ edited' = edited
      /\ UNCHANGED accessTables
  BY <1>0, DraftIdeaMoves DEF ReadsOnly, Checking
<1>3. handler'[s] = r /\ r.user = h.user /\ r.topic = h.topic
  BY <1>0, <1>1 DEF MovesTo, SameQuestion
<1>4. /\ h.topic = "enterprise_trade_idea"
      /\ \A e \in h.entitled : Owner[e] = organization
      /\ h.entitled \subseteq PositionDatasets
      /\ s \notin edited =>
           /\ Required[h.topic] \in permitted[h.user]
           /\ \A e \in h.entitled : AgentIsEntitled(GrantsOn(e), PositionReader)
  BY <1>0, <1>2 DEF WellRead, ReadSoFar
<1>5. \A e : GrantsOn(e)' = GrantsOn(e)
  BY <1>2, SameTables
<1>6. ReadSoFar(s)'
  BY <1>1, <1>2, <1>3, <1>4 DEF ReadSoFar
<1>7. AnswerStaysInside(s)'
  BY <1>0, <1>1, <1>2, <1>3, <1>4, <1>5 DEF AnswerStaysInside, Quoting
<1> QED
  BY <1>1, <1>4, <1>6, <1>7 DEF WellRead

\* The committee has answered, and the facts stay.
LEMMA DeliberateReads ==
    ASSUME ChatTypeOK, NEW s \in Senders, WellRead(s), Deliberate(s)
    PROVE  WellRead(s)'
<1>0. PICK h, organization : h = handler[s] /\ organization = OrganizationOf[h.user]
  OBVIOUS
<1>1. PICK r \in Answering :
        /\ MovesTo(s, r) /\ SameQuestion(r, h) /\ r.phase = "model"
        /\ r.shown = h.shown /\ r.named = h.named /\ r.model = h.model
  BY <1>0, DeliberateMoves
<1>2. /\ h.phase = "committee" /\ permitted' = permitted /\ edited' = edited
      /\ cited' = cited /\ UNCHANGED accessTables
  BY <1>0, DeliberateMoves DEF ReadsOnly
<1>3. handler'[s] = r /\ r.user = h.user /\ r.topic = h.topic
  BY <1>0, <1>1 DEF MovesTo, SameQuestion
<1>4. h.topic = "enterprise_trade_idea" /\ AnswerStaysInside(s) /\ ReadSoFar(s)
  BY <1>0, <1>2 DEF WellRead, ReadSoFar
<1>5. \A e : GrantsOn(e)' = GrantsOn(e)
  BY <1>2, SameTables
<1>6. ReadSoFar(s)'
  BY <1>0, <1>1, <1>2, <1>3, <1>4 DEF ReadSoFar
<1>7. AnswerStaysInside(s)'
  BY <1>0, <1>1, <1>2, <1>3, <1>4, <1>5 DEF AnswerStaysInside, Quoting
<1> QED
  BY <1>6, <1>7 DEF WellRead

\* A step of the acting handler leaves every other one well read.
LEMMA ReadsStayInside ==
    ASSUME ChatTypeOK, \A q \in Senders : WellRead(q), NEW s \in Senders, Reads(s)
    PROVE  \A q \in Senders : WellRead(q)'
<1>1. ASSUME NEW q \in Senders, q # s
      PROVE  WellRead(q)'
  <2>1. handler'[q] = handler[q] /\ ReadsOnly /\ cited \subseteq cited'
    BY <1>1, ReadsKeepQuestion, ReadsCite
  <2> QED
    BY <2>1, OthersStayWellRead DEF ReadsOnly
<1>2. WellRead(s)'
  <2>1. CASE Authorize(s)
    BY <2>1, AuthorizeReads
  <2>2. CASE ListDatasets(s)
    BY <2>2, ListDatasetsReads
  <2>3. CASE ReadWorkspaces(s)
    BY <2>3, ReadWorkspacesReads
  <2>4. CASE \E d \in Datasets : ReadGrants(s, d)
    BY <2>4, ReadGrantsReads
  <2>5. CASE ReadPolicies(s)
    BY <2>5, ReadPoliciesReads
  <2>6. CASE Complete(s)
    <3>1. PICK r \in Answering : MovesTo(s, r) /\ r.phase = "reply"
      BY <2>6, CompleteMoves
    <3>2. handler'[s].phase = "reply"
      BY <3>1 DEF MovesTo
    <3> QED
      BY <3>2 DEF WellRead, ReadSoFar, AnswerStaysInside
  <2>7. CASE ListPositions(s)
    BY <2>7, ListPositionsReads
  <2>8. CASE \E d \in Datasets : CheckReader(s, d)
    BY <2>8, CheckReaderReads
  <2>9. CASE DraftIdea(s)
    BY <2>9, DraftIdeaReads
  <2>10. CASE Deliberate(s)
    BY <2>10, DeliberateReads
  <2> QED
    BY <2>1, <2>2, <2>3, <2>4, <2>5, <2>6, <2>7, <2>8, <2>9, <2>10 DEF Reads
<1> QED
  BY <1>1, <1>2

\* What each question read, at every step.
LEMMA WellReadInductive ==
    ASSUME ChatTypeOK, \A q \in Senders : WellRead(q), [ChatNext]_allChatVars
    PROVE  \A q \in Senders : WellRead(q)'
<1>1. ASSUME NEW s \in Senders, NEW c \in Sessions, NEW u \in People, CreateSession(s, c, u)
      PROVE  \A q \in Senders : WellRead(q)'
  <2>1. PICK r \in Opening : MovesTo(s, r)
    BY <1>1, CreateMoves
  <2>2. UNCHANGED <<accessTables, permitted, cited, edited>>
    BY <1>1, CreateMoves DEF CreateSession
  <2>3. handler'[s].phase = "conversation" /\ \A q \in Senders : q # s => handler'[q] = handler[q]
    BY <2>1 DEF MovesTo, Opening
  <2>4. WellRead(s)'
    BY <2>3 DEF WellRead, ReadSoFar, AnswerStaysInside
  <2> QED
    BY <2>2, <2>3, <2>4, OthersStayWellRead
<1>2. ASSUME NEW s \in Senders, NEW c \in Sessions, NEW u \in People, NEW topic \in Topics,
             SendMessage(s, c, u, topic)
      PROVE  \A q \in Senders : WellRead(q)'
  <2>1. PICK r \in Asking : MovesTo(s, r) /\ r.phase = "turn"
    BY <1>2, SendMoves
  <2>2. UNCHANGED <<accessTables, permitted, cited>> /\ edited' = edited \ {s}
    BY <1>2, SendMoves
  <2>3. handler'[s].phase = "turn" /\ \A q \in Senders : q # s => handler'[q] = handler[q]
    BY <2>1 DEF MovesTo
  <2>4. WellRead(s)'
    BY <2>3 DEF WellRead, ReadSoFar, AnswerStaysInside
  <2>5. \A q \in Senders : q # s => WellRead(q)'
    BY <2>2, <2>3, OthersStayWellRead
  <2> QED
    BY <2>4, <2>5
<1>3. ASSUME NEW s \in Senders, Writes(s)
      PROVE  \A q \in Senders : WellRead(q)'
  <2>1. PICK r \in Handlers :
          MovesTo(s, r) /\ (r = Free \/ r.phase \in {"authorize", "answer"})
    BY <1>3, WritesMove
  <2>2. UNCHANGED <<accessTables, permitted, cited, edited>>
    BY <1>3, WritesMove
  <2>3. /\ handler'[s].phase \in {"free", "authorize", "answer"}
        /\ \A q \in Senders : q # s => handler'[q] = handler[q]
    BY <2>1 DEF MovesTo, Free
  <2>4. WellRead(s)'
    BY <2>3 DEF WellRead, ReadSoFar, AnswerStaysInside
  <2> QED
    BY <2>2, <2>3, <2>4, OthersStayWellRead
<1>4. CASE ChatRestart
  <2>1. \A q \in Senders : handler'[q].phase = "free"
    BY <1>4 DEF ChatRestart, Free
  <2> QED
    BY <2>1 DEF WellRead, ReadSoFar, AnswerStaysInside
<1>5. CASE Edit
  BY <1>5, EditsAreRemembered DEF Edit
<1>6. ASSUME NEW u \in People, Reassign(u, {"chief_agent.chat"})
      PROVE  \A q \in Senders : WellRead(q)'
  BY <1>6, EditsAreRemembered DEF Reassign
<1>7. CASE UNCHANGED allChatVars
  BY <1>7, OthersStayWellRead DEF allChatVars, chatVars
<1> QED
  BY <1>1, <1>2, <1>3, <1>4, <1>5, <1>6, <1>7, ReadsStayInside
  DEF ChatNext, Handling, Reads, Writes

\* What trade ideas cite are positions.
LEMMA PositionsAreCited ==
    ASSUME ChatTypeOK, \A q \in Senders : WellRead(q), cited \subseteq PositionDatasets,
           [ChatNext]_allChatVars
    PROVE  cited' \subseteq PositionDatasets
<1>1. CASE \E s \in Senders : DraftIdea(s)
  BY <1>1, DraftIdeaReads
<1>2. CASE ChatRestart
  BY <1>2 DEF ChatRestart
<1>3. ASSUME NEW s \in Senders, Handling(s), ~DraftIdea(s)
      PROVE  cited' = cited
  <2>1. CASE Writes(s)
    BY <2>1, WritesMove
  <2>2. CASE ~Writes(s)
    BY <1>3, <2>2
    DEF Handling, Writes, Authorize, ListDatasets, ReadWorkspaces, ReadGrants, ReadPolicies,
        ListPositions, CheckReader, Deliberate, Complete, Advance
  <2> QED
    BY <2>1, <2>2
<1>4. CASE \E s \in Senders, c \in Sessions, u \in People :
             \/ CreateSession(s, c, u)
             \/ \E topic \in Topics : SendMessage(s, c, u, topic)
  BY <1>4 DEF CreateSession, SendMessage
<1>5. CASE \/ \E u \in People : Reassign(u, {"chief_agent.chat"})
           \/ Edit
           \/ UNCHANGED allChatVars
  BY <1>5 DEF Reassign, Edit, allChatVars, chatVars
<1> QED
  BY <1>1, <1>2, <1>3, <1>4, <1>5 DEF ChatNext

(***************************************************************************)
(* Whatever questions, edits, failures and restarts interleave: an answer  *)
(* about the enterprise data has only datasets of the asker's organization *)
(* in its facts, and unless a table was edited meanwhile, all that the     *)
(* user may see are named, and neither facts nor an external model's       *)
(* answer hold one that a policy blocks (_enterprise_data_query,           *)
(* PolicyGatedLLMProvider); of what no policy is asked about, models and   *)
(* later questions get only positions that a trade idea took up, open to   *)
(* the agent that reads them (_enterprise_trade_idea, _show_evidence).     *)
(***************************************************************************)
THEOREM BlockedNeverLeaves == ChatSpec => []BlockedStaysInside
<1> DEFINE Inv == /\ ChatTypeOK
                  /\ \A q \in Senders : WellRead(q)
                  /\ cited \subseteq PositionDatasets
<1>1. ChatInit => Inv
  <2> SUFFICES ASSUME ChatInit PROVE Inv
    OBVIOUS
  <2>1. /\ \A q \in Senders : handler[q].phase = "free"
        /\ cited = {}
    BY DEF ChatInit, Free
  <2> QED
    BY <2>1, NothingRead, ChatTypesInductive
<1>2. Inv /\ [ChatNext]_allChatVars => Inv'
  BY ChatTypesInductive, WellReadInductive, PositionsAreCited
<1>3. Inv => BlockedStaysInside
  BY DEF WellRead, BlockedStaysInside
<1> QED
  BY <1>1, <1>2, <1>3, PTL DEF ChatSpec

-----------------------------------------------------------------------------
(* What of a conversation is stored *)

\* The question that handler s answers is in the table.
QuestionIsStored(s) ==
    \E m \in DOMAIN transcript :
        /\ transcript[m].role = "user"
        /\ transcript[m].question = handler[s].question
        /\ transcript[m].conversation = handler[s].session

\* The phases after the question was stored.
Answered == {"authorize", "datasets", "workspaces", "grants", "idea", "positions", "committee",
             "model", "reply", "answer"}

AnswersFollow ==
    \A n \in DOMAIN transcript :
      transcript[n].role = "assistant" =>
        \E m \in 1 .. n - 1 :
            /\ transcript[m].role = "user"
            /\ transcript[m].question = transcript[n].question
            /\ transcript[m].conversation = transcript[n].conversation

\* The last turn in memory is this one, and the rows are the turns before it.
LastIsUnstored(c, turn) ==
    \E earlier \in Seq(Turns) :
        sessions[c].messages = Append(earlier, turn) /\ StoredAs(c, earlier)

\* What is stored while handler s is about conversation c: all, or all but one turn.
StoredUntil(c, s) ==
    LET h == handler[s] IN
    /\ h.phase \in {"conversation"} \cup (Answered \ {"answer"}) =>
         StoredAs(c, sessions[c].messages)
    /\ h.phase = "turn" => LastIsUnstored(c, Turn("user", h.question, h.topic))
    /\ h.phase = "answer" => LastIsUnstored(c, Turn("assistant", h.question, h.topic))

(***************************************************************************)
(* What is stored of a conversation whose sends were alone and complete:   *)
(* all of it, or all but the turn that its one handler is about to store.  *)
(***************************************************************************)
StoredSoFar(c) ==
    /\ \A s, t \in Here(c) : s = t
    /\ ~Exists(c) => StoredTurns(c) = {}
    /\ Here(c) = {} => StoredAs(c, sessions[c].messages)
    /\ \A s \in Here(c) : StoredUntil(c, s)

SessionsAreKept ==
    /\ \A c \in Sessions : sessions[c].user = "nobody" => ~Exists(c)
    /\ \A s \in Senders : handler[s] # Free => Exists(handler[s].session)

TranscriptSoFar ==
    /\ AnswersFollow
    /\ \A s \in Senders : handler[s].phase \in Answered => QuestionIsStored(s)
    /\ SessionsAreKept
    /\ \A c \in Sessions : c \notin troubled => StoredSoFar(c)

-----------------------------------------------------------------------------
\* The positions in a table to which a row is appended.
LEMMA AppendedRow ==
    ASSUME NEW R, NEW list \in Seq(R), NEW row \in R
    PROVE  /\ Len(list) \in Nat
           /\ DOMAIN list = 1 .. Len(list)
           /\ DOMAIN Append(list, row) = 1 .. Len(list) + 1
           /\ Append(list, row)[Len(list) + 1] = row
           /\ \A n \in 1 .. Len(list) : Append(list, row)[n] = list[n]
  OBVIOUS

\* A turn that is stored adds one row to its conversation, and no row to the others.
LEMMA StoredTurnsGrow ==
    ASSUME ChatTypeOK,
           NEW row \in [conversation : Sessions, role : {"user", "assistant"}, question : Nat],
           transcript' = Append(transcript, row)
    PROVE  /\ Len(transcript) \in Nat
           /\ DOMAIN transcript = 1 .. Len(transcript)
           /\ DOMAIN transcript' = 1 .. Len(transcript) + 1
           /\ transcript'[Len(transcript) + 1] = row
           /\ \A n \in 1 .. Len(transcript) : transcript'[n] = transcript[n]
           /\ StoredTurns(row.conversation)' =
                StoredTurns(row.conversation) \cup {Len(transcript) + 1}
           /\ \A c : c # row.conversation => StoredTurns(c)' = StoredTurns(c)
<1>1. /\ Len(transcript) \in Nat
      /\ DOMAIN transcript = 1 .. Len(transcript)
      /\ DOMAIN transcript' = 1 .. Len(transcript) + 1
      /\ transcript'[Len(transcript) + 1] = row
      /\ \A n \in 1 .. Len(transcript) : transcript'[n] = transcript[n]
  BY AppendedRow DEF ChatTypeOK
<1>2. \A n : n \in 1 .. Len(transcript) + 1 <=>
             n \in 1 .. Len(transcript) \/ n = Len(transcript) + 1
  BY <1>1
<1> QED
  BY <1>1, <1>2 DEF StoredTurns

\* The stored row of a turn is that turn: what was stored of it stays stored.
LEMMA StoredAsOther ==
    ASSUME ChatTypeOK, NEW c, NEW turns, StoredAs(c, turns),
           NEW row \in [conversation : Sessions, role : {"user", "assistant"}, question : Nat],
           transcript' = Append(transcript, row), row.conversation # c
    PROVE  StoredAs(c, turns)'
<1>1. /\ StoredTurns(c)' = StoredTurns(c)
      /\ \A n \in DOMAIN transcript : transcript'[n] = transcript[n]
  BY StoredTurnsGrow
<1>2. StoredTurns(c) \subseteq DOMAIN transcript
  BY DEF StoredTurns
<1>3. PICK at \in [DOMAIN turns -> StoredTurns(c)] :
        /\ \A m, n \in DOMAIN turns : m < n => at[m] < at[n]
        /\ \A p \in StoredTurns(c) : \E n \in DOMAIN turns : at[n] = p
        /\ \A n \in DOMAIN turns : transcript[at[n]] = MessageRow(c, turns[n])
  BY DEF StoredAs
<1>4. \A n \in DOMAIN turns : transcript'[at[n]] = MessageRow(c, turns[n])
  BY <1>1, <1>2, <1>3
<1> QED
  BY <1>1, <1>3, <1>4 DEF StoredAs

\* A turn that is stored as the last one.
LEMMA StoredAsLonger ==
    ASSUME ChatTypeOK, NEW c \in Sessions, NEW turns \in Seq(Turns), StoredAs(c, turns),
           NEW turn \in Turns, transcript' = Append(transcript, MessageRow(c, turn)),
           MessageRow(c, turn) \in [conversation : Sessions, role : {"user", "assistant"},
                                    question : Nat],
           MessageRow(c, turn).conversation = c
    PROVE  StoredAs(c, Append(turns, turn))'
<1> DEFINE longer == Append(turns, turn)
           last == Len(transcript) + 1
           rank == Len(turns) + 1
<1>1. /\ Len(transcript) \in Nat
      /\ \A n \in 1 .. Len(transcript) : transcript'[n] = transcript[n]
      /\ transcript'[last] = MessageRow(c, turn)
      /\ StoredTurns(c)' = StoredTurns(c) \cup {last}
      /\ DOMAIN transcript = 1 .. Len(transcript)
  BY StoredTurnsGrow
<1>2. /\ Len(turns) \in Nat /\ DOMAIN turns = 1 .. Len(turns) /\ DOMAIN longer = 1 .. rank
      /\ longer[rank] = turn
      /\ \A n \in 1 .. Len(turns) : longer[n] = turns[n]
  BY AppendedRow
<1>3. PICK at \in [DOMAIN turns -> StoredTurns(c)] :
        /\ \A m, n \in DOMAIN turns : m < n => at[m] < at[n]
        /\ \A p \in StoredTurns(c) : \E n \in DOMAIN turns : at[n] = p
        /\ \A n \in DOMAIN turns : transcript[at[n]] = MessageRow(c, turns[n])
  BY DEF StoredAs
<1>4. StoredTurns(c) \subseteq 1 .. Len(transcript)
  BY <1>1 DEF StoredTurns
<1> DEFINE more == [n \in 1 .. rank |-> IF n = rank THEN last ELSE at[n]]
<1> HIDE DEF longer, last
<1>5. \A n \in 1 .. rank : n = rank \/ n \in DOMAIN turns
  BY <1>2
<1>6. /\ more[rank] = last
      /\ \A n \in DOMAIN turns : more[n] = at[n] /\ at[n] \in StoredTurns(c)
                                 /\ n \in 1 .. rank /\ n < rank
      /\ rank \in 1 .. rank /\ rank \notin DOMAIN turns
  BY <1>2, <1>3
<1>7. more \in [1 .. rank -> StoredTurns(c)']
  BY <1>1, <1>5, <1>6
<1>8. \A p \in StoredTurns(c)' : \E n \in 1 .. rank : more[n] = p
  BY <1>1, <1>3, <1>6
<1>9. ASSUME NEW m \in 1 .. rank, NEW n \in 1 .. rank, m < n
      PROVE  more[m] < more[n]
  <2>1. m \in DOMAIN turns
    BY <1>2, <1>9
  <2>2. at[m] \in 1 .. Len(transcript) /\ more[m] = at[m]
    BY <1>4, <1>6, <2>1
  <2>3. CASE n = rank
    BY <1>1, <1>6, <2>2, <2>3 DEF last
  <2>4. CASE n \in DOMAIN turns
    BY <1>3, <1>6, <1>9, <2>1, <2>2, <2>4
  <2> QED
    BY <1>5, <2>3, <2>4
<1>10. ASSUME NEW n \in 1 .. rank
       PROVE  transcript'[more[n]] = MessageRow(c, longer[n])
  <2>1. CASE n = rank
    BY <1>1, <1>2, <1>6, <2>1
  <2>2. CASE n \in DOMAIN turns
    BY <1>1, <1>2, <1>3, <1>4, <1>6, <2>2
  <2> QED
    BY <1>5, <2>1, <2>2
<1> HIDE DEF more
<1>11. PICK f, all : f = more /\ all = longer
  OBVIOUS
<1>12. StoredAs(c, all)'
  <2>1. f \in [DOMAIN all -> StoredTurns(c)']
    BY <1>2, <1>7, <1>11
  <2>2. \A m, n \in DOMAIN all : m < n => f[m] < f[n]
    BY <1>2, <1>9, <1>11
  <2>3. \A p \in StoredTurns(c)' : \E n \in DOMAIN all : f[n] = p
    BY <1>2, <1>8, <1>11
  <2>4. \A n \in DOMAIN all : transcript'[f[n]] = MessageRow(c, all[n])
    BY <1>2, <1>10, <1>11
  <2> QED
    BY <2>1, <2>2, <2>3, <2>4 DEF StoredAs
<1> QED
  BY <1>11, <1>12 DEF longer

\* Nothing is stored of a conversation that is left without rows.
LEMMA NothingStored ==
    ASSUME NEW c, StoredTurns(c)' = {}
    PROVE  StoredAs(c, << >>)'
<1>1. DOMAIN << >> = {}
  OBVIOUS
<1>2. << >> \in [{} -> {}]
  OBVIOUS
<1> QED
  BY <1>1, <1>2 DEF StoredAs

-----------------------------------------------------------------------------
(* What a step leaves to the conversations that it is not about *)

\* Rows are only added to the table, each of the one conversation b.
GrowsBy(b) ==
    \/ transcript' = transcript
    \/ \E row \in [conversation : Sessions, role : {"user", "assistant"}, question : Nat] :
          row.conversation = b /\ transcript' = Append(transcript, row)

\* The step of handler s is about conversation b alone.
IsAbout(s, b) ==
    /\ \A q \in Senders : q # s => handler'[q] = handler[q]
    /\ handler[s].phase = "free" \/ handler[s].session = b
    /\ handler'[s].phase = "free" \/ handler'[s].session = b
    /\ \A c \in Sessions : c # b => sessions'[c] = sessions[c]
    /\ GrowsBy(b)
    /\ troubled \subseteq troubled'

\* The rows that are there stay.
LEMMA RowsStay ==
    ASSUME ChatTypeOK, NEW b, GrowsBy(b)
    PROVE  /\ DOMAIN transcript \subseteq DOMAIN transcript'
           /\ \A n \in DOMAIN transcript : transcript'[n] = transcript[n]
<1>1. CASE transcript' = transcript
  BY <1>1
<1>2. CASE transcript' # transcript
  <2>1. PICK row \in [conversation : Sessions, role : {"user", "assistant"}, question : Nat] :
          transcript' = Append(transcript, row)
    BY <1>2 DEF GrowsBy
  <2>2. /\ Len(transcript) \in Nat
        /\ DOMAIN transcript = 1 .. Len(transcript)
        /\ DOMAIN transcript' = 1 .. Len(transcript) + 1
        /\ \A n \in 1 .. Len(transcript) : transcript'[n] = transcript[n]
    BY <2>1, StoredTurnsGrow
  <2> QED
    BY <2>2
<1> QED
  BY <1>1, <1>2

\* A stored question stays stored for whoever goes on answering it.
LEMMA QuestionStays ==
    ASSUME ChatTypeOK, NEW b, GrowsBy(b), NEW q, QuestionIsStored(q),
           handler'[q].question = handler[q].question,
           handler'[q].session = handler[q].session
    PROVE  QuestionIsStored(q)'
  BY RowsStay DEF QuestionIsStored

\* The other conversations are stored as far as they were.
LEMMA OthersKeepTheirs ==
    ASSUME ChatTypeOK, NEW s \in Senders, NEW b, IsAbout(s, b),
           NEW c \in Sessions, c # b, c \notin troubled', c \notin troubled => StoredSoFar(c)
    PROVE  StoredSoFar(c)'
<1>1. StoredSoFar(c) /\ sessions'[c] = sessions[c]
  BY DEF IsAbout
<1>2. Here(c)' = Here(c) /\ \A q \in Here(c) : handler'[q] = handler[q]
  BY DEF IsAbout, Here
<1>3. StoredTurns(c)' = StoredTurns(c)
  <2>1. CASE transcript' = transcript
    BY <2>1 DEF StoredTurns
  <2>2. CASE transcript' # transcript
    BY <2>2, StoredTurnsGrow DEF IsAbout, GrowsBy
  <2> QED
    BY <2>1, <2>2
<1>4. ASSUME NEW turns, StoredAs(c, turns)
      PROVE  StoredAs(c, turns)'
  <2>1. CASE transcript' = transcript
    BY <1>3, <1>4, <2>1 DEF StoredAs
  <2>2. CASE transcript' # transcript
    BY <1>4, <2>2, StoredAsOther DEF IsAbout, GrowsBy
  <2> QED
    BY <2>1, <2>2
<1>5. (Exists(c))' <=> Exists(c)
  BY <1>1 DEF Exists
<1>6. \A role, n, topic : LastIsUnstored(c, Turn(role, n, topic))
                          => LastIsUnstored(c, Turn(role, n, topic))'
  BY <1>1, <1>4 DEF LastIsUnstored
<1>7. ASSUME NEW q \in Here(c)'
      PROVE  StoredUntil(c, q)'
  <2>1. PICK h, messages : /\ h = handler[q] /\ handler'[q] = h /\ q \in Here(c)
                           /\ messages = sessions[c].messages
    BY <1>2
  <2>2. /\ h.phase \in {"conversation"} \cup (Answered \ {"answer"}) => StoredAs(c, messages)
        /\ h.phase = "turn" => LastIsUnstored(c, Turn("user", h.question, h.topic))
        /\ h.phase = "answer" => LastIsUnstored(c, Turn("assistant", h.question, h.topic))
    BY <1>1, <2>1 DEF StoredSoFar, StoredUntil
  <2>3. /\ StoredAs(c, messages) => StoredAs(c, messages)'
        /\ messages = sessions'[c].messages
    BY <1>1, <1>4, <2>1
  <2> QED
    BY <1>6, <2>1, <2>2, <2>3 DEF StoredUntil
<1>8. StoredAs(c, sessions[c].messages) => StoredAs(c, sessions[c].messages)'
  <2>1. PICK messages : messages = sessions[c].messages
    OBVIOUS
  <2>2. StoredAs(c, messages) => StoredAs(c, messages)'
    BY <1>4
  <2> QED
    BY <1>1, <2>1, <2>2
<1> QED
  BY <1>1, <1>2, <1>3, <1>5, <1>7, <1>8 DEF StoredSoFar

-----------------------------------------------------------------------------
(* What a step does to its own conversation *)

\* Who is about conversation b once handler s has gone on to record r.
LEMMA HereAfter ==
    ASSUME ChatTypeOK, NEW s \in Senders, NEW r \in Handlers, MovesTo(s, r), NEW b
    PROVE  /\ r # Free /\ r.session = b => Here(b)' = Here(b) \cup {s}
           /\ r = Free => Here(b)' = Here(b) \ {s}
           /\ handler[s].phase # "free" /\ handler[s].session = b => s \in Here(b)
           /\ handler[s] = Free => s \notin Here(b)
           /\ r # Free => r.phase # "free"
<1>1. r.phase = "free" <=> r = Free
  BY DEF Handlers, Free, Opening, Asking, Listing, Reading, Checking, Answering
<1>2. handler'[s] = r /\ \A q \in Senders : q # s => handler'[q] = handler[q]
  BY DEF MovesTo
<1>3. Free.phase = "free"
  BY DEF Free
<1> QED
  BY <1>1, <1>2, <1>3 DEF Here

\* A session that is known has a user.
LEMMA KnownHasUser ==
    ASSUME ChatTypeOK, SessionsAreKept, NEW c \in Sessions
    PROVE  Exists(c) <=> sessions[c].user # "nobody"
<1>1. ~Exists(c) => sessions[c].user = "nobody"
  BY DEF Exists, Unknown
<1> QED
  BY <1>1 DEF SessionsAreKept

\* A new session begins with nothing in memory and nothing in the table.
LEMMA CreateKeeps ==
    ASSUME ChatTypeOK, TranscriptSoFar, NEW s \in Senders, NEW b \in Sessions,
           NEW u \in People, CreateSession(s, b, u)
    PROVE  TranscriptSoFar'
<1>1. PICK r \in Opening : MovesTo(s, r) /\ r.session = b
  BY CreateMoves
<1>2. handler[s] = Free /\ transcript' = transcript /\ troubled' = troubled
  BY CreateMoves DEF CreateSession
<1>3. r \in Handlers /\ r.phase = "conversation"
  BY DEF Handlers, Opening
<1>4. handler'[s] = r /\ \A q \in Senders : q # s => handler'[q] = handler[q]
  BY <1>1 DEF MovesTo
<1>5. /\ sessions'[b].user = u /\ sessions'[b].messages = << >>
      /\ \A c \in Sessions : c # b => sessions'[c] = sessions[c]
  <2>1. sessions[b] = [user |-> "nobody", messages |-> << >>]
    BY DEF CreateSession, Exists, Unknown
  <2>2. /\ sessions'[b] = [sessions[b] EXCEPT !.user = u]
        /\ \A c \in Sessions : c # b => sessions'[c] = sessions[c]
    BY DEF CreateSession, ChatTypeOK
  <2> QED
    BY <2>1, <2>2
<1>6. (Exists(b))' /\ u # "nobody"
  BY <1>5, PeopleAssumption DEF Exists, Unknown
<1>7. (Here(b) = {} /\ StoredTurns(b) = {}) \/ b \in troubled
  <2>1. ~Exists(b)
    BY DEF CreateSession
  <2>2. Here(b) = {}
    BY <2>1, PhaseForms DEF TranscriptSoFar, SessionsAreKept, Here
  <2> QED
    BY <2>1, <2>2 DEF TranscriptSoFar, StoredSoFar
<1>8. AnswersFollow'
  BY <1>2 DEF TranscriptSoFar, AnswersFollow
<1>9. \A q \in Senders : handler'[q].phase \in Answered => QuestionIsStored(q)'
  BY <1>2, <1>3, <1>4 DEF TranscriptSoFar, QuestionIsStored, Answered
<1>10. SessionsAreKept'
  <2>1. \A c \in Sessions : c # b => ((Exists(c))' <=> Exists(c))
    BY <1>5 DEF Exists
  <2>2. \A c \in Sessions : sessions'[c].user = "nobody" => ~(Exists(c))'
    BY <1>5, <1>6, <2>1 DEF TranscriptSoFar, SessionsAreKept
  <2>3. \A q \in Senders : handler'[q] # Free => (Exists(handler[q].session))'
    <3>1. handler'[s].session = b
      BY <1>1, <1>4
    <3>2. \A q \in Senders : q # s /\ handler'[q] # Free =>
            handler'[q].session \in Sessions /\ Exists(handler'[q].session)
      BY <1>4, PhaseForms DEF TranscriptSoFar, SessionsAreKept
    <3>3. \A c \in Sessions : Exists(c) => (Exists(c))'
      BY <1>6, <2>1
    <3> QED
      BY <1>4, <1>6, <3>1, <3>2, <3>3 DEF Exists
  <2> QED
    BY <2>2, <2>3 DEF SessionsAreKept
<1>11. ASSUME NEW c \in Sessions, c \notin troubled'
       PROVE  StoredSoFar(c)'
  <2>1. CASE c # b
    <3>1. IsAbout(s, b)
      BY <1>1, <1>2, <1>4, <1>5 DEF IsAbout, GrowsBy, Free
    <3> QED
      BY <1>11, <2>1, <3>1, OthersKeepTheirs DEF TranscriptSoFar
  <2>2. CASE c = b
    <3>1. Here(b) = {} /\ StoredTurns(b) = {}
      BY <1>2, <1>7, <1>11, <2>2
    <3>2. r # Free
      BY <1>3 DEF Free
    <3>3. Here(b)' = {s}
      BY <1>1, <1>3, <3>1, <3>2, HereAfter
    <3>4. StoredTurns(b)' = {}
      BY <1>2, <3>1 DEF StoredTurns
    <3>5. StoredAs(b, << >>)'
      BY <3>4, NothingStored
    <3>6. StoredUntil(b, s)'
      BY <1>3, <1>4, <1>5, <3>5 DEF StoredUntil
    <3> QED
      BY <1>6, <2>2, <3>3, <3>6 DEF StoredSoFar
  <2> QED
    BY <2>1, <2>2
<1> QED
  BY <1>8, <1>9, <1>10, <1>11 DEF TranscriptSoFar

\* A question is put into memory, and is the one turn to be stored.
LEMMA SendKeeps ==
    ASSUME ChatTypeOK, TranscriptSoFar, NEW s \in Senders, NEW b \in Sessions,
           NEW u \in People, NEW topic \in Topics, SendMessage(s, b, u, topic)
    PROVE  TranscriptSoFar'
<1>1. PICK r \in Asking : /\ MovesTo(s, r) /\ r.phase = "turn" /\ r.session = b
                          /\ r.question = asked' /\ r.topic = topic
  BY SendMoves
<1>2. /\ handler[s] = Free /\ transcript' = transcript /\ asked' \in Nat
      /\ troubled' = troubled \cup (IF Here(b) # {} THEN {b} ELSE {})
      /\ Exists(b)
  BY SendMoves DEF SendMessage
<1>3. r \in Handlers /\ r # Free
  BY <1>1 DEF Handlers, Free
<1>4. handler'[s] = r /\ \A q \in Senders : q # s => handler'[q] = handler[q]
  BY <1>1 DEF MovesTo
<1>5. PICK turn \in Turns : turn = Turn("user", asked', topic)
  BY <1>2, TurnTypes
<1>6. /\ sessions'[b].user = sessions[b].user
      /\ sessions'[b].messages = Append(sessions[b].messages, turn)
      /\ \A c \in Sessions : c # b => sessions'[c] = sessions[c]
  <2>1. sessions' = [sessions EXCEPT ![b].messages = Append(@, turn)]
    BY <1>5 DEF SendMessage
  <2> QED
    BY <2>1, MessagesGrow
<1>7. \A c \in Sessions : ((Exists(c))' <=> Exists(c)) /\ sessions'[c].user = sessions[c].user
  <2>1. sessions[b].user # "nobody"
    BY <1>2, KnownHasUser DEF TranscriptSoFar
  <2>2. (Exists(b))'
    BY <1>6, <2>1 DEF Exists, Unknown
  <2> QED
    BY <1>2, <1>6, <2>2 DEF Exists
<1>8. AnswersFollow'
  BY <1>2 DEF TranscriptSoFar, AnswersFollow
<1>9. \A q \in Senders : handler'[q].phase \in Answered => QuestionIsStored(q)'
  BY <1>1, <1>2, <1>4 DEF TranscriptSoFar, QuestionIsStored, Answered
<1>10. SessionsAreKept'
  <2>1. \A q \in Senders : handler'[q] # Free =>
          handler'[q].session \in Sessions /\ Exists(handler'[q].session)
    BY <1>1, <1>2, <1>4, PhaseForms DEF TranscriptSoFar, SessionsAreKept
  <2>2. \A c \in Sessions : sessions'[c].user = "nobody" => ~(Exists(c))'
    BY <1>7 DEF TranscriptSoFar, SessionsAreKept
  <2>3. \A q \in Senders : handler'[q] # Free => (Exists(handler[q].session))'
    BY <1>7, <2>1 DEF Exists
  <2> QED
    BY <2>2, <2>3 DEF SessionsAreKept
<1>11. ASSUME NEW c \in Sessions, c \notin troubled'
       PROVE  StoredSoFar(c)'
  <2>1. CASE c # b
    <3>1. IsAbout(s, b)
      BY <1>1, <1>2, <1>4, <1>6 DEF IsAbout, GrowsBy, Free
    <3> QED
      BY <1>11, <2>1, <3>1, OthersKeepTheirs DEF TranscriptSoFar
  <2>2. CASE c = b
    <3>1. Here(b) = {} /\ b \notin troubled
      BY <1>2, <1>11, <2>2
    <3>2. Here(b)' = {s}
      BY <1>1, <1>3, <3>1, HereAfter
    <3>3. PICK earlier \in Seq(Turns) : earlier = sessions[b].messages
      BY DEF ChatTypeOK
    <3>4. StoredAs(b, earlier)
      BY <3>1, <3>3 DEF TranscriptSoFar, StoredSoFar
    <3>5. StoredAs(b, earlier)'
      BY <1>2, <3>4 DEF StoredAs, StoredTurns
    <3>6. LastIsUnstored(b, turn)'
      BY <1>6, <3>3, <3>5 DEF LastIsUnstored
    <3>7. turn = Turn("user", handler'[s].question, handler'[s].topic)
      BY <1>1, <1>4, <1>5
    <3>8. StoredUntil(b, s)'
      BY <1>1, <1>4, <3>6, <3>7 DEF StoredUntil, Answered
    <3> QED
      BY <1>2, <1>7, <2>2, <3>2, <3>8 DEF StoredSoFar
  <2> QED
    BY <2>1, <2>2
<1> QED
  BY <1>8, <1>9, <1>10, <1>11 DEF TranscriptSoFar

-----------------------------------------------------------------------------
\* A handler that goes on with its question, or ends, keeps the sessions known.
LEMMA SessionsStayKept ==
    ASSUME ChatTypeOK, SessionsAreKept, NEW s \in Senders, NEW r \in Handlers,
           MovesTo(s, r), r = Free \/ (handler[s] # Free /\ r.session = handler[s].session),
           \A c \in Sessions : sessions'[c].user = sessions[c].user
                               /\ (sessions'[c] = sessions[c] \/ Exists(c))
    PROVE  SessionsAreKept' /\ \A c \in Sessions : (Exists(c))' <=> Exists(c)
<1>1. \A c \in Sessions : (Exists(c))' <=> Exists(c)
  <2>1. \A c \in Sessions : Exists(c) => (Exists(c))'
    BY KnownHasUser DEF Exists, Unknown
  <2> QED
    BY <2>1 DEF Exists
<1>2. \A c \in Sessions : sessions'[c].user = "nobody" => ~(Exists(c))'
  BY <1>1 DEF SessionsAreKept
<1>3. handler'[s] = r /\ \A q \in Senders : q # s => handler'[q] = handler[q]
  BY DEF MovesTo
<1>4. \A q \in Senders : handler'[q] # Free =>
        handler'[q].session \in Sessions /\ Exists(handler'[q].session)
  BY <1>3, PhaseForms DEF SessionsAreKept
<1>5. \A q \in Senders : handler'[q] # Free => (Exists(handler[q].session))'
  BY <1>1, <1>4 DEF Exists
<1> QED
  BY <1>1, <1>2, <1>5 DEF SessionsAreKept

\* Reading changes nothing that is stored or to be stored.
LEMMA ReadsKeepTranscript ==
    ASSUME ChatTypeOK, TranscriptSoFar, NEW s \in Senders, Reads(s)
    PROVE  TranscriptSoFar'
<1>1. PICK r \in Handlers : r = handler'[s]
  BY ReadsKeepQuestion
<1>2. /\ MovesTo(s, r) /\ SameQuestion(r, handler[s])
      /\ handler[s].phase \in Answered \ {"reply", "answer"}
      /\ r.phase \in Answered \ {"authorize", "answer"}
      /\ sessions' = sessions /\ transcript' = transcript /\ troubled' = troubled
  BY <1>1, ReadsKeepQuestion DEF MovesTo, ReadsOnly, Answered
<1>3. handler[s] # Free /\ r # Free
  BY <1>2 DEF Free, Answered
<1>4. /\ handler'[s] = r /\ \A q \in Senders : q # s => handler'[q] = handler[q]
      /\ r.session = handler[s].session /\ r.question = handler[s].question
  BY <1>2 DEF MovesTo, SameQuestion
<1>5. AnswersFollow'
  BY <1>2 DEF TranscriptSoFar, AnswersFollow
<1>6. \A q \in Senders : handler'[q].phase \in Answered => QuestionIsStored(q)'
  BY <1>2, <1>4 DEF TranscriptSoFar, QuestionIsStored, Answered
<1>7. SessionsAreKept' /\ \A c \in Sessions : (Exists(c))' <=> Exists(c)
  BY <1>2, <1>3, <1>4, SessionsStayKept DEF TranscriptSoFar
<1>8. ASSUME NEW c \in Sessions, c \notin troubled'
      PROVE  StoredSoFar(c)'
  <2>1. PICK b : b = handler[s].session
    OBVIOUS
  <2>2. CASE c # b
    <3>1. IsAbout(s, b)
      BY <1>2, <1>4, <2>1 DEF IsAbout, GrowsBy
    <3> QED
      BY <1>8, <2>2, <3>1, OthersKeepTheirs DEF TranscriptSoFar
  <2>3. CASE c = b
    <3>1. StoredSoFar(c) /\ s \in Here(c)
      BY <1>2, <1>8, <2>1, <2>3 DEF TranscriptSoFar, Here, Answered
    <3>2. Here(c)' = Here(c) \cup {s}
      BY <1>2, <1>3, <1>4, <2>1, <2>3, HereAfter
    <3>3. Here(c)' = {s}
      BY <3>1, <3>2 DEF StoredSoFar
    <3>4. StoredAs(c, sessions[c].messages)
      BY <1>2, <3>1 DEF StoredSoFar, StoredUntil, Answered
    <3>5. StoredAs(c, sessions[c].messages)' /\ StoredTurns(c)' = StoredTurns(c)
      BY <1>2, <3>4 DEF StoredAs, StoredTurns
    <3>6. StoredUntil(c, s)'
      BY <1>2, <1>4, <3>5 DEF StoredUntil, Answered
    <3> QED
      BY <1>7, <3>1, <3>3, <3>5, <3>6 DEF StoredSoFar
  <2> QED
    BY <2>2, <2>3
<1> QED
  BY <1>5, <1>6, <1>7, <1>8 DEF TranscriptSoFar

-----------------------------------------------------------------------------
(* The steps that write *)

\* A stored turn is in the table, after all that was there.
LEMMA StoredTurnIsThere ==
    ASSUME ChatTypeOK, TranscriptSoFar, NEW s \in Senders, NEW b \in Sessions,
           NEW role \in {"user", "assistant"}, NEW n \in Nat, NEW topic \in Topics,
           handler[s].session = b, handler[s].question = n,
           role = "assistant" => QuestionIsStored(s),
           transcript' = Append(transcript, MessageRow(b, Turn(role, n, topic)))
    PROVE  /\ GrowsBy(b)
           /\ AnswersFollow'
           /\ role = "user" =>
                \E m \in DOMAIN transcript' :
                    /\ transcript'[m].role = "user"
                    /\ transcript'[m].question = n
                    /\ transcript'[m].conversation = b
<1>1. PICK row \in [conversation : Sessions, role : {"user", "assistant"}, question : Nat] :
        /\ row = MessageRow(b, Turn(role, n, topic))
        /\ row = [conversation |-> b, role |-> role, question |-> n]
  BY TurnTypes
<1>2. transcript' = Append(transcript, row) /\ row.conversation = b
      /\ row.role = role /\ row.question = n
  BY <1>1
<1>3. /\ Len(transcript) \in Nat
      /\ DOMAIN transcript = 1 .. Len(transcript)
      /\ DOMAIN transcript' = 1 .. Len(transcript) + 1
      /\ transcript'[Len(transcript) + 1] = row
      /\ \A m \in 1 .. Len(transcript) : transcript'[m] = transcript[m]
  BY <1>2, StoredTurnsGrow
<1>4. GrowsBy(b)
  BY <1>2 DEF GrowsBy
<1>5. ASSUME NEW k \in DOMAIN transcript', transcript'[k].role = "assistant"
      PROVE  \E m \in 1 .. k - 1 :
                 /\ transcript'[m].role = "user"
                 /\ transcript'[m].question = transcript'[k].question
                 /\ transcript'[m].conversation = transcript'[k].conversation
  <2>1. CASE k \in DOMAIN transcript
    <3>1. PICK m \in 1 .. k - 1 :
            /\ transcript[m].role = "user"
            /\ transcript[m].question = transcript[k].question
            /\ transcript[m].conversation = transcript[k].conversation
      BY <1>3, <1>5, <2>1 DEF TranscriptSoFar, AnswersFollow
    <3>2. m \in 1 .. Len(transcript) /\ k \in 1 .. Len(transcript)
      BY <1>3, <2>1, <3>1
    <3> QED
      BY <1>3, <3>1, <3>2
  <2>2. CASE k = Len(transcript) + 1
    <3>1. QuestionIsStored(s) /\ transcript'[k] = row
      BY <1>2, <1>3, <1>5, <2>2
    <3>2. PICK m \in DOMAIN transcript :
            /\ transcript[m].role = "user"
            /\ transcript[m].question = n
            /\ transcript[m].conversation = b
      BY <3>1 DEF QuestionIsStored
    <3>3. m \in 1 .. k - 1 /\ transcript'[m] = transcript[m]
      BY <1>3, <2>2, <3>2
    <3> QED
      BY <1>2, <3>1, <3>2, <3>3
  <2> QED
    BY <1>3, <1>5, <2>1, <2>2
<1>6. Len(transcript) + 1 \in DOMAIN transcript'
  BY <1>3
<1> QED
  BY <1>2, <1>3, <1>4, <1>5, <1>6 DEF AnswersFollow

\* Whoever goes on with a stored question finds it stored.
LEMMA QuestionsStay ==
    ASSUME ChatTypeOK, TranscriptSoFar, NEW s \in Senders, NEW b, GrowsBy(b),
           \A q \in Senders : q # s => handler'[q] = handler[q],
           handler'[s].phase \in Answered => QuestionIsStored(s)'
    PROVE  \A q \in Senders : handler'[q].phase \in Answered => QuestionIsStored(q)'
<1>1. ASSUME NEW q \in Senders, q # s, handler'[q].phase \in Answered
      PROVE  QuestionIsStored(q)'
  <2>1. QuestionIsStored(q) /\ handler'[q] = handler[q]
    BY <1>1 DEF TranscriptSoFar
  <2> QED
    BY <2>1, QuestionStays
<1> QED
  BY <1>1

\* The row of the conversation is saved; the session waits for its first question.
LEMMA SaveConversationKeeps ==
    ASSUME ChatTypeOK, TranscriptSoFar, NEW s \in Senders, SaveConversation(s)
    PROVE  TranscriptSoFar'
<1>1. PICK b \in Sessions : b = handler[s].session
  BY PhaseForms DEF SaveConversation
<1>2. /\ MovesTo(s, Free) /\ Free \in Handlers /\ Free.phase = "free"
      /\ sessions' = sessions /\ transcript' = transcript /\ troubled' = troubled
      /\ handler[s].phase = "conversation"
  BY HandlerMoves DEF SaveConversation, Handlers, Free
<1>3. handler'[s] = Free /\ \A q \in Senders : q # s => handler'[q] = handler[q]
  BY <1>2 DEF MovesTo
<1>4. AnswersFollow'
  BY <1>2 DEF TranscriptSoFar, AnswersFollow
<1>5. \A q \in Senders : handler'[q].phase \in Answered => QuestionIsStored(q)'
  BY <1>2, <1>3, QuestionsStay DEF GrowsBy, Answered
<1>6. SessionsAreKept' /\ \A c \in Sessions : (Exists(c))' <=> Exists(c)
  BY <1>2, SessionsStayKept DEF TranscriptSoFar
<1>7. ASSUME NEW c \in Sessions, c \notin troubled'
      PROVE  StoredSoFar(c)'
  <2>1. CASE c # b
    <3>1. IsAbout(s, b)
      BY <1>1, <1>2, <1>3 DEF IsAbout, GrowsBy
    <3> QED
      BY <1>7, <2>1, <3>1, OthersKeepTheirs DEF TranscriptSoFar
  <2>2. CASE c = b
    <3>1. StoredSoFar(c) /\ s \in Here(c)
      BY <1>1, <1>2, <1>7, <2>2 DEF TranscriptSoFar, Here
    <3>2. Here(c)' = {}
      BY <1>2, <3>1, HereAfter DEF StoredSoFar
    <3>3. StoredAs(c, sessions[c].messages)
      BY <1>2, <3>1 DEF StoredSoFar, StoredUntil
    <3>4. StoredAs(c, sessions[c].messages)' /\ StoredTurns(c)' = StoredTurns(c)
      BY <1>2, <3>3 DEF StoredAs, StoredTurns
    <3> QED
      BY <1>6, <3>1, <3>2, <3>4 DEF StoredSoFar
  <2> QED
    BY <2>1, <2>2
<1> QED
  BY <1>4, <1>5, <1>6, <1>7 DEF TranscriptSoFar

\* The turn that waited is stored: the rows are the turns again.
LEMMA LastIsStored ==
    ASSUME ChatTypeOK, NEW b \in Sessions, NEW turn \in Turns, LastIsUnstored(b, turn),
           MessageRow(b, turn) \in [conversation : Sessions, role : {"user", "assistant"},
                                    question : Nat],
           MessageRow(b, turn).conversation = b,
           transcript' = Append(transcript, MessageRow(b, turn)), sessions' = sessions
    PROVE  StoredAs(b, sessions[b].messages)'
<1>1. PICK earlier \in Seq(Turns) :
        sessions[b].messages = Append(earlier, turn) /\ StoredAs(b, earlier)
  BY DEF LastIsUnstored
<1>2. StoredAs(b, Append(earlier, turn))'
  BY <1>1, StoredAsLonger
<1>3. PICK all : all = Append(earlier, turn)
  OBVIOUS
<1>4. StoredAs(b, all)' /\ sessions'[b].messages = all
  BY <1>1, <1>2, <1>3
<1> QED
  BY <1>4

\* A turn is stored by the one handler of its conversation.
LEMMA StoringKeeps ==
    ASSUME ChatTypeOK, TranscriptSoFar, NEW s \in Senders, SaveTurn(s) \/ SaveAnswer(s)
    PROVE  TranscriptSoFar'
<1>1. PICK h : h = handler[s]
  OBVIOUS
<1>2. /\ h.session \in Sessions /\ h.user \in People /\ h.topic \in Topics /\ h.question \in Nat
      /\ h.phase \in {"turn", "answer"}
  <2>1. CASE SaveTurn(s)
    <3>1. h \in Asking /\ h.phase = "turn"
      BY <1>1, <2>1, PhaseForms DEF SaveTurn
    <3> QED
      BY <3>1 DEF Asking
  <2>2. CASE SaveAnswer(s)
    <3>1. h \in Answering /\ h.phase = "answer"
      BY <1>1, <2>2, PhaseForms DEF SaveAnswer
    <3> QED
      BY <3>1 DEF Answering
  <2> QED
    BY <2>1, <2>2
<1>3. PICK b \in Sessions, role \in {"user", "assistant"}, turn \in Turns :
        /\ b = h.session
        /\ role = IF h.phase = "turn" THEN "user" ELSE "assistant"
        /\ turn = Turn(role, h.question, h.topic)
        /\ MessageRow(b, turn) = [conversation |-> b, role |-> role, question |-> h.question]
        /\ MessageRow(b, turn) \in
             [conversation : Sessions, role : {"user", "assistant"}, question : Nat]
  BY <1>2, TurnTypes
<1>4. /\ sessions' = sessions /\ troubled' = troubled
      /\ transcript' = Append(transcript, MessageRow(b, turn))
  BY <1>1, <1>2, <1>3 DEF SaveTurn, SaveAnswer
<1>5. PICK r \in Handlers :
        /\ MovesTo(s, r)
        /\ \/ r = Free /\ h.phase = "answer"
           \/ h.phase = "turn" /\ SameQuestion(r, h) /\ r.phase = "authorize"
  <2>1. CASE SaveTurn(s)
    <3>1. ~Reply(s)
      BY <2>1 DEF SaveTurn, Reply
    <3> QED
      BY <1>1, <2>1, <3>1, WritesMove DEF Writes, SaveTurn
  <2>2. CASE SaveAnswer(s)
    <3>1. Free \in Handlers /\ handler' = [handler EXCEPT ![s] = Free] /\ h.phase = "answer"
      BY <1>1, <2>2 DEF SaveAnswer, Handlers
    <3> QED
      BY <3>1, HandlerMoves
  <2> QED
    BY <2>1, <2>2
<1>6. handler'[s] = r /\ \A q \in Senders : q # s => handler'[q] = handler[q]
  BY <1>5 DEF MovesTo
<1>7. h.phase = "answer" => QuestionIsStored(s)
  BY <1>1 DEF TranscriptSoFar, Answered
<1>8. /\ GrowsBy(b)
      /\ AnswersFollow'
      /\ h.phase = "turn" =>
           \E m \in DOMAIN transcript' :
               /\ transcript'[m].role = "user"
               /\ transcript'[m].question = h.question
               /\ transcript'[m].conversation = b
  BY <1>1, <1>2, <1>3, <1>4, <1>7, StoredTurnIsThere
<1>9. handler'[s].phase \in Answered => QuestionIsStored(s)'
  BY <1>3, <1>5, <1>6, <1>8 DEF Free, Answered, SameQuestion, QuestionIsStored
<1>10. \A q \in Senders : handler'[q].phase \in Answered => QuestionIsStored(q)'
  BY <1>6, <1>8, <1>9, QuestionsStay
<1>11. SessionsAreKept' /\ \A c \in Sessions : (Exists(c))' <=> Exists(c)
  BY <1>1, <1>2, <1>4, <1>5, SessionsStayKept DEF TranscriptSoFar, SameQuestion, Free
<1>12. ASSUME NEW c \in Sessions, c \notin troubled'
       PROVE  StoredSoFar(c)'
  <2>1. CASE c # b
    <3>1. IsAbout(s, b)
      BY <1>1, <1>3, <1>4, <1>5, <1>6, <1>8 DEF IsAbout, SameQuestion, Free
    <3> QED
      BY <1>12, <2>1, <3>1, OthersKeepTheirs DEF TranscriptSoFar
  <2>2. CASE c = b
    <3>1. StoredSoFar(b) /\ s \in Here(b)
      BY <1>1, <1>2, <1>3, <1>4, <1>12, <2>2 DEF TranscriptSoFar, Here
    <3>2. LastIsUnstored(b, turn)
      BY <1>1, <1>2, <1>3, <3>1 DEF StoredSoFar, StoredUntil
    <3>3. StoredAs(b, sessions[b].messages)'
      BY <1>3, <1>4, <3>2, LastIsStored
    <3>4. Exists(b)
      BY <1>1, <1>2, <1>3 DEF TranscriptSoFar, SessionsAreKept, Free
    <3>5. CASE r = Free
      <4>1. Here(b)' = {}
        BY <1>5, <3>1, <3>5, HereAfter DEF StoredSoFar
      <4> QED
        BY <1>11, <2>2, <3>3, <3>4, <4>1 DEF StoredSoFar
    <3>6. CASE r.phase = "authorize" /\ SameQuestion(r, h)
      <4>1. r # Free /\ r.session = b
        BY <1>3, <3>6 DEF Free, SameQuestion
      <4>2. Here(b)' = {s}
        BY <1>5, <3>1, <4>1, HereAfter DEF StoredSoFar
      <4>3. StoredUntil(b, s)'
        BY <1>6, <3>3, <3>6 DEF StoredUntil
      <4> QED
        BY <1>11, <2>2, <3>4, <4>2, <4>3 DEF StoredSoFar
    <3> QED
      BY <1>5, <3>5, <3>6
  <2> QED
    BY <2>1, <2>2
<1> QED
  BY <1>8, <1>10, <1>11, <1>12 DEF TranscriptSoFar

\* The answer is put into memory, and is the one turn to be stored.
LEMMA ReplyKeeps ==
    ASSUME ChatTypeOK, TranscriptSoFar, NEW s \in Senders, Reply(s)
    PROVE  TranscriptSoFar'
<1>1. PICK h : h = handler[s] /\ h \in Answering /\ h.phase = "reply"
  BY PhaseForms DEF Reply
<1>2. h.session \in Sessions /\ h.topic \in Topics /\ h.question \in Nat
  BY <1>1 DEF Answering
<1>3. PICK b \in Sessions, turn \in Turns :
        b = h.session /\ turn = Turn("assistant", h.question, h.topic)
  BY <1>2, TurnTypes
<1>4. /\ transcript' = transcript /\ troubled' = troubled
      /\ sessions' = [sessions EXCEPT ![b].messages = Append(@, turn)]
  BY <1>1, <1>3 DEF Reply
<1>5. /\ sessions'[b].user = sessions[b].user
      /\ sessions'[b].messages = Append(sessions[b].messages, turn)
      /\ \A c \in Sessions : c # b => sessions'[c] = sessions[c]
  BY <1>4, MessagesGrow
<1>6. PICK r \in Handlers : MovesTo(s, r) /\ SameQuestion(r, h) /\ r.phase = "answer"
  <2>1. ~SaveTurn(s)
    BY <1>1 DEF SaveTurn
  <2> QED
    BY <1>1, <2>1, WritesMove DEF Writes
<1>7. handler'[s] = r /\ \A q \in Senders : q # s => handler'[q] = handler[q]
  BY <1>6 DEF MovesTo
<1>8. r # Free /\ handler[s] # Free /\ r.session = b /\ Exists(b)
  BY <1>1, <1>3, <1>6 DEF Free, SameQuestion, TranscriptSoFar, SessionsAreKept
<1>9. AnswersFollow'
  BY <1>4 DEF TranscriptSoFar, AnswersFollow
<1>10. \A q \in Senders : handler'[q].phase \in Answered => QuestionIsStored(q)'
  <2>1. QuestionIsStored(s)
    BY <1>1 DEF TranscriptSoFar, Answered
  <2>2. QuestionIsStored(s)'
    BY <1>1, <1>4, <1>6, <1>7, <2>1 DEF QuestionIsStored, SameQuestion
  <2> QED
    BY <1>4, <1>7, <2>2, QuestionsStay DEF GrowsBy
<1>11. SessionsAreKept' /\ \A c \in Sessions : (Exists(c))' <=> Exists(c)
  BY <1>1, <1>3, <1>5, <1>6, <1>8, SessionsStayKept DEF TranscriptSoFar
<1>12. ASSUME NEW c \in Sessions, c \notin troubled'
       PROVE  StoredSoFar(c)'
  <2>1. CASE c # b
    <3>1. IsAbout(s, b)
      BY <1>1, <1>3, <1>4, <1>5, <1>7, <1>8 DEF IsAbout, GrowsBy
    <3> QED
      BY <1>12, <2>1, <3>1, OthersKeepTheirs DEF TranscriptSoFar
  <2>2. CASE c = b
    <3>1. StoredSoFar(b) /\ s \in Here(b)
      BY <1>1, <1>3, <1>4, <1>12, <2>2 DEF TranscriptSoFar, Here
    <3>2. Here(b)' = {s}
      BY <1>6, <1>8, <3>1, HereAfter DEF StoredSoFar
    <3>3. PICK earlier \in Seq(Turns) : earlier = sessions[b].messages
      BY DEF ChatTypeOK
    <3>4. StoredAs(b, earlier)
      BY <1>1, <3>1, <3>3 DEF StoredSoFar, StoredUntil, Answered
    <3>5. StoredAs(b, earlier)'
      BY <1>4, <3>4 DEF StoredAs, StoredTurns
    <3>6. LastIsUnstored(b, turn)'
      BY <1>5, <3>3, <3>5 DEF LastIsUnstored
    <3>7. turn = Turn("assistant", handler'[s].question, handler'[s].topic)
      BY <1>3, <1>6, <1>7 DEF SameQuestion
    <3>8. StoredUntil(b, s)'
      BY <1>6, <1>7, <3>6, <3>7 DEF StoredUntil, Answered
    <3> QED
      BY <1>8, <1>11, <2>2, <3>2, <3>8 DEF StoredSoFar
  <2> QED
    BY <2>1, <2>2
<1> QED
  BY <1>9, <1>10, <1>11, <1>12 DEF TranscriptSoFar

\* A request that fails leaves a conversation of which nothing is promised.
LEMMA FailingKeeps ==
    ASSUME ChatTypeOK, TranscriptSoFar, NEW s \in Senders, ChatFails(s)
    PROVE  TranscriptSoFar'
<1>1. PICK b \in Sessions : b = handler[s].session
  BY PhaseForms DEF ChatFails, Free
<1>2. /\ MovesTo(s, Free) /\ Free \in Handlers /\ Free.phase = "free"
      /\ sessions' = sessions /\ transcript' = transcript /\ troubled' = troubled \cup {b}
  BY <1>1, HandlerMoves DEF ChatFails, Handlers, Free
<1>3. handler'[s] = Free /\ \A q \in Senders : q # s => handler'[q] = handler[q]
  BY <1>2 DEF MovesTo
<1>4. AnswersFollow'
  BY <1>2 DEF TranscriptSoFar, AnswersFollow
<1>5. \A q \in Senders : handler'[q].phase \in Answered => QuestionIsStored(q)'
  BY <1>2, <1>3, QuestionsStay DEF GrowsBy, Answered
<1>6. SessionsAreKept'
  BY <1>2, SessionsStayKept DEF TranscriptSoFar
<1>7. ASSUME NEW c \in Sessions, c \notin troubled'
      PROVE  StoredSoFar(c)'
  <2>1. IsAbout(s, b)
    BY <1>1, <1>2, <1>3 DEF IsAbout, GrowsBy
  <2> QED
    BY <1>2, <1>7, <2>1, OthersKeepTheirs DEF TranscriptSoFar
<1> QED
  BY <1>4, <1>5, <1>6, <1>7 DEF TranscriptSoFar

\* A restart leaves conversations of which nothing is promised, or that had not begun.
LEMMA RestartKeeps ==
    ASSUME ChatTypeOK, TranscriptSoFar, ChatRestart
    PROVE  TranscriptSoFar'
<1>1. /\ transcript' = transcript
      /\ \A c \in Sessions : sessions'[c] = Unknown
      /\ \A s \in Senders : handler'[s] = Free
      /\ \A c \in Sessions : c \notin troubled' => ~Exists(c) /\ c \notin troubled
  BY DEF ChatRestart
<1>2. Unknown.user = "nobody" /\ Unknown.messages = << >> /\ Free.phase = "free"
  BY DEF Unknown, Free
<1>3. AnswersFollow'
  BY <1>1 DEF TranscriptSoFar, AnswersFollow
<1>4. SessionsAreKept'
  BY <1>1 DEF SessionsAreKept, Exists
<1>5. ASSUME NEW c \in Sessions, c \notin troubled'
      PROVE  StoredSoFar(c)'
  <2>1. StoredTurns(c)' = {}
    BY <1>1, <1>5 DEF TranscriptSoFar, StoredSoFar, StoredTurns
  <2>2. StoredAs(c, << >>)'
    BY <2>1, NothingStored
  <2>3. Here(c)' = {}
    BY <1>1, <1>2 DEF Here
  <2> QED
    BY <1>1, <1>2, <2>1, <2>2, <2>3 DEF StoredSoFar
<1> QED
  BY <1>1, <1>2, <1>3, <1>4, <1>5 DEF TranscriptSoFar, Answered

\* Nothing that a conversation is made of changes.
LEMMA UntouchedTranscript ==
    ASSUME TranscriptSoFar, UNCHANGED <<sessions, transcript, handler, troubled>>
    PROVE  TranscriptSoFar'
<1>1. sessions' = sessions /\ transcript' = transcript /\ handler' = handler
      /\ troubled' = troubled
  OBVIOUS
<1>2. AnswersFollow' /\ SessionsAreKept'
  BY <1>1 DEF TranscriptSoFar, AnswersFollow, SessionsAreKept, Exists
<1>3. \A s \in Senders : handler'[s].phase \in Answered => QuestionIsStored(s)'
  BY <1>1 DEF TranscriptSoFar, QuestionIsStored
<1>4. ASSUME NEW c \in Sessions, c \notin troubled'
      PROVE  StoredSoFar(c)'
  <2>1. StoredSoFar(c)
    BY <1>1, <1>4 DEF TranscriptSoFar
  <2>2. /\ Here(c)' = Here(c)
        /\ StoredTurns(c)' = StoredTurns(c)
        /\ (Exists(c))' <=> Exists(c)
    BY <1>1 DEF Here, StoredTurns, Exists
  <2>3. \A turns : StoredAs(c, turns) => StoredAs(c, turns)'
    BY <1>1, <2>2 DEF StoredAs
  <2>4. \A role, n, topic : LastIsUnstored(c, Turn(role, n, topic))
                            => LastIsUnstored(c, Turn(role, n, topic))'
    BY <1>1, <2>3 DEF LastIsUnstored
  <2>5. PICK messages : messages = sessions[c].messages /\ messages = sessions'[c].messages
    BY <1>1
  <2>6. StoredAs(c, messages) => StoredAs(c, messages)'
    BY <2>3
  <2>7. ASSUME NEW q \in Here(c)'
        PROVE  StoredUntil(c, q)'
    <3>1. PICK h : h = handler[q] /\ handler'[q] = h /\ q \in Here(c)
      BY <1>1, <2>2
    <3>2. /\ h.phase \in {"conversation"} \cup (Answered \ {"answer"}) => StoredAs(c, messages)
          /\ h.phase = "turn" => LastIsUnstored(c, Turn("user", h.question, h.topic))
          /\ h.phase = "answer" => LastIsUnstored(c, Turn("assistant", h.question, h.topic))
      BY <2>1, <2>5, <3>1 DEF StoredSoFar, StoredUntil
    <3> QED
      BY <2>4, <2>5, <2>6, <3>1, <3>2 DEF StoredUntil
  <2>8. Here(c) = {} => StoredAs(c, sessions[c].messages)'
    BY <2>1, <2>5, <2>6 DEF StoredSoFar
  <2> QED
    BY <2>1, <2>2, <2>7, <2>8 DEF StoredSoFar
<1> QED
  BY <1>2, <1>3, <1>4 DEF TranscriptSoFar

(***************************************************************************)
(* A stored answer follows its stored question, and a conversation whose   *)
(* sends were alone and complete is stored turn for turn, whatever other   *)
(* conversations, edits, failures and restarts come in between             *)
(* (send_message and its write-through rows).                              *)
(***************************************************************************)
THEOREM TranscriptsAreStored == ChatSpec => []TranscriptIsStored
<1> DEFINE Inv == ChatTypeOK /\ TranscriptSoFar
<1>1. ASSUME ChatInit
      PROVE  TranscriptSoFar
  <2>1. /\ \A c \in Sessions : sessions[c] = Unknown
        /\ \A s \in Senders : handler[s] = Free
        /\ transcript = << >>
    BY <1>1 DEF ChatInit
  <2>2. Unknown.messages = << >> /\ Free.phase = "free" /\ DOMAIN << >> = {}
    BY DEF Unknown, Free
  <2>3. \A c \in Sessions : StoredTurns(c) = {} /\ Here(c) = {}
    BY <2>1, <2>2 DEF StoredTurns, Here
  <2>4. \A c \in Sessions : StoredAs(c, << >>)
    <3>1. << >> \in [{} -> {}]
      OBVIOUS
    <3> QED
      BY <2>2, <2>3, <3>1 DEF StoredAs
  <2>5. \A c \in Sessions : StoredSoFar(c)
    BY <2>1, <2>2, <2>3, <2>4 DEF StoredSoFar
  <2>6. AnswersFollow /\ SessionsAreKept
    BY <2>1, <2>2 DEF AnswersFollow, SessionsAreKept, Exists
  <2> QED
    BY <2>1, <2>2, <2>5, <2>6 DEF TranscriptSoFar, Answered
<1>2. ASSUME ChatTypeOK, TranscriptSoFar, [ChatNext]_allChatVars
      PROVE  TranscriptSoFar'
  <2>1. CASE \E s \in Senders, c \in Sessions, u \in People :
               \/ CreateSession(s, c, u)
               \/ \E topic \in Topics : SendMessage(s, c, u, topic)
    BY <1>2, <2>1, CreateKeeps, SendKeeps
  <2>2. ASSUME NEW s \in Senders, Handling(s)
        PROVE  TranscriptSoFar'
    BY <1>2, <2>2, ReadsKeepTranscript, SaveConversationKeeps, StoringKeeps, ReplyKeeps,
       FailingKeeps DEF Handling, Reads
  <2>3. CASE \E u \in People : Reassign(u, {"chief_agent.chat"})
    BY <1>2, <2>3, UntouchedTranscript DEF Reassign
  <2>4. CASE Edit
    BY <1>2, <2>4, UntouchedTranscript DEF Edit
  <2>5. CASE ChatRestart
    BY <1>2, <2>5, RestartKeeps
  <2>6. CASE UNCHANGED allChatVars
    BY <1>2, <2>6, UntouchedTranscript DEF allChatVars, chatVars
  <2> QED
    BY <1>2, <2>1, <2>2, <2>3, <2>4, <2>5, <2>6 DEF ChatNext
<1>3. Inv => TranscriptIsStored
  BY DEF TranscriptSoFar, StoredSoFar, AnswersFollow, TranscriptIsStored
<1> QED
  BY <1>1, <1>2, <1>3, ChatTypesInductive, PTL DEF ChatSpec

-----------------------------------------------------------------------------
(***************************************************************************)
(* Roles, features and settings (Access)                                   *)
(***************************************************************************)

\* An account that is there has a role and an organization.
LEMMA AccountsHaveBoth ==
    ASSUME AccessTypeOK, NEW u \in Users, users[u] # Nobody
    PROVE  users[u] \in [organization : 1 .. MaxOrganizations, role : Roles]
  BY DEF AccessTypeOK, UserRows

\* What each kind of handler has read.
LEMMA RequestKinds ==
    ASSUME AccessTypeOK, NEW s \in Slots
    PROVE  /\ request[s].kind = "grant" =>
                request[s] \in [kind : {"grant"}, scope : Scopes, item : Features,
                               enabled : BOOLEAN, row : Nat, writes : BOOLEAN]
           /\ request[s].kind = "user" =>
                request[s] \in [kind : {"user"}, user : Users, role : Roles \cup {Keep},
                               name : Names \cup {Keep}, organization : 0 .. MaxOrganizations,
                               new : BOOLEAN]
           /\ request[s].kind = "organization" =>
                request[s] \in [kind : {"organization"}, name : Names]
           /\ request[s].kind = "setting" =>
                request[s] \in [kind : {"setting"}, value : Values, read : SettingRows]
<1> PICK r \in Requests : r = request[s]
  BY DEF AccessTypeOK
<1>1. CASE r = Idle
  BY <1>1 DEF Idle
<1>2. CASE r \in [kind : {"grant"}, scope : Scopes, item : Features,
                 enabled : BOOLEAN, row : Nat, writes : BOOLEAN]
  BY <1>2
<1>3. CASE r \in [kind : {"user"}, user : Users, role : Roles \cup {Keep},
                 name : Names \cup {Keep}, organization : 0 .. MaxOrganizations, new : BOOLEAN]
  BY <1>3
<1>4. CASE r \in [kind : {"organization"}, name : Names]
  BY <1>4
<1>5. CASE r \in [kind : {"setting"}, value : Values, read : SettingRows]
  BY <1>5
<1> QED
  BY <1>1, <1>2, <1>3, <1>4, <1>5 DEF Requests

\* The tables of overrides are told apart by the kind of their scope.
LEMMA GrantsHavePairs ==
    ASSUME NEW g \in Grants
    PROVE  PairOf(g) \in Pairs /\ g[3] \in Items /\ g[2] \in Roles
<1>1. CASE g \in {"role"} \X Roles \X Features
  BY <1>1 DEF PairOf, Pairs, RoleFeatures, Items
<1>2. CASE g \in {"permission"} \X Roles \X {g[3]}
  <2>1. g[3] \in Permissions
    BY <1>2 DEF Permissions
  <2> QED
    BY <1>2, <2>1 DEF PairOf, Pairs, RolePermissions, Items
<1> QED
  BY <1>1, <1>2, GrantsAssumption

\* A feature's override for any scope but a list of permissions is a pair.
LEMMA FeaturesHavePairs ==
    ASSUME NEW scope \in Scopes, scope[1] # "permission", NEW f \in Features
    PROVE  <<scope, f>> \in Pairs /\ f \in Items
<1>1. f \in Items
  BY DEF Items
<1>2. CASE scope \in {"permission", "role"} \X Roles
  BY <1>1, <1>2 DEF Pairs, RoleFeatures
<1>3. CASE scope \in {"organization"} \X (1 .. MaxOrganizations)
  BY <1>1, <1>3 DEF Pairs, OrganizationFeatures
<1>4. CASE scope \in {"user"} \X Users
  BY <1>1, <1>4 DEF Pairs, UserOverrides
<1> QED
  BY <1>2, <1>3, <1>4 DEF Scopes

\* Rows are inserted behind the others.
LEMMA InsertedTypes ==
    ASSUME NEW rows \in [Pairs -> Seq(BOOLEAN)], NEW new
    PROVE  Inserted(rows, new) \in [Pairs -> Seq(BOOLEAN)]
<1> SUFFICES ASSUME NEW p \in Pairs
             PROVE  (IF \E g \in new : PairOf(g) = p THEN Append(rows[p], TRUE) ELSE rows[p])
                      \in Seq(BOOLEAN)
  BY DEF Inserted
<1>1. rows[p] \in Seq(BOOLEAN)
  OBVIOUS
<1>2. Append(rows[p], TRUE) \in Seq(BOOLEAN)
  BY <1>1, AppendProperties
<1> QED
  BY <1>1, <1>2

\* An organization found by its name is there.
LEMMA NamedIsThere ==
    ASSUME AccessTypeOK, NEW name
    PROVE  /\ Named(name) \in 0 .. MaxOrganizations
           /\ Named(name) # 0 => Named(name) \in DOMAIN names /\ names[Named(name)] = name
<1>0. Len(names) \in Nat /\ DOMAIN names = 1 .. Len(names) /\ MaxOrganizations \in Nat
      /\ Len(names) <= MaxOrganizations
  BY GrantsAssumption, LenProperties DEF AccessTypeOK
<1>1. CASE \E o \in DOMAIN names : names[o] = name
  BY <1>0, <1>1 DEF Named
<1>2. CASE ~ \E o \in DOMAIN names : names[o] = name
  BY <1>0, <1>2 DEF Named
<1> QED
  BY <1>1, <1>2

-----------------------------------------------------------------------------
(* Types *)

\* What a handler that saves an account has read: who is new is complete, who
\* is not has an account.
AccountsRead ==
    \A s \in Slots :
      request[s].kind = "user" =>
        /\ request[s].new => request[s].role \in Roles /\ request[s].name \in Names
        /\ ~request[s].new => users[request[s].user] # Nobody
        /\ request[s].organization = 0 => request[s].name \in Names

\* What a handler that changes a feature has read: the row it found is there,
\* and without one it writes.
GrantsRead ==
    \A s \in Slots :
      request[s].kind = "grant" =>
        LET p == <<request[s].scope, request[s].item>> IN
        /\ p \in Pairs
        /\ request[s].row <= Len(overrides[p])
        /\ request[s].row = 0 => request[s].writes
        /\ request[s].item \in stored

Typed == AccessTypeOK /\ AccountsRead /\ GrantsRead

\* Rows, accounts and keys stay when a step leaves those there are.
NothingGoes ==
    /\ stored \subseteq stored'
    /\ \A p \in Pairs : Len(overrides[p]) <= Len(overrides'[p])
    /\ \A u \in Users : users[u] # Nobody => users'[u] # Nobody

\* The types hold of an empty database and of an older release's.
LEMMA TypedInit ==
    ASSUME AccessInit
    PROVE  Typed
<1>1. PICK release \in {{}, OldRelease} :
         /\ stored = UNION {{g[2], g[3]} : g \in release}
         /\ overrides = Inserted([p \in Pairs |-> << >>], release)
         /\ IF release = {} THEN /\ names = << >> /\ users = [u \in Users |-> Nobody]
                                 /\ setting = NoSetting /\ written = << >>
            ELSE /\ \E n \in Names : names = <<n>>
                 /\ users = [u \in Users |-> [organization |-> 1, role |-> FirstRole]]
                 /\ setting = FirstSetting
                 /\ written = <<DefaultValue>>
  BY DEF AccessInit
<1>2. stored \subseteq Items \cup Roles
  BY <1>1, GrantsHavePairs, GrantsAssumption
<1>3. overrides \in [Pairs -> Seq(BOOLEAN)]
  <2>1. << >> \in Seq(BOOLEAN)
    BY EmptySeq
  <2>2. [p \in Pairs |-> << >>] \in [Pairs -> Seq(BOOLEAN)]
    BY <2>1
  <2> QED
    BY <1>1, <2>2, InsertedTypes
<1>4. /\ names \in Seq(Names) /\ Len(names) <= MaxOrganizations
      /\ users \in [Users -> UserRows]
      /\ setting \in SettingRows \cup {NoSetting}
      /\ written \in Seq(Values)
  <2>1. CASE release = {}
    BY <1>1, <2>1, EmptySeq, GrantsAssumption DEF UserRows
  <2>2. CASE release # {}
    <3>1. FirstSetting \in SettingRows
      BY GrantsAssumption DEF FirstSetting, SettingRows
    <3>2. [organization |-> 1, role |-> FirstRole] \in UserRows
      BY GrantsAssumption DEF UserRows
    <3>3. PICK n \in Names : names = <<n>>
      BY <1>1, <2>2
    <3>4. names \in Seq(Names) /\ Len(names) = 1
      BY <3>3
    <3>5. users \in [Users -> UserRows]
      BY <1>1, <2>2, <3>2
    <3>6. setting \in SettingRows /\ written = <<DefaultValue>>
      BY <1>1, <2>2, <3>1
    <3>7. <<DefaultValue>> \in Seq(Values)
      BY GrantsAssumption
    <3> QED
      BY <3>4, <3>5, <3>6, <3>7, GrantsAssumption
  <2> QED
    BY <2>1, <2>2
<1>5. history \in Seq(HistoryRows)
  BY EmptySeq DEF AccessInit
<1>6. decided \in [{} -> BOOLEAN]
  BY DEF AccessInit
<1>7. boots \in [Boots -> BootStates] /\ request \in [Slots -> Requests]
  BY DEF AccessInit, BootStates, Requests
<1>8. /\ globally \in [Features -> BOOLEAN] /\ overlapped \subseteq Pairs
      /\ lostUpdate \in BOOLEAN
  BY DEF AccessInit
<1>9. AccountsRead /\ GrantsRead
  BY DEF AccessInit, AccountsRead, GrantsRead, Idle
<1>10. \E known \in SUBSET Pairs : decided \in [known -> BOOLEAN]
  BY <1>6
<1> QED
  BY <1>2, <1>3, <1>4, <1>5, <1>7, <1>8, <1>9, <1>10 DEF Typed, AccessTypeOK

\* The parts of the types that one of the groups of steps leaves alone.
GrantTypes ==
    /\ overrides \in [Pairs -> Seq(BOOLEAN)]
    /\ overlapped \subseteq Pairs
    /\ \E known \in SUBSET Pairs : decided \in [known -> BOOLEAN]

SettingTypes ==
    /\ setting \in SettingRows \cup {NoSetting}
    /\ history \in Seq(HistoryRows)
    /\ written \in Seq(Values)
    /\ lostUpdate \in BOOLEAN

AccountTypes ==
    /\ names \in Seq(Names) /\ Len(names) <= MaxOrganizations
    /\ users \in [Users -> UserRows]

\* The types are those parts together.
LEMMA TypesInParts ==
    AccessTypeOK <=>
        /\ GrantTypes /\ SettingTypes /\ AccountTypes
        /\ stored \subseteq Items \cup Roles
        /\ globally \in [Features -> BOOLEAN]
        /\ boots \in [Boots -> BootStates]
        /\ request \in [Slots -> Requests]
  BY DEF AccessTypeOK, GrantTypes, SettingTypes, AccountTypes

\* Where the handlers read nothing new and the rows stay, what they read stands.
LEMMA ReadingStands ==
    ASSUME Typed, NothingGoes, GrantTypes',
           NEW s \in Slots, request'[s] = request[s] \/ request'[s].kind = "none"
    PROVE  /\ request'[s].kind = "user" =>
                 /\ request'[s].new => request'[s].role \in Roles /\ request'[s].name \in Names
                 /\ ~request'[s].new => users'[request'[s].user] # Nobody
                 /\ request'[s].organization = 0 => request'[s].name \in Names
           /\ request'[s].kind = "grant" =>
                 LET p == <<request'[s].scope, request'[s].item>> IN
                 /\ p \in Pairs
                 /\ request'[s].row <= Len(overrides'[p])
                 /\ request'[s].row = 0 => request'[s].writes
                 /\ request'[s].item \in stored'
<1>1. CASE request'[s].kind = "user"
  <2>1. request[s].kind = "user" /\ request'[s] = request[s]
    BY <1>1
  <2>2. request[s].user \in Users
    BY <2>1, RequestKinds DEF Typed
  <2> QED
    BY <2>1, <2>2 DEF Typed, AccountsRead, NothingGoes
<1>2. CASE request'[s].kind = "grant"
  <2>1. request[s].kind = "grant" /\ request'[s] = request[s]
    BY <1>2
  <2>2. PICK p \in Pairs : p = <<request[s].scope, request[s].item>>
    BY <2>1 DEF Typed, GrantsRead
  <2>3. /\ request[s].row <= Len(overrides[p]) /\ request[s].item \in stored
        /\ request[s].row = 0 => request[s].writes
    BY <2>1, <2>2 DEF Typed, GrantsRead
  <2>4. request[s].row \in Nat
    BY <2>1, RequestKinds DEF Typed
  <2>5. Len(overrides[p]) \in Nat /\ Len(overrides'[p]) \in Nat
    BY LenProperties DEF Typed, AccessTypeOK, GrantTypes
  <2>6. request[s].row <= Len(overrides'[p])
    BY <2>3, <2>4, <2>5 DEF NothingGoes
  <2> QED
    BY <2>1, <2>2, <2>3, <2>6 DEF NothingGoes
<1> QED
  BY <1>1, <1>2

\* A step that ends at most one handler keeps the handlers' types.
LEMMA EndTypes ==
    ASSUME Typed, NothingGoes, GrantTypes',
           UNCHANGED request \/ \E s \in Slots : End(s)
    PROVE  request' \in [Slots -> Requests] /\ AccountsRead' /\ GrantsRead'
<1>1. Idle \in Requests /\ request \in [Slots -> Requests]
  BY DEF Requests, Typed, AccessTypeOK
<1>2. request' \in [Slots -> Requests]
  BY <1>1 DEF End
<1>3. ASSUME NEW t \in Slots
      PROVE  request'[t] = request[t] \/ request'[t].kind = "none"
  BY <1>1 DEF End, Idle
<1> QED
  BY <1>2, <1>3, ReadingStands DEF AccountsRead, GrantsRead

\* A handler's beginning, where what it has read is what it writes by.
LEMMA BeginTypes ==
    ASSUME Typed, NEW s \in Slots, NEW c, NEW permission, NEW record \in Requests,
           Begin(s, c, permission, record),
           record.kind = "user" =>
             /\ record.new => record.role \in Roles /\ record.name \in Names
             /\ ~record.new => users[record.user] # Nobody
             /\ record.organization = 0 => record.name \in Names,
           record.kind = "grant" =>
             LET p == <<record.scope, record.item>> IN
             /\ p \in Pairs
             /\ record.row <= Len(overrides[p])
             /\ record.row = 0 => record.writes
             /\ record.item \in stored
    PROVE  Typed'
<1>1. /\ request' = [request EXCEPT ![s] = record] /\ request \in [Slots -> Requests]
      /\ UNCHANGED <<rightsTables, boots, rightsGhosts>>
  BY DEF Begin, Typed, AccessTypeOK
<1>2. request' \in [Slots -> Requests]
  BY <1>1
<1>3. users' = users /\ overrides' = overrides /\ stored' = stored
  BY <1>1 DEF rightsTables
<1>4. ASSUME NEW t \in Slots
      PROVE  request'[t] = IF t = s THEN record ELSE request[t]
  BY <1>1
<1>5. AccountsRead'
  BY <1>3, <1>4 DEF Typed, AccountsRead
<1>6. GrantsRead'
  BY <1>3, <1>4 DEF Typed, GrantsRead
<1>7. /\ GrantTypes' /\ SettingTypes' /\ AccountTypes'
      /\ stored' \subseteq Items \cup Roles
      /\ globally' \in [Features -> BOOLEAN]
      /\ boots' \in [Boots -> BootStates]
  BY <1>1, TypesInParts DEF Typed, rightsTables, rightsGhosts, GrantTypes, SettingTypes,
     AccountTypes
<1> QED
  BY <1>2, <1>5, <1>6, <1>7 DEF Typed, AccessTypeOK, GrantTypes, SettingTypes, AccountTypes

\* A request to change a feature.
LEMMA BeginSetFeatureTypes ==
    ASSUME Typed, NEW s \in Slots, NEW c, NEW scope \in Scopes, NEW feature \in Features,
           NEW enabled \in BOOLEAN, BeginSetFeature(s, c, scope, feature, enabled)
    PROVE  Typed'
<1> DEFINE record == [kind |-> "grant", scope |-> scope, item |-> feature,
                      enabled |-> enabled, row |-> Len(overrides[<<scope, feature>>]),
                      writes |-> Override(scope, feature) # {enabled}]
<1>1. scope[1] # "permission"
  BY DEF BeginSetFeature, Known
<1>2. <<scope, feature>> \in Pairs
  BY <1>1, FeaturesHavePairs
<1>3. Len(overrides[<<scope, feature>>]) \in Nat
  BY <1>2, LenProperties DEF Typed, AccessTypeOK
<1>4. record \in Requests /\ record.kind = "grant"
  <2>1. (Override(scope, feature) # {enabled}) \in BOOLEAN
    OBVIOUS
  <2> QED
    BY <1>3, <2>1 DEF Requests
<1>5. /\ <<record.scope, record.item>> = <<scope, feature>>
      /\ record.row <= Len(overrides[<<scope, feature>>])
      /\ record.item \in stored
  BY <1>3 DEF BeginSetFeature
<1>7. record.row = 0 => record.writes
  BY <1>2, EmptySeq DEF Override, Typed, AccessTypeOK
<1>6. Begin(s, c, PermissionFor(scope), record)
  BY DEF BeginSetFeature
<1> HIDE DEF record
<1> QED
  BY <1>2, <1>4, <1>5, <1>6, <1>7, BeginTypes

\* A request to create an account.
LEMMA BeginCreateUserTypes ==
    ASSUME Typed, NEW s \in Slots, NEW c, NEW user \in Users, NEW role \in Roles,
           NEW name \in Names, BeginCreateUser(s, c, user, role, name)
    PROVE  Typed'
<1> DEFINE record == [kind |-> "user", user |-> user, role |-> role, name |-> name,
                      organization |-> Named(name), new |-> TRUE]
<1>1. Named(name) \in 0 .. MaxOrganizations
  BY NamedIsThere DEF Typed
<1>2. record \in [kind : {"user"}, user : Users, role : Roles \cup {Keep},
                  name : Names \cup {Keep}, organization : 0 .. MaxOrganizations, new : BOOLEAN]
  BY <1>1
<1>3. record \in Requests /\ record.kind = "user" /\ record.new /\ record.role \in Roles /\ record.name \in Names
  BY <1>2 DEF Requests
<1>4. Begin(s, c, "admin.users.create", record)
  BY DEF BeginCreateUser
<1> HIDE DEF record
<1> QED
  BY <1>3, <1>4, BeginTypes

\* A request to change one.
LEMMA BeginUpdateUserTypes ==
    ASSUME Typed, NEW s \in Slots, NEW c, NEW user \in Users, NEW role \in Roles \cup {Keep},
           NEW name \in Names \cup {Keep}, BeginUpdateUser(s, c, user, role, name)
    PROVE  Typed'
<1> DEFINE organization == IF name = Keep THEN users[user].organization ELSE Named(name)
           record == [kind |-> "user", user |-> user, role |-> role, name |-> name,
                      organization |-> organization, new |-> FALSE]
<1>1. users[user] # Nobody
  BY DEF BeginUpdateUser
<1>2. users[user].organization \in 1 .. MaxOrganizations
  BY <1>1, AccountsHaveBoth DEF Typed
<1>3. /\ organization \in 0 .. MaxOrganizations
      /\ organization = 0 => name \in Names
  BY <1>2, NamedIsThere, GrantsAssumption DEF Typed
<1>4. Begin(s, c, "admin.users.edit", record)
  BY DEF BeginUpdateUser
<1> HIDE DEF organization
<1>5. record \in [kind : {"user"}, user : Users, role : Roles \cup {Keep},
                  name : Names \cup {Keep}, organization : 0 .. MaxOrganizations, new : BOOLEAN]
  BY <1>3
<1>6. record \in Requests /\ record.kind = "user"
  BY <1>5 DEF Requests
<1>7. /\ record.new = FALSE /\ users[record.user] # Nobody
      /\ record.organization = 0 => record.name \in Names
  BY <1>1, <1>3
<1> HIDE DEF record
<1> QED
  BY <1>4, <1>6, <1>7, BeginTypes

\* The other requests.
LEMMA BeginOthersTypes ==
    ASSUME Typed, NEW s \in Slots, NEW c,
           \/ \E name \in Names : BeginCreateOrganization(s, c, name)
           \/ \E value \in Values : BeginSetSetting(s, c, value)
    PROVE  Typed'
<1>1. ASSUME NEW name \in Names, BeginCreateOrganization(s, c, name)
      PROVE  Typed'
  <2> DEFINE record == [kind |-> "organization", name |-> name]
  <2>1. record \in Requests /\ record.kind \notin {"user", "grant"}
    BY DEF Requests
  <2>2. Begin(s, c, "admin.organizations", record)
    BY <1>1 DEF BeginCreateOrganization
  <2> HIDE DEF record
  <2> QED
    BY <2>1, <2>2, BeginTypes
<1>2. ASSUME NEW value \in Values, BeginSetSetting(s, c, value)
      PROVE  Typed'
  <2> DEFINE record == [kind |-> "setting", value |-> value, read |-> setting]
  <2>1. setting \in SettingRows
    BY <1>2 DEF BeginSetSetting, Typed, AccessTypeOK
  <2>2. record \in Requests /\ record.kind \notin {"user", "grant"}
    BY <2>1 DEF Requests
  <2>3. Begin(s, c, "admin.system_settings", record)
    BY <1>2 DEF BeginSetSetting
  <2> HIDE DEF record
  <2> QED
    BY <2>2, <2>3, BeginTypes
<1> QED
  BY <1>1, <1>2

\* A handler that changes a feature writes one row, or none.
LEMMA WithGrantTypes ==
    ASSUME Typed, NEW s \in Slots, request[s].kind = "grant",
           NEW p \in Pairs, p = <<request[s].scope, request[s].item>>
    PROVE  /\ WithGrant(request[s]) \in Seq(BOOLEAN)
           /\ Len(overrides[p]) <= Len(WithGrant(request[s]))
           /\ request[s].enabled \in BOOLEAN
           /\ Decision(request[s]) \in BOOLEAN
<1>1. request[s] \in [kind : {"grant"}, scope : Scopes, item : Features,
                     enabled : BOOLEAN, row : Nat, writes : BOOLEAN]
  BY RequestKinds DEF Typed
<1>2. PICK rows \in Seq(BOOLEAN) : rows = overrides[p]
  BY DEF Typed, AccessTypeOK
<1>3. PICK e \in BOOLEAN : e = request[s].enabled
  BY <1>1
<1>4. PICK n \in Nat : n = request[s].row
  BY <1>1
<1>5. Len(rows) \in Nat /\ n <= Len(rows)
  BY <1>2, <1>4, LenProperties DEF Typed, GrantsRead
<1>6. PICK w \in BOOLEAN : w = request[s].writes
  BY <1>1
<1>7. /\ WithGrant(request[s]) =
           (IF n = 0 THEN Append(rows, e) ELSE IF w THEN [rows EXCEPT ![n] = e] ELSE rows)
      /\ Decision(request[s]) = (IF w THEN e ELSE rows[n])
  BY <1>2, <1>3, <1>4, <1>6 DEF WithGrant, Decision
<1>8. n = 0 => w
  BY <1>2, <1>4, <1>6 DEF Typed, GrantsRead
<1>9. CASE n = 0
  BY <1>2, <1>3, <1>5, <1>7, <1>8, <1>9, AppendProperties
<1>10. CASE n # 0
  <2>1. n \in 1 .. Len(rows)
    BY <1>5, <1>10
  <2>2. [rows EXCEPT ![n] = e] \in Seq(BOOLEAN) /\ Len([rows EXCEPT ![n] = e]) = Len(rows)
    BY <2>1, ExceptSeq
  <2>3. rows[n] \in BOOLEAN
    BY <2>1, ElementOfSeq
  <2>4. WithGrant(request[s]) \in Seq(BOOLEAN) /\ Len(rows) = Len(WithGrant(request[s]))
    BY <1>7, <1>10, <2>2
  <2>5. Decision(request[s]) \in BOOLEAN
    BY <1>7, <2>3
  <2> QED
    BY <1>2, <1>3, <1>5, <2>4, <2>5
<1> QED
  BY <1>9, <1>10

\* The types after a step that ends at most one handler.
LEMMA TypedAgain ==
    ASSUME Typed, NothingGoes, GrantTypes', SettingTypes', AccountTypes',
           stored' \subseteq Items \cup Roles, globally' \in [Features -> BOOLEAN],
           boots' \in [Boots -> BootStates],
           UNCHANGED request \/ \E s \in Slots : End(s)
    PROVE  Typed'
<1>1. request' \in [Slots -> Requests] /\ AccountsRead' /\ GrantsRead'
  BY EndTypes
<1> QED
  BY <1>1 DEF Typed, AccessTypeOK, GrantTypes, SettingTypes, AccountTypes

\* Insertions only add rows, to the pairs of the grants inserted.
LEMMA InsertedGrows ==
    ASSUME NEW rows \in [Pairs -> Seq(BOOLEAN)], NEW new, NEW p \in Pairs
    PROVE  /\ Len(rows[p]) <= Len(Inserted(rows, new)[p])
           /\ (\A g \in new : PairOf(g) # p) => Inserted(rows, new)[p] = rows[p]
           /\ (\E g \in new : PairOf(g) = p) => Len(Inserted(rows, new)[p]) = Len(rows[p]) + 1
<1>1. rows[p] \in Seq(BOOLEAN) /\ Len(rows[p]) \in Nat
  BY LenProperties
<1> DEFINE more == Append(rows[p], TRUE)
<1>2. Len(more) = Len(rows[p]) + 1
  BY <1>1, AppendProperties
<1>3. Inserted(rows, new)[p] = IF \E g \in new : PairOf(g) = p THEN more ELSE rows[p]
  BY DEF Inserted
<1> HIDE DEF more
<1>5. CASE \E g \in new : PairOf(g) = p
  BY <1>1, <1>2, <1>3, <1>5
<1>6. CASE ~ \E g \in new : PairOf(g) = p
  BY <1>1, <1>3, <1>6
<1> QED
  BY <1>5, <1>6

\* Nothing is lost where nothing is written.
LEMMA NothingGoesSame ==
    ASSUME AccessTypeOK, UNCHANGED <<stored, overrides, users>>
    PROVE  NothingGoes
<1>1. \A p \in Pairs : Len(overrides[p]) \in Nat
  BY LenProperties DEF AccessTypeOK
<1> QED
  BY <1>1 DEF NothingGoes

\* What a process reads while it seeds.
LEMMA SeedReadTypes ==
    ASSUME Typed, NEW b \in Boots, SeedRead(b)
    PROVE  Typed'
<1>1. boots[b].stage \in Stages
  BY DEF SeedRead, Seeding
<1>2. PICK stage \in Stages : stage = boots[b].stage
  BY <1>1
<1>3. Missing(stage) \subseteq Grants
  BY DEF Missing, StageGrants
<1>4. StageKeys(stage) \subseteq Items \cup Roles
  <2>1. \A g \in Grants : g[3] \in Items
    BY GrantsHavePairs
  <2> QED
    BY <2>1 DEF StageKeys, StageGrants, Items
<1>5. PICK record : /\ boots' = [boots EXCEPT ![b] = record]
                    /\ record = IF stage = "setting"
                                THEN [stage |-> stage, step |-> "write", keys |-> {}, rows |-> {},
                                      insert |-> setting = NoSetting]
                                ELSE [stage |-> stage, step |-> "write",
                                      keys |-> StageKeys(stage) \ stored,
                                      rows |-> Missing(stage), insert |-> FALSE]
  BY <1>2 DEF SeedRead
<1>6. record \in [stage : Stages, step : {"write"}, keys : SUBSET (Items \cup Roles),
                  rows : SUBSET Grants, insert : BOOLEAN]
  <2>1. CASE stage = "setting"
    BY <1>5, <2>1
  <2>2. CASE stage # "setting"
    BY <1>3, <1>4, <1>5, <2>2
  <2> QED
    BY <2>1, <2>2
<1>7. boots' \in [Boots -> BootStates]
  BY <1>5, <1>6 DEF BootStates, Typed, AccessTypeOK
<1>8. UNCHANGED <<rightsTables, request, rightsGhosts>>
  BY DEF SeedRead
<1> QED
  BY <1>7, <1>8, NothingGoesSame, TypedAgain, TypesInParts DEF Typed, rightsTables, rightsGhosts,
     GrantTypes, SettingTypes, AccountTypes

\* A process that starts, or whose seeding fails.
LEMMA BootTypes ==
    ASSUME Typed, NEW b \in Boots, Start(b) \/ SeedConflict(b)
    PROVE  Typed'
<1>1. UNCHANGED <<rightsTables, request, rightsGhosts>>
  BY DEF Start, SeedConflict
<1>2. [stage |-> "rbac", step |-> "read"] \in BootStates /\ Down \in BootStates
  BY DEF BootStates, Stages
<1>3. boots' \in [Boots -> BootStates]
  BY <1>2 DEF Start, SeedConflict, Typed, AccessTypeOK
<1> QED
  BY <1>1, <1>3, NothingGoesSame, TypedAgain, TypesInParts DEF Typed, rightsTables, rightsGhosts,
     GrantTypes, SettingTypes, AccountTypes

\* What a process that writes has read.
LEMMA SeedingWrites ==
    ASSUME AccessTypeOK, NEW b \in Boots, Seeding(b, "write")
    PROVE  boots[b] \in [stage : Stages, step : {"write"}, keys : SUBSET (Items \cup Roles),
                        rows : SUBSET Grants, insert : BOOLEAN]
<1> PICK k \in BootStates : k = boots[b]
  BY DEF AccessTypeOK
<1>1. CASE k = Down \/ k = Up
  BY <1>1 DEF Seeding, Down, Up, Stages
<1>2. CASE k \in [stage : Stages, step : {"read"}]
  BY <1>2 DEF Seeding
<1>3. CASE k \in [stage : Stages, step : {"write"}, keys : SUBSET (Items \cup Roles),
                 rows : SUBSET Grants, insert : BOOLEAN]
  BY <1>3
<1> QED
  BY <1>1, <1>2, <1>3 DEF BootStates

\* What a process writes while it seeds.
LEMMA SeedWriteTypes ==
    ASSUME Typed, NEW b \in Boots, SeedWrite(b)
    PROVE  Typed'
<1>1. boots[b] \in [stage : Stages, step : {"write"}, keys : SUBSET (Items \cup Roles),
                   rows : SUBSET Grants, insert : BOOLEAN]
  BY SeedingWrites DEF SeedWrite, Typed
<1>2. boots' \in [Boots -> BootStates]
  <2>1. NextStage(boots[b].stage) \in BootStates
    BY <1>1 DEF NextStage, BootStates, Stages
  <2> QED
    BY <2>1 DEF SeedWrite, Typed, AccessTypeOK
<1>3. CASE SeedRows(b)
  <2>1. stored \subseteq stored' /\ stored' \subseteq Items \cup Roles
    BY <1>1, <1>3 DEF SeedRows, Typed, AccessTypeOK
  <2>2. /\ overrides' = Inserted(overrides, boots[b].rows)
        /\ overlapped' = overlapped \cup ({PairOf(g) : g \in boots[b].rows} \cap Pending(b))
        /\ UNCHANGED <<globally, names, users, setting, history, decided, written, lostUpdate>>
    BY <1>3 DEF SeedRows
  <2>3. overrides' \in [Pairs -> Seq(BOOLEAN)]
    BY <2>2, InsertedTypes DEF Typed, AccessTypeOK
  <2>4. overlapped' \subseteq Pairs
    BY <1>1, <2>2, GrantsHavePairs DEF Typed, AccessTypeOK
  <2>5. NothingGoes
    BY <2>1, <2>2, InsertedGrows DEF NothingGoes, Typed, AccessTypeOK
  <2>6. GrantTypes'
    BY <2>2, <2>3, <2>4 DEF GrantTypes, Typed, AccessTypeOK
  <2> QED
    BY <1>2, <2>1, <2>2, <2>5, <2>6, TypedAgain, TypesInParts
    DEF SeedWrite, Typed, SettingTypes, AccountTypes
<1>4. CASE SeedSetting(b)
  <2>1. FirstSetting \in SettingRows /\ <<DefaultValue>> \in Seq(Values)
    BY GrantsAssumption DEF FirstSetting, SettingRows
  <2>2. UNCHANGED <<stored, globally, overrides, names, users, history, decided, overlapped,
                    lostUpdate>>
    BY <1>4 DEF SeedSetting
  <2>3. SettingTypes'
    BY <1>4, <2>1, <2>2 DEF SeedSetting, SettingTypes, Typed, AccessTypeOK
  <2> QED
    BY <1>2, <2>2, <2>3, NothingGoesSame, TypedAgain, TypesInParts
    DEF SeedWrite, Typed, GrantTypes, AccountTypes
<1> QED
  BY <1>3, <1>4 DEF SeedWrite

\* A committed change of a feature.
LEMMA CommitSetFeatureTypes ==
    ASSUME Typed, NEW s \in Slots, CommitSetFeature(s)
    PROVE  Typed'
<1>1. /\ request[s].kind = "grant"
      /\ overlapped' = IF request[s].row = 0
                       THEN overlapped \cup ({<<request[s].scope, request[s].item>>} \cap Pending(s))
                       ELSE overlapped
      /\ End(s)
      /\ UNCHANGED <<stored, globally, names, users, setting, history, boots, written, lostUpdate>>
  BY DEF CommitSetFeature
<1>2. PICK p \in Pairs : p = <<request[s].scope, request[s].item>>
  BY <1>1 DEF Typed, GrantsRead
<1>3. /\ overrides' = [overrides EXCEPT ![p] = WithGrant(request[s])]
      /\ decided' = [q \in DOMAIN decided \cup {p} |->
                       IF q = p THEN Decision(request[s]) ELSE decided[q]]
  BY <1>2 DEF CommitSetFeature
<1>4. /\ WithGrant(request[s]) \in Seq(BOOLEAN)
      /\ Len(overrides[p]) <= Len(WithGrant(request[s]))
      /\ Decision(request[s]) \in BOOLEAN
  BY <1>1, <1>2, WithGrantTypes
<1>5. overrides' \in [Pairs -> Seq(BOOLEAN)] /\ overlapped' \subseteq Pairs
  BY <1>1, <1>2, <1>3, <1>4 DEF Typed, AccessTypeOK
<1>6. \E known \in SUBSET Pairs : decided' \in [known -> BOOLEAN]
  <2>1. PICK known \in SUBSET Pairs : decided \in [known -> BOOLEAN]
    BY DEF Typed, AccessTypeOK
  <2>2. decided' \in [known \cup {p} -> BOOLEAN]
    BY <1>3, <1>4, <2>1
  <2> QED
    BY <1>2, <2>2
<1>7. NothingGoes
  <2>1. ASSUME NEW q \in Pairs
        PROVE  Len(overrides[q]) <= Len(overrides'[q])
    <3>1. Len(overrides[q]) \in Nat /\ overrides'[q] = IF q = p THEN WithGrant(request[s])
                                                       ELSE overrides[q]
      BY <1>3, LenProperties DEF Typed, AccessTypeOK
    <3> QED
      BY <1>4, <3>1
  <2> QED
    BY <1>1, <2>1 DEF NothingGoes
<1> QED
  BY <1>1, <1>5, <1>6, <1>7, TypedAgain, TypesInParts
  DEF Typed, GrantTypes, SettingTypes, AccountTypes

\* A committed change of the setting.
LEMMA CommitSetSettingTypes ==
    ASSUME Typed, NEW s \in Slots, CommitSetSetting(s)
    PROVE  Typed'
<1>1. /\ request[s].kind = "setting"
      /\ End(s)
      /\ UNCHANGED <<stored, globally, overrides, names, users, boots, decided, overlapped>>
  BY DEF CommitSetSetting
<1>2. request[s] \in [kind : {"setting"}, value : Values, read : SettingRows]
  BY <1>1, RequestKinds DEF Typed
<1>3. PICK read \in SettingRows : read = request[s].read
  BY <1>2
<1>4. PICK value \in Values : value = request[s].value
  BY <1>2
<1>5. Previous(request[s]) \in HistoryRows
  BY <1>3 DEF Previous, SettingRows, HistoryRows
<1>10. setting \in SettingRows
  BY DEF CommitSetSetting, Typed, AccessTypeOK
<1>11. PICK new \in Values : new = Updated(value, read.value, setting.value)
  BY <1>3, <1>4, <1>10 DEF Updated, SettingRows
<1>12. PICK by \in Slots \cup {"none"} : by = Updated(s, read.by, setting.by)
  BY <1>3, <1>10 DEF Updated, SettingRows
<1>6. [value |-> new, version |-> read.version + 1, by |-> by] \in SettingRows
  BY <1>3, <1>11, <1>12 DEF SettingRows
<1>7. /\ history' = Append(history, Previous(request[s]))
      /\ setting' = [value |-> new, version |-> read.version + 1, by |-> by]
      /\ written' = Append(written, new)
      /\ lostUpdate' \in BOOLEAN
  BY <1>3, <1>4, <1>11, <1>12 DEF CommitSetSetting, Typed, AccessTypeOK
<1>8. history' \in Seq(HistoryRows) /\ written' \in Seq(Values)
  BY <1>5, <1>7, AppendProperties DEF Typed, AccessTypeOK
<1>9. SettingTypes'
  BY <1>6, <1>7, <1>8 DEF SettingTypes
<1> QED
  BY <1>1, <1>9, NothingGoesSame, TypedAgain, TypesInParts DEF Typed, GrantTypes, AccountTypes

\* A new organization's name.
LEMMA NewNameTypes ==
    ASSUME AccessTypeOK, NEW name \in Names, Len(names) < MaxOrganizations,
           names' = Append(names, name)
    PROVE  /\ names' \in Seq(Names) /\ Len(names') <= MaxOrganizations
           /\ Len(names') \in 1 .. MaxOrganizations
<1>1. names' \in Seq(Names) /\ Len(names') = Len(names) + 1 /\ Len(names) \in Nat
  BY AppendProperties, LenProperties DEF AccessTypeOK
<1> QED
  BY <1>1, GrantsAssumption

\* An organization created on the way to an account.
LEMMA CreateInlineTypes ==
    ASSUME Typed, NEW s \in Slots, CreateInline(s)
    PROVE  Typed'
<1>1. /\ request[s].kind = "user" /\ request[s].organization = 0
      /\ UNCHANGED <<stored, globally, overrides, users, setting, history, boots, rightsGhosts>>
  BY DEF CreateInline
<1>2. request[s].name \in Names
  BY <1>1 DEF Typed, AccountsRead
<1>3. NothingGoes
  BY <1>1, NothingGoesSame DEF Typed
<1>4. CASE End(s) /\ names' = names
  BY <1>1, <1>3, <1>4, TypedAgain, TypesInParts
  DEF Typed, GrantTypes, SettingTypes, AccountTypes, rightsGhosts
<1>5. CASE /\ Len(names) < MaxOrganizations
           /\ names' = Append(names, request[s].name)
           /\ request' = [request EXCEPT ![s].organization = Len(names')]
  <2>1. /\ names' \in Seq(Names) /\ Len(names') <= MaxOrganizations
        /\ Len(names') \in 1 .. MaxOrganizations
    BY <1>2, <1>5, NewNameTypes DEF Typed
  <2>2. PICK r \in [kind : {"user"}, user : Users, role : Roles \cup {Keep},
                    name : Names \cup {Keep}, organization : 0 .. MaxOrganizations,
                    new : BOOLEAN] : r = request[s]
    BY <1>1, RequestKinds DEF Typed
  <2>3. PICK n \in 1 .. MaxOrganizations : n = Len(names')
    BY <2>1
  <2>4. PICK j : j = [r EXCEPT !.organization = n]
    OBVIOUS
  <2>5. /\ j \in [kind : {"user"}, user : Users, role : Roles \cup {Keep},
                  name : Names \cup {Keep}, organization : 0 .. MaxOrganizations, new : BOOLEAN]
        /\ j.kind = "user" /\ j.user = r.user /\ j.role = r.role /\ j.name = r.name
        /\ j.new = r.new /\ j.organization = n
    BY <2>2, <2>3, <2>4
  <2>6. request' = [request EXCEPT ![s] = j]
    BY <1>5, <2>2, <2>3, <2>4
  <2>7. request' \in [Slots -> Requests]
    BY <2>5, <2>6 DEF Requests, Typed, AccessTypeOK
  <2>8. \A t \in Slots : request'[t] = IF t = s THEN j ELSE request[t]
    BY <2>6 DEF Typed, AccessTypeOK
  <2>9. AccountsRead'
    <3>1. n # 0
      BY <2>3
    <3> QED
      BY <1>1, <2>2, <2>5, <2>8, <3>1 DEF Typed, AccountsRead
  <2>10. GrantsRead'
    BY <1>1, <2>5, <2>8 DEF Typed, GrantsRead
  <2> QED
    BY <1>1, <2>1, <2>7, <2>9, <2>10 DEF Typed, AccessTypeOK, rightsGhosts
<1> QED
  BY <1>4, <1>5 DEF CreateInline

\* The account's row.
LEMMA SaveUserTypes ==
    ASSUME Typed, NEW s \in Slots, SaveUser(s)
    PROVE  Typed'
<1>1. /\ request[s].kind = "user" /\ request[s].organization # 0
      /\ End(s)
      /\ UNCHANGED <<stored, globally, overrides, names, setting, history, boots, rightsGhosts>>
  BY DEF SaveUser
<1>2. PICK r \in [kind : {"user"}, user : Users, role : Roles \cup {Keep},
                  name : Names \cup {Keep}, organization : 0 .. MaxOrganizations,
                  new : BOOLEAN] : r = request[s]
  BY <1>1, RequestKinds DEF Typed
<1>3. ASSUME ~(r.new /\ users[r.user] # Nobody)
      PROVE  Profile(r) \in [organization : 1 .. MaxOrganizations, role : Roles]
  <2>1. r.organization \in 1 .. MaxOrganizations
    BY <1>1, <1>2, GrantsAssumption
  <2>2. CASE r.new
    <3>1. r.role \in Roles /\ r.name \in Names
      BY <1>1, <1>2, <2>2 DEF Typed, AccountsRead
    <3> QED
      BY <2>1, <3>1, GrantsAssumption DEF Profile
  <2>3. CASE ~r.new
    <3>1. users[r.user] # Nobody
      BY <1>1, <1>2, <2>3 DEF Typed, AccountsRead
    <3>2. users[r.user] \in [organization : 1 .. MaxOrganizations, role : Roles]
      BY <3>1, AccountsHaveBoth DEF Typed
    <3> QED
      BY <2>1, <3>2 DEF Profile
  <2> QED
    BY <2>2, <2>3
<1>4. \/ users' = users
      \/ /\ users' = [users EXCEPT ![r.user] = Profile(r)]
         /\ Profile(r) \in [organization : 1 .. MaxOrganizations, role : Roles]
  BY <1>2, <1>3 DEF SaveUser
<1>5. /\ users' \in [Users -> UserRows]
      /\ \A u \in Users : users[u] # Nobody => users'[u] # Nobody
  <2>1. CASE users' = users
    BY <2>1 DEF Typed, AccessTypeOK
  <2>2. CASE users' # users
    <3>1. PICK row \in [organization : 1 .. MaxOrganizations, role : Roles] :
            users' = [users EXCEPT ![r.user] = row]
      BY <1>4, <2>2
    <3>2. row \in UserRows /\ row # Nobody
      BY <3>1, GrantsAssumption DEF UserRows, Nobody
    <3> QED
      BY <3>1, <3>2 DEF Typed, AccessTypeOK
  <2> QED
    BY <2>1, <2>2
<1>6. NothingGoes
  BY <1>1, <1>5, LenProperties DEF NothingGoes, Typed, AccessTypeOK
<1> QED
  BY <1>1, <1>5, <1>6, TypedAgain, TypesInParts
  DEF Typed, GrantTypes, SettingTypes, AccountTypes, rightsGhosts

\* The steps that write names, a switch or nothing.
LEMMA OtherTypes ==
    ASSUME Typed,
           \/ \E s \in Slots : CommitCreateOrganization(s) \/ Fail(s)
           \/ \E c \in Callers \cup Users, f \in Features, on \in BOOLEAN : SetGlobal(c, f, on)
           \/ \E c \in Callers \cup Users, o \in DOMAIN names, n \in Names :
                RenameOrganization(c, o, n)
    PROVE  Typed'
<1>1. UNCHANGED <<stored, overrides, users, setting, history, boots, rightsGhosts>>
  BY DEF CommitCreateOrganization, Fail, SetGlobal, RenameOrganization, rightsTables
<1>2. NothingGoes
  BY <1>1, NothingGoesSame DEF Typed
<1>3. UNCHANGED request \/ \E s \in Slots : End(s)
  BY DEF CommitCreateOrganization, Fail, SetGlobal, RenameOrganization
<1>4. globally' \in [Features -> BOOLEAN]
  BY DEF Typed, AccessTypeOK, CommitCreateOrganization, Fail, SetGlobal, RenameOrganization,
     rightsTables
<1>5. names' \in Seq(Names) /\ Len(names') <= MaxOrganizations
  <2>1. CASE names' = names
    BY <2>1 DEF Typed, AccessTypeOK
  <2>2. ASSUME NEW s \in Slots, CommitCreateOrganization(s), names' # names
        PROVE  names' \in Seq(Names) /\ Len(names') <= MaxOrganizations
    <3>1. request[s].kind = "organization" /\ Len(names) < MaxOrganizations
          /\ names' = Append(names, request[s].name)
      BY <2>2 DEF CommitCreateOrganization
    <3>2. request[s].name \in Names
      BY <3>1, RequestKinds DEF Typed
    <3> QED
      BY <3>1, <3>2, NewNameTypes DEF Typed
  <2>3. ASSUME NEW o \in DOMAIN names, NEW n \in Names, names' = [names EXCEPT ![o] = n]
        PROVE  names' \in Seq(Names) /\ Len(names') <= MaxOrganizations
    <3>1. names \in Seq(Names) /\ o \in 1 .. Len(names) /\ Len(names) <= MaxOrganizations
      BY LenProperties DEF Typed, AccessTypeOK
    <3> QED
      BY <2>3, <3>1, ExceptSeq
  <2> QED
    BY <2>1, <2>2, <2>3 DEF Fail, SetGlobal, RenameOrganization, rightsTables
<1> QED
  BY <1>1, <1>2, <1>3, <1>4, <1>5, TypedAgain, TypesInParts
  DEF Typed, GrantTypes, SettingTypes, AccountTypes, rightsGhosts

\* Every step keeps the types.
LEMMA TypedStep ==
    ASSUME Typed, [AccessNext]_rightsVars
    PROVE  Typed'
<1>1. ASSUME NEW b \in Boots, Booting(b)
      PROVE  Typed'
  BY <1>1, BootTypes, SeedReadTypes, SeedWriteTypes DEF Booting
<1>2. ASSUME NEW s \in Slots, Committing(s)
      PROVE  Typed'
  BY <1>2, CommitSetFeatureTypes, CreateInlineTypes, SaveUserTypes, CommitSetSettingTypes,
     OtherTypes DEF Committing
<1>3. ASSUME NEW c \in Callers \cup Users, Editing(c)
      PROVE  Typed'
  <2>1. CASE \E f \in Features, b \in BOOLEAN : SetGlobal(c, f, b)
    BY <2>1, OtherTypes
  <2>2. CASE \E o \in DOMAIN names, n \in Names : RenameOrganization(c, o, n)
    BY <2>2, OtherTypes
  <2>3. CASE \E s \in Slots, scope \in Scopes, f \in Features, b \in BOOLEAN :
               BeginSetFeature(s, c, scope, f, b)
    BY <2>3, BeginSetFeatureTypes
  <2>4. CASE \E s \in Slots, u \in Users, r \in Roles \cup {Keep}, n \in Names \cup {Keep} :
               r # Keep /\ n # Keep /\ BeginCreateUser(s, c, u, r, n)
    <3>1. PICK s \in Slots, u \in Users, r \in Roles, n \in Names : BeginCreateUser(s, c, u, r, n)
      BY <2>4
    <3> QED
      BY <3>1, BeginCreateUserTypes
  <2>5. CASE \E s \in Slots, u \in Users, r \in Roles \cup {Keep}, n \in Names \cup {Keep} :
               BeginUpdateUser(s, c, u, r, n)
    BY <2>5, BeginUpdateUserTypes
  <2>6. CASE \E s \in Slots : \/ \E n \in Names : BeginCreateOrganization(s, c, n)
                              \/ \E v \in Values : BeginSetSetting(s, c, v)
    BY <2>6, BeginOthersTypes
  <2> QED
    BY <1>3, <2>1, <2>2, <2>3, <2>4, <2>5, <2>6 DEF Editing
<1>4. CASE UNCHANGED rightsVars
  <2>1. UNCHANGED <<rightsTables, boots, request, rightsGhosts>>
    BY <1>4 DEF rightsVars
  <2> QED
    BY <2>1 DEF Typed, AccessTypeOK, AccountsRead, GrantsRead, rightsTables, rightsGhosts
<1> QED
  BY <1>1, <1>2, <1>3, <1>4 DEF AccessNext

\* Everything has its type, always.
LEMMA AlwaysTyped == AccessSpec => []Typed
  BY TypedInit, TypedStep, PTL DEF AccessSpec

-----------------------------------------------------------------------------
(* The rows of a grant *)

\* A handler, or a process, that has seen no row for a pair and will insert one.
Asks(s, p) ==
    request[s].kind = "grant" /\ request[s].row = 0 /\ <<request[s].scope, request[s].item>> = p

Seeds(b, p) == Seeding(b, "write") /\ \E g \in boots[b].rows : PairOf(g) = p

\* While no two inserts of a pair overlapped: it has at most one row, which
\* nobody else is about to insert and which says what was last decided.
OneRow ==
    \A p \in Pairs \ overlapped :
      /\ Len(overrides[p]) \in {0, 1}
      /\ Len(overrides[p]) = 1 => /\ \A s \in Slots : ~Asks(s, p)
                                 /\ \A b \in Boots : ~Seeds(b, p)
      /\ p \in DOMAIN decided => Len(overrides[p]) = 1 /\ overrides[p][1] = decided[p]

\* What there are rows about is there, or goes in with them.
KeysKnown ==
    /\ \A p \in Pairs : Len(overrides[p]) # 0 => p[2] \in stored
    /\ \A b \in Boots :
         Seeding(b, "write") => \A g \in boots[b].rows : g[3] \in boots[b].keys \cup stored

Governed == OneRow /\ KeysKnown

\* Who is pending beside one that writes.
LEMMA PendingAre ==
    ASSUME NEW x, NEW p
    PROVE  p \in Pending(x) <=> \/ \E s \in Slots \ {x} : Asks(s, p)
                              \/ \E b \in Boots \ {x} : Seeds(b, p)
<1>1. p \in {<<request[s].scope, request[s].item>> :
              s \in {t \in Slots \ {x} : request[t].kind = "grant" /\ request[t].row = 0}}
        <=> \E s \in Slots \ {x} : Asks(s, p)
  BY DEF Asks
<1>2. p \in {PairOf(g) : g \in UNION {boots[b].rows : b \in {c \in Boots \ {x} : Seeding(c, "write")}}}
        <=> \E b \in Boots \ {x} : Seeds(b, p)
  BY DEF Seeds
<1> QED
  BY <1>1, <1>2 DEF Pending

\* The lengths of rows are numbers, and no rows are the empty sequence.
LEMMA RowLengths ==
    ASSUME AccessTypeOK, NEW p \in Pairs
    PROVE  /\ overrides[p] \in Seq(BOOLEAN) /\ Len(overrides[p]) \in Nat
           /\ overrides[p] = <<>> <=> Len(overrides[p]) = 0
<1>1. overrides[p] \in Seq(BOOLEAN)
  BY DEF AccessTypeOK
<1> QED
  BY <1>1, LenProperties, EmptySeq

\* The first state: an older release wrote one row for a grant.
LEMMA GovernedInit ==
    ASSUME AccessInit
    PROVE  Governed
<1> DEFINE none == [p \in Pairs |-> << >>]
<1>1. PICK release \in SUBSET Grants :
         /\ stored = UNION {{g[2], g[3]} : g \in release}
         /\ overrides = Inserted(none, release)
  BY GrantsAssumption DEF AccessInit
<1>2. none \in [Pairs -> Seq(BOOLEAN)] /\ \A p \in Pairs : Len(none[p]) = 0
  BY EmptySeq
<1>3. /\ boots = [b \in Boots |-> Down] /\ request = [s \in Slots |-> Idle]
      /\ decided = << >>
  BY DEF AccessInit
<1>4. /\ \A s \in Slots : request[s].kind = "none"
      /\ \A b \in Boots : ~Seeding(b, "write")
      /\ DOMAIN decided = {}
  BY <1>3 DEF Idle, Down, Seeding, Stages
<1> HIDE DEF none
<1>5. ASSUME NEW p \in Pairs
      PROVE  /\ Len(overrides[p]) \in {0, 1}
             /\ Len(overrides[p]) # 0 => \E g \in release : PairOf(g) = p
  <2>1. CASE \E g \in release : PairOf(g) = p
    <3>1. Len(overrides[p]) = Len(none[p]) + 1
      BY <1>1, <1>2, <2>1, InsertedGrows
    <3> QED
      BY <1>2, <2>1, <3>1
  <2>2. CASE \A g \in release : PairOf(g) # p
    <3>1. overrides[p] = none[p]
      BY <1>1, <1>2, <2>2, InsertedGrows
    <3> QED
      BY <1>2, <3>1
  <2> QED
    BY <2>1, <2>2
<1>6. ASSUME NEW p \in Pairs, Len(overrides[p]) # 0
      PROVE  p[2] \in stored
  <2>1. PICK g \in release : PairOf(g) = p
    BY <1>5, <1>6
  <2>2. p[2] = g[3]
    BY <2>1 DEF PairOf
  <2> QED
    BY <1>1, <2>1, <2>2
<1>7. OneRow
  <2>1. \A p \in Pairs : Len(overrides[p]) \in {0, 1}
    BY <1>5
  <2>2. \A p : \A s \in Slots : ~Asks(s, p)
    BY <1>4 DEF Asks
  <2>3. \A p : \A b \in Boots : ~Seeds(b, p)
    BY <1>4 DEF Seeds
  <2> QED
    BY <1>4, <2>1, <2>2, <2>3 DEF OneRow
<1> QED
  BY <1>4, <1>6, <1>7 DEF Governed, KeysKnown

\* A step that writes no row, and after which nobody waits who did not wait.
LEMMA GovernedUndisturbed ==
    ASSUME Typed, Governed, UNCHANGED <<overrides, overlapped, decided>>,
           stored \subseteq stored',
           \A s \in Slots : request'[s] = request[s] \/ request'[s].kind # "grant",
           \A b \in Boots : boots'[b] = boots[b] \/ ~Seeding(b, "write")'
    PROVE  Governed'
<1>1. ASSUME NEW p, NEW s \in Slots, Asks(s, p)'
      PROVE  Asks(s, p)
  BY <1>1 DEF Asks
<1>2. ASSUME NEW p, NEW b \in Boots, Seeds(b, p)'
      PROVE  Seeds(b, p)
  BY <1>2 DEF Seeds, Seeding
<1>3. OneRow'
  BY <1>1, <1>2 DEF Governed, OneRow
<1>4. KeysKnown'
  <2>1. ASSUME NEW b \in Boots, Seeding(b, "write")'
        PROVE  boots'[b] = boots[b] /\ Seeding(b, "write")
    BY <2>1 DEF Seeding
  <2> QED
    BY <2>1 DEF Governed, KeysKnown
<1> QED
  BY <1>3, <1>4 DEF Governed

\* What a process reads has no row.
LEMMA GovernedBySeedRead ==
    ASSUME Typed, Governed, NEW b \in Boots, SeedRead(b)
    PROVE  Governed'
<1>1. PICK stage \in Stages : stage = boots[b].stage
  BY DEF SeedRead, Seeding
<1>2. PICK record : /\ boots' = [boots EXCEPT ![b] = record]
                    /\ record = IF stage = "setting"
                                THEN [stage |-> stage, step |-> "write", keys |-> {}, rows |-> {},
                                      insert |-> setting = NoSetting]
                                ELSE [stage |-> stage, step |-> "write",
                                      keys |-> StageKeys(stage) \ stored,
                                      rows |-> Missing(stage), insert |-> FALSE]
  BY <1>1 DEF SeedRead
<1>3. /\ \A g \in record.rows : overrides[PairOf(g)] = <<>> /\ g \in Grants
      /\ \A g \in record.rows : g[3] \in record.keys \cup stored
  <2>1. CASE stage = "setting"
    <3>1. record.rows = {}
      BY <1>2, <2>1
    <3> QED
      BY <3>1
  <2>2. CASE stage # "setting"
    <3>1. record.rows = Missing(stage) /\ record.keys = StageKeys(stage) \ stored
      BY <1>2, <2>2
    <3>2. ASSUME NEW g \in StageGrants(stage)
          PROVE  g[3] \in StageKeys(stage) /\ g \in Grants
      <4>1. g \in Grants /\ g[1] \in Kinds(stage)
        BY DEF StageGrants
      <4>2. CASE stage = "rbac"
        <5>1. g[3] \in {h[3] : h \in StageGrants(stage)}
          OBVIOUS
        <5> QED
          BY <4>1, <4>2, <5>1 DEF StageKeys
      <4>3. CASE stage # "rbac"
        <5>1. g[1] = "role"
          BY <4>1, <4>3 DEF Kinds
        <5>2. g[3] \in Features
          BY <4>1, <5>1, GrantsAssumption
        <5> QED
          BY <4>1, <4>3, <5>2 DEF StageKeys
      <4> QED
        BY <4>1, <4>2, <4>3
    <3> QED
      BY <3>1, <3>2 DEF Missing
  <2> QED
    BY <2>1, <2>2
<1>4. /\ UNCHANGED <<rightsTables, request, rightsGhosts>>
      /\ \A a \in Boots : boots'[a] = IF a = b THEN record ELSE boots[a]
  BY <1>2 DEF SeedRead, Typed, AccessTypeOK
<1>5. OneRow'
  <2>1. ASSUME NEW p \in Pairs, Len(overrides[p]) = 1, NEW a \in Boots, Seeds(a, p)'
        PROVE  Seeds(a, p)
    <3>1. CASE a = b
      <4>1. PICK g \in record.rows : PairOf(g) = p
        BY <1>4, <2>1, <3>1 DEF Seeds
      <4>2. overrides[p] = <<>>
        BY <1>3, <4>1
      <4> QED
        BY <2>1, <4>2, RowLengths DEF Typed
    <3>2. CASE a # b
      BY <1>4, <2>1, <3>2 DEF Seeds, Seeding
    <3> QED
      BY <3>1, <3>2
  <2>2. ASSUME NEW p, NEW s \in Slots, Asks(s, p)'
        PROVE  Asks(s, p)
    BY <1>4, <2>2 DEF Asks
  <2> QED
    BY <1>4, <2>1, <2>2 DEF Governed, OneRow, rightsTables, rightsGhosts
<1>6. KeysKnown'
  <2>1. ASSUME NEW a \in Boots, Seeding(a, "write")', NEW g \in boots'[a].rows
        PROVE  g[3] \in boots'[a].keys \cup stored
    <3>1. CASE a = b
      BY <1>3, <1>4, <2>1, <3>1
    <3>2. CASE a # b
      BY <1>4, <2>1, <3>2 DEF Governed, KeysKnown, Seeding
    <3> QED
      BY <3>1, <3>2
  <2> QED
    BY <1>4, <2>1 DEF Governed, KeysKnown, rightsTables
<1> QED
  BY <1>5, <1>6 DEF Governed

\* The rows a process inserts: where no other was about to, they are the first.
LEMMA GovernedBySeedRows ==
    ASSUME Typed, Governed, NEW b \in Boots, SeedWrite(b), SeedRows(b)
    PROVE  Governed'
<1>1. /\ Seeding(b, "write")
      /\ stored' = stored \cup boots[b].keys
      /\ overrides' = Inserted(overrides, boots[b].rows)
      /\ overlapped' = overlapped \cup ({PairOf(g) : g \in boots[b].rows} \cap Pending(b))
      /\ UNCHANGED <<decided, request>>
      /\ boots' = [boots EXCEPT ![b] = NextStage(boots[b].stage)]
  BY DEF SeedWrite, SeedRows
<1>2. boots[b] \in [stage : Stages, step : {"write"}, keys : SUBSET (Items \cup Roles),
                   rows : SUBSET Grants, insert : BOOLEAN]
  BY <1>1, SeedingWrites DEF Typed
<1>3. ~Seeding(b, "write")' /\ \A a \in Boots \ {b} : boots'[a] = boots[a]
  <2>1. boots'[b] = NextStage(boots[b].stage) /\ boots[b].stage \in Stages
    BY <1>1, <1>2 DEF Typed, AccessTypeOK
  <2>2. \/ boots'[b] = Up
        \/ \E stage \in Stages : boots'[b] = [stage |-> stage, step |-> "read"]
    BY <2>1 DEF NextStage, Stages
  <2>3. ~Seeding(b, "write")'
    BY <2>2 DEF Seeding, Up, Stages
  <2> QED
    BY <1>1, <2>3 DEF Typed, AccessTypeOK
<1>4. b \notin Slots
  BY GrantsAssumption
<1>5. ASSUME NEW p \in Pairs \ overlapped'
      PROVE  /\ Len(overrides'[p]) \in {0, 1}
             /\ Len(overrides'[p]) = 1 => /\ \A s \in Slots : ~Asks(s, p)'
                                         /\ \A a \in Boots : ~Seeds(a, p)'
             /\ p \in DOMAIN decided' => Len(overrides'[p]) = 1 /\ overrides'[p][1] = decided'[p]
  <2>1. p \in Pairs /\ p \notin overlapped
    BY <1>1
  <2>2. CASE \E g \in boots[b].rows : PairOf(g) = p
    <3>1. Seeds(b, p)
      BY <1>1, <2>2 DEF Seeds
    <3>2. Len(overrides[p]) \in {0, 1} /\ Len(overrides[p]) # 1 /\ p \notin DOMAIN decided
      BY <2>1, <3>1 DEF Governed, OneRow
    <3>3. Len(overrides[p]) = 0
      BY <3>2
    <3>4. Len(overrides'[p]) = 1
      <4>1. Len(overrides'[p]) = Len(overrides[p]) + 1
        BY <1>1, <2>1, <2>2, InsertedGrows DEF Typed, AccessTypeOK
      <4> QED
        BY <3>3, <4>1
    <3>5. p \notin Pending(b)
      BY <1>1, <2>2
    <3>6. /\ \A s \in Slots : ~Asks(s, p)
          /\ \A a \in Boots \ {b} : ~Seeds(a, p)
      BY <1>4, <3>5, PendingAre
    <3>7. \A s \in Slots : ~Asks(s, p)'
      BY <1>1, <3>6 DEF Asks
    <3>8. \A a \in Boots : ~Seeds(a, p)'
      BY <1>3, <3>6 DEF Seeds, Seeding
    <3> QED
      BY <1>1, <3>2, <3>4, <3>7, <3>8
  <2>3. CASE \A g \in boots[b].rows : PairOf(g) # p
    <3>1. overrides'[p] = overrides[p]
      BY <1>1, <2>1, <2>3, InsertedGrows DEF Typed, AccessTypeOK
    <3>2. \A s \in Slots : Asks(s, p)' => Asks(s, p)
      BY <1>1 DEF Asks
    <3>3. \A a \in Boots : Seeds(a, p)' => Seeds(a, p)
      BY <1>3 DEF Seeds, Seeding
    <3> QED
      BY <1>1, <2>1, <3>1, <3>2, <3>3 DEF Governed, OneRow
  <2> QED
    BY <2>2, <2>3
<1>6. OneRow'
  BY <1>5 DEF OneRow
<1>7. KeysKnown'
  <2>1. ASSUME NEW p \in Pairs, Len(overrides'[p]) # 0
        PROVE  p[2] \in stored'
    <3>1. CASE \E g \in boots[b].rows : PairOf(g) = p
      <4>1. PICK g \in boots[b].rows : PairOf(g) = p
        BY <3>1
      <4>2. p[2] = g[3]
        BY <4>1 DEF PairOf
      <4> QED
        BY <1>1, <4>1, <4>2 DEF Governed, KeysKnown
    <3>2. CASE \A g \in boots[b].rows : PairOf(g) # p
      <4>1. overrides'[p] = overrides[p]
        BY <1>1, <3>2, InsertedGrows DEF Typed, AccessTypeOK
      <4> QED
        BY <1>1, <2>1, <4>1 DEF Governed, KeysKnown
    <3> QED
      BY <3>1, <3>2
  <2>2. ASSUME NEW a \in Boots, Seeding(a, "write")', NEW g \in boots'[a].rows
        PROVE  g[3] \in boots'[a].keys \cup stored'
    <3>1. a # b /\ boots'[a] = boots[a] /\ Seeding(a, "write")
      BY <1>3, <2>2 DEF Seeding
    <3> QED
      BY <1>1, <2>2, <3>1 DEF Governed, KeysKnown
  <2> QED
    BY <2>1, <2>2 DEF KeysKnown
<1> QED
  BY <1>6, <1>7 DEF Governed

\* The row a handler writes: the one there is, or the first.
LEMMA GovernedByCommit ==
    ASSUME Typed, Governed, NEW s \in Slots, CommitSetFeature(s)
    PROVE  Governed'
<1>1. /\ request[s].kind = "grant"
      /\ overlapped' = IF request[s].row = 0
                       THEN overlapped \cup ({<<request[s].scope, request[s].item>>} \cap Pending(s))
                       ELSE overlapped
      /\ request' = [request EXCEPT ![s] = Idle]
      /\ UNCHANGED <<stored, boots>>
  BY DEF CommitSetFeature, End
<1>2. PICK q \in Pairs : q = <<request[s].scope, request[s].item>>
  BY <1>1 DEF Typed, GrantsRead
<1>3. request[s].row <= Len(overrides[q]) /\ q[2] \in stored
  BY <1>1, <1>2 DEF Typed, GrantsRead
<1>4. request[s] \in [kind : {"grant"}, scope : Scopes, item : Features,
                     enabled : BOOLEAN, row : Nat, writes : BOOLEAN]
  BY <1>1, RequestKinds DEF Typed
<1>5. PICK n \in Nat, e \in BOOLEAN, w \in BOOLEAN :
         n = request[s].row /\ e = request[s].enabled /\ w = request[s].writes
  BY <1>4
<1>14. PICK d : d = Decision(request[s])
  OBVIOUS
<1>6. /\ overrides' = [overrides EXCEPT ![q] = WithGrant(request[s])]
      /\ decided' = [p \in DOMAIN decided \cup {q} |-> IF p = q THEN d ELSE decided[p]]
  BY <1>2, <1>14 DEF CommitSetFeature
<1>7. PICK rows \in Seq(BOOLEAN) : rows = overrides[q]
  BY DEF Typed, AccessTypeOK
<1>8. /\ WithGrant(request[s]) =
           (IF n = 0 THEN Append(rows, e) ELSE IF w THEN [rows EXCEPT ![n] = e] ELSE rows)
      /\ d = (IF w THEN e ELSE rows[n])
      /\ n = 0 => w
  BY <1>1, <1>2, <1>5, <1>7, <1>14 DEF WithGrant, Decision, Typed, GrantsRead
<1>9. /\ \A t \in Slots \ {s} : request'[t] = request[t]
      /\ request'[s].kind = "none"
  BY <1>1 DEF Typed, AccessTypeOK, Idle
<1>10. /\ \A p : \A t \in Slots : Asks(t, p)' => t # s /\ Asks(t, p)
       /\ \A p : \A b \in Boots : Seeds(b, p)' => Seeds(b, p)
  BY <1>1, <1>9 DEF Asks, Seeds, Seeding
<1>11. ASSUME q \notin overlapped'
       PROVE  /\ Len(overrides'[q]) = 1 /\ overrides'[q][1] = d
              /\ \A t \in Slots : ~Asks(t, q)'
              /\ \A b \in Boots : ~Seeds(b, q)'
  <2>1. q \notin overlapped
    BY <1>1, <1>11
  <2>2. Len(rows) \in {0, 1} /\ n <= Len(rows)
    BY <1>3, <1>5, <1>7, <2>1 DEF Governed, OneRow
  <2>3. overrides'[q] = WithGrant(request[s])
    BY <1>6 DEF Typed, AccessTypeOK
  <2>4. CASE n = 0
    <3>1. Asks(s, q)
      BY <1>1, <1>2, <1>5, <2>4 DEF Asks
    <3>2. Len(rows) = 0
      BY <1>7, <2>1, <2>2, <3>1 DEF Governed, OneRow
    <3>3. Len(Append(rows, e)) = 1 /\ Append(rows, e)[1] = e
      BY <3>2, AppendProperties
    <3>4. q \notin Pending(s)
      BY <1>1, <1>2, <1>5, <1>11, <2>4
    <3>5. /\ \A t \in Slots \ {s} : ~Asks(t, q)
          /\ \A b \in Boots : ~Seeds(b, q)
      BY <3>4, PendingAre, GrantsAssumption
    <3> QED
      BY <1>8, <1>10, <2>3, <2>4, <3>3, <3>5
  <2>5. CASE n # 0
    <3>1. n = 1 /\ Len(rows) = 1
      <4>1. PICK length \in {0, 1} : length = Len(rows)
        BY <2>2
      <4>2. n \in Nat /\ n <= length /\ n # 0
        BY <2>2, <2>5, <4>1
      <4> QED
        BY <4>1, <4>2
    <3>2. Len([rows EXCEPT ![n] = e]) = 1 /\ [rows EXCEPT ![n] = e][1] = e
      BY <3>1, ExceptSeq
    <3>4. Len(overrides'[q]) = 1 /\ overrides'[q][1] = d
      <4>1. CASE w
        BY <1>8, <2>3, <2>5, <3>2, <4>1
      <4>2. CASE ~w
        BY <1>8, <2>3, <2>5, <3>1, <4>2
      <4> QED
        BY <4>1, <4>2
    <3>3. /\ \A t \in Slots : ~Asks(t, q)
          /\ \A b \in Boots : ~Seeds(b, q)
      BY <1>7, <2>1, <3>1 DEF Governed, OneRow
    <3> QED
      BY <1>10, <3>3, <3>4
  <2> QED
    BY <2>4, <2>5
<1>12. OneRow'
  <2>1. ASSUME NEW p \in Pairs \ overlapped', p # q
        PROVE  p \notin overlapped /\ overrides'[p] = overrides[p]
               /\ (p \in DOMAIN decided' => p \in DOMAIN decided /\ decided'[p] = decided[p])
    BY <1>1, <1>6, <2>1 DEF Typed, AccessTypeOK
  <2>2. decided'[q] = d
    BY <1>6
  <2>3. ASSUME NEW p \in Pairs \ overlapped'
        PROVE  /\ Len(overrides'[p]) \in {0, 1}
               /\ Len(overrides'[p]) = 1 => /\ \A t \in Slots : ~Asks(t, p)'
                                           /\ \A b \in Boots : ~Seeds(b, p)'
               /\ p \in DOMAIN decided' =>
                    Len(overrides'[p]) = 1 /\ overrides'[p][1] = decided'[p]
    <3>1. CASE p = q
      BY <1>11, <2>2, <2>3, <3>1
    <3>2. CASE p # q
      BY <1>10, <2>1, <2>3, <3>2 DEF Governed, OneRow
    <3> QED
      BY <3>1, <3>2
  <2> QED
    BY <2>3 DEF OneRow
<1>13. KeysKnown'
  <2>1. \A p \in Pairs : p # q => overrides'[p] = overrides[p]
    BY <1>6 DEF Typed, AccessTypeOK
  <2> QED
    BY <1>1, <1>3, <2>1 DEF Governed, KeysKnown, Seeding
<1> QED
  BY <1>12, <1>13 DEF Governed

\* What a handler reads has no row, or the row it will write.
LEMMA GovernedByBegin ==
    ASSUME Typed, Governed, NEW s \in Slots, NEW c, NEW scope \in Scopes, NEW f \in Features,
           NEW enabled \in BOOLEAN, BeginSetFeature(s, c, scope, f, enabled)
    PROVE  Governed'
<1> DEFINE q == <<scope, f>>
           record == [kind |-> "grant", scope |-> scope, item |-> f,
                      enabled |-> enabled, row |-> Len(overrides[q]),
                      writes |-> Override(scope, f) # {enabled}]
<1>1. /\ request' = [request EXCEPT ![s] = record]
      /\ UNCHANGED <<stored, overrides, overlapped, decided, boots>>
  BY DEF BeginSetFeature, Begin, rightsTables, rightsGhosts
<1>2. record.row = Len(overrides[q]) /\ <<record.scope, record.item>> = q
  OBVIOUS
<1> HIDE DEF record
<1>3. ASSUME NEW p, NEW t \in Slots, Asks(t, p)'
      PROVE  Asks(t, p) \/ (p = q /\ Len(overrides[q]) = 0)
  <2>1. CASE t = s
    BY <1>1, <1>2, <1>3, <2>1 DEF Asks, Typed, AccessTypeOK
  <2>2. CASE t # s
    BY <1>1, <1>3, <2>2 DEF Asks, Typed, AccessTypeOK
  <2> QED
    BY <2>1, <2>2
<1>4. \A p : \A b \in Boots : Seeds(b, p)' => Seeds(b, p)
  BY <1>1 DEF Seeds, Seeding
<1>5. OneRow'
  BY <1>1, <1>3, <1>4 DEF Governed, OneRow
<1>6. KeysKnown'
  BY <1>1 DEF Governed, KeysKnown, Seeding
<1> QED
  BY <1>5, <1>6 DEF Governed

\* Every step keeps the rows of a grant to what was decided.
LEMMA GovernedStep ==
    ASSUME Typed, Governed, [AccessNext]_rightsVars
    PROVE  Governed'
<1>1. ASSUME NEW b \in Boots, Booting(b)
      PROVE  Governed'
  <2>1. CASE Start(b) \/ SeedConflict(b)
    <3>1. UNCHANGED <<rightsTables, request, rightsGhosts>>
      BY <2>1 DEF Start, SeedConflict
    <3>2. /\ ~Seeding(b, "write")'
          /\ \A a \in Boots \ {b} : boots'[a] = boots[a]
      BY <2>1 DEF Start, SeedConflict, Seeding, Down, Stages, Typed, AccessTypeOK
    <3> QED
      BY <3>1, <3>2, GovernedUndisturbed DEF rightsTables, rightsGhosts
  <2>2. CASE SeedRead(b)
    BY <2>2, GovernedBySeedRead
  <2>3. CASE SeedWrite(b) /\ SeedRows(b)
    BY <2>3, GovernedBySeedRows
  <2>4. CASE SeedWrite(b) /\ SeedSetting(b)
    <3>1. /\ UNCHANGED <<stored, overrides, decided, overlapped, request>>
          /\ boots' = [boots EXCEPT ![b] = NextStage(boots[b].stage)]
          /\ boots[b].stage = "setting"
      BY <2>4 DEF SeedWrite, SeedSetting
    <3>2. boots'[b] = Up /\ \A a \in Boots \ {b} : boots'[a] = boots[a]
      BY <3>1 DEF NextStage, Typed, AccessTypeOK
    <3>3. ~Seeding(b, "write")'
      BY <3>2 DEF Seeding, Up, Stages
    <3> QED
      BY <3>1, <3>2, <3>3, GovernedUndisturbed
  <2> QED
    BY <1>1, <2>1, <2>2, <2>3, <2>4 DEF Booting, SeedWrite
<1>2. ASSUME NEW s \in Slots, Committing(s)
      PROVE  Governed'
  <2>1. CASE CommitSetFeature(s)
    BY <2>1, GovernedByCommit
  <2>2. CASE CreateInline(s)
    <3>1. /\ request[s].kind = "user"
          /\ UNCHANGED <<stored, overrides, decided, overlapped, boots>>
      BY <2>2 DEF CreateInline, rightsGhosts
    <3>2. request[s] \in [kind : {"user"}, user : Users, role : Roles \cup {Keep},
                         name : Names \cup {Keep}, organization : 0 .. MaxOrganizations,
                         new : BOOLEAN]
      BY <3>1, RequestKinds DEF Typed
    <3>3. PICK r \in [kind : {"user"}, user : Users, role : Roles \cup {Keep},
                      name : Names \cup {Keep}, organization : 0 .. MaxOrganizations,
                      new : BOOLEAN] : r = request[s]
      BY <3>2
    <3>4. \/ request' = [request EXCEPT ![s] = Idle]
          \/ \E n : request' = [request EXCEPT ![s] = [r EXCEPT !.organization = n]]
      BY <2>2, <3>3 DEF CreateInline, End
    <3>5. PICK k : request' = [request EXCEPT ![s] = k] /\ k.kind # "grant"
      BY <3>3, <3>4 DEF Idle
    <3>6. \A t \in Slots : request'[t] = request[t] \/ request'[t].kind # "grant"
      BY <3>5 DEF Typed, AccessTypeOK
    <3> QED
      BY <3>1, <3>6, GovernedUndisturbed
  <2>3. CASE SaveUser(s) \/ CommitCreateOrganization(s) \/ CommitSetSetting(s) \/ Fail(s)
    <3>1. /\ End(s)
          /\ UNCHANGED <<stored, overrides, decided, overlapped, boots>>
      BY <2>3 DEF SaveUser, CommitCreateOrganization, CommitSetSetting, Fail, rightsTables,
         rightsGhosts
    <3>2. \A t \in Slots : request'[t] = request[t] \/ request'[t].kind # "grant"
      BY <3>1 DEF End, Idle, Typed, AccessTypeOK
    <3> QED
      BY <3>1, <3>2, GovernedUndisturbed
  <2> QED
    BY <1>2, <2>1, <2>2, <2>3 DEF Committing
<1>3. ASSUME NEW c \in Callers \cup Users, Editing(c)
      PROVE  Governed'
  <2>1. CASE \E f \in Features, b \in BOOLEAN : SetGlobal(c, f, b)
    BY <2>1, GovernedUndisturbed DEF SetGlobal, rightsGhosts
  <2>2. CASE \E o \in DOMAIN names, n \in Names : RenameOrganization(c, o, n)
    BY <2>2, GovernedUndisturbed DEF RenameOrganization, rightsGhosts
  <2>3. CASE \E s \in Slots, scope \in Scopes, f \in Features, b \in BOOLEAN :
               BeginSetFeature(s, c, scope, f, b)
    BY <2>3, GovernedByBegin
  <2>4. ASSUME NEW s \in Slots, NEW permission, NEW record, record.kind # "grant",
               Begin(s, c, permission, record)
        PROVE  Governed'
    <3>1. UNCHANGED <<stored, overrides, decided, overlapped, boots>>
      BY <2>4 DEF Begin, rightsTables, rightsGhosts
    <3>2. \A t \in Slots : request'[t] = request[t] \/ request'[t].kind # "grant"
      BY <2>4 DEF Begin, Typed, AccessTypeOK
    <3> QED
      BY <3>1, <3>2, GovernedUndisturbed
  <2>5. CASE \E s \in Slots, u \in Users, r \in Roles \cup {Keep}, n \in Names \cup {Keep} :
               BeginCreateUser(s, c, u, r, n) \/ BeginUpdateUser(s, c, u, r, n)
    BY <2>4, <2>5 DEF BeginCreateUser, BeginUpdateUser
  <2>6. CASE \E s \in Slots : \/ \E n \in Names : BeginCreateOrganization(s, c, n)
                              \/ \E v \in Values : BeginSetSetting(s, c, v)
    BY <2>4, <2>6 DEF BeginCreateOrganization, BeginSetSetting
  <2> QED
    BY <1>3, <2>1, <2>2, <2>3, <2>5, <2>6 DEF Editing
<1>4. CASE UNCHANGED rightsVars
  BY <1>4, GovernedUndisturbed DEF rightsVars, rightsTables, rightsGhosts, Seeding
<1> QED
  BY <1>1, <1>2, <1>3, <1>4 DEF AccessNext

-----------------------------------------------------------------------------
(* The setting and its history *)

\* While no two updates read one version: the history is what was written
\* before, by versions, and the row what was written last.
Versioned ==
    /\ setting = NoSetting => Len(history) = 0
    /\ ~lostUpdate /\ setting # NoSetting =>
         /\ setting.version = Len(history) + 1
         /\ Len(written) = Len(history) + 1
         /\ \A n \in 1 .. Len(history) : history[n].version = n /\ history[n].value = written[n]
         /\ setting.value = written[Len(history) + 1]

\* The row is no missing row.
LEMMA RowsAreThere ==
    ASSUME NEW row \in SettingRows
    PROVE  row # NoSetting
  BY DEF SettingRows, NoSetting

\* In the first state there is the default or none.
LEMMA VersionedInit ==
    ASSUME AccessInit
    PROVE  Versioned
<1>1. history = << >> /\ Len(history) = 0
  BY DEF AccessInit
<1>2. \/ setting = NoSetting
      \/ setting = FirstSetting /\ written = <<DefaultValue>>
  BY DEF AccessInit
<1>3. FirstSetting # NoSetting
  BY DEF FirstSetting, NoSetting
<1>4. CASE setting = NoSetting
  BY <1>1, <1>4 DEF Versioned
<1>5. CASE setting = FirstSetting /\ written = <<DefaultValue>>
  <2>1. setting.version = 1 /\ setting.value = DefaultValue
    BY <1>5 DEF FirstSetting
  <2>2. Len(written) = 1 /\ written[1] = DefaultValue
    BY <1>5
  <2> QED
    BY <1>1, <1>3, <1>5, <2>1, <2>2 DEF Versioned
<1> QED
  BY <1>2, <1>4, <1>5

\* A change goes behind the history of the row it read.
LEMMA VersionedByCommit ==
    ASSUME Typed, Versioned, NEW s \in Slots, CommitSetSetting(s)
    PROVE  Versioned'
<1>1. request[s] \in [kind : {"setting"}, value : Values, read : SettingRows]
  BY RequestKinds DEF CommitSetSetting, Typed
<1>2. PICK read \in SettingRows : read = request[s].read
  BY <1>1
<1>3. PICK value \in Values : value = request[s].value
  BY <1>1
<1>4. PICK row : row = Previous(request[s])
  OBVIOUS
<1>5. row.version = read.version /\ row.value = read.value
  BY <1>2, <1>4 DEF Previous
<1>13. PICK new \in Values : new = Updated(value, read.value, setting.value)
  BY <1>2, <1>3 DEF CommitSetSetting, Updated, SettingRows, Typed, AccessTypeOK
<1>14. PICK by : by = Updated(s, read.by, setting.by)
  OBVIOUS
<1>6. /\ history' = Append(history, row)
      /\ setting' = [value |-> new, version |-> read.version + 1, by |-> by]
      /\ written' = Append(written, new)
      /\ lostUpdate' = (lostUpdate \/ read # setting)
  BY <1>2, <1>3, <1>4, <1>13, <1>14 DEF CommitSetSetting
<1>7. read # NoSetting /\ read.version \in Nat \ {0}
  BY RowsAreThere DEF SettingRows
<1>8. setting' # NoSetting /\ setting'.version = read.version + 1 /\ setting'.value = new
  BY <1>6, <1>7 DEF NoSetting
<1>9. row \in HistoryRows
  BY <1>2, <1>4 DEF Previous, SettingRows, HistoryRows
<1>10. PICK old \in Seq(HistoryRows) : old = history
  BY DEF Typed, AccessTypeOK
<1>11. PICK past \in Seq(Values) : past = written
  BY DEF Typed, AccessTypeOK
<1>12. ASSUME ~lostUpdate'
       PROVE  /\ setting'.version = Len(history') + 1
              /\ Len(written') = Len(history') + 1
              /\ \A n \in 1 .. Len(history') :
                   history'[n].version = n /\ history'[n].value = written'[n]
              /\ setting'.value = written'[Len(history') + 1]
  <2>1. ~lostUpdate /\ read = setting
    BY <1>6, <1>12
  <2>2. PICK k \in Nat : k = Len(old)
    BY LenProperties
  <2>3. /\ read.version = k + 1 /\ Len(past) = k + 1 /\ read.value = past[k + 1]
        /\ \A n \in 1 .. k : old[n].version = n /\ old[n].value = past[n]
    BY <1>7, <1>10, <1>11, <2>1, <2>2 DEF Versioned
  <2>4. /\ Len(Append(old, row)) = k + 1 /\ Append(old, row)[k + 1] = row
        /\ \A n \in 1 .. k : Append(old, row)[n] = old[n]
    BY <1>9, <2>2, AppendProperties
  <2>5. /\ Len(Append(past, new)) = k + 2 /\ Append(past, new)[k + 2] = new
        /\ \A n \in 1 .. k + 1 : Append(past, new)[n] = past[n]
    BY <2>3, AppendProperties
  <2>6. ASSUME NEW n \in 1 .. k + 1
        PROVE  Append(old, row)[n].version = n /\ Append(old, row)[n].value = Append(past, new)[n]
    <3>1. CASE n \in 1 .. k
      BY <2>3, <2>4, <2>5, <3>1
    <3>2. CASE n = k + 1
      BY <1>5, <2>3, <2>4, <2>5, <3>2
    <3>3. n \in 1 .. k \/ n = k + 1
      OBVIOUS
    <3> QED
      BY <3>1, <3>2, <3>3
  <2>7. history' = Append(old, row) /\ written' = Append(past, new)
    BY <1>6, <1>10, <1>11
  <2>8. Len(history') = k + 1 /\ Len(written') = k + 2
    BY <2>4, <2>5, <2>7
  <2>9. setting'.version = k + 2 /\ setting'.value = written'[k + 2]
    BY <1>8, <2>3, <2>5, <2>7
  <2>10. Len(history') + 1 = k + 2 /\ 1 .. Len(history') = 1 .. k + 1
    BY <2>8
  <2>11. \A n \in 1 .. Len(history') :
           history'[n].version = n /\ history'[n].value = written'[n]
    BY <2>6, <2>7, <2>10
  <2> QED
    BY <2>8, <2>9, <2>10, <2>11
<1> QED
  BY <1>8, <1>12 DEF Versioned

\* The default goes in where there was no row, and no history.
LEMMA VersionedBySeed ==
    ASSUME Typed, Versioned, NEW b \in Boots, SeedSetting(b)
    PROVE  Versioned'
<1>1. history' = history /\ lostUpdate' = lostUpdate
  BY DEF SeedSetting
<1>2. CASE boots[b].insert
  <2>1. setting = NoSetting /\ setting' = FirstSetting /\ written' = <<DefaultValue>>
    BY <1>2 DEF SeedSetting
  <2>2. Len(history') = 0
    BY <1>1, <2>1 DEF Versioned
  <2>3. setting'.version = 1 /\ setting'.value = DefaultValue /\ setting' # NoSetting
    BY <2>1 DEF FirstSetting, NoSetting
  <2>4. Len(written') = 1 /\ written'[1] = DefaultValue
    BY <2>1
  <2> QED
    BY <2>2, <2>3, <2>4 DEF Versioned
<1>3. CASE ~boots[b].insert
  BY <1>1, <1>3 DEF SeedSetting, Versioned
<1> QED
  BY <1>2, <1>3

\* Every step keeps the setting and its history together.
LEMMA VersionedStep ==
    ASSUME Typed, Versioned, [AccessNext]_rightsVars
    PROVE  Versioned'
<1>1. CASE UNCHANGED <<setting, history, written, lostUpdate>>
  BY <1>1 DEF Versioned
<1>2. CASE \E s \in Slots : CommitSetSetting(s)
  BY <1>2, VersionedByCommit
<1>3. CASE \E b \in Boots : SeedSetting(b)
  BY <1>3, VersionedBySeed
<1>4. \/ UNCHANGED <<setting, history, written, lostUpdate>>
      \/ \E s \in Slots : CommitSetSetting(s)
      \/ \E b \in Boots : SeedSetting(b)
  <2>1. ASSUME NEW b \in Boots, Booting(b)
        PROVE  UNCHANGED <<setting, history, written, lostUpdate>> \/ SeedSetting(b)
    BY <2>1 DEF Booting, Start, SeedRead, SeedWrite, SeedRows, SeedConflict, rightsTables,
       rightsGhosts
  <2>2. ASSUME NEW s \in Slots, Committing(s)
        PROVE  UNCHANGED <<setting, history, written, lostUpdate>> \/ CommitSetSetting(s)
    BY <2>2 DEF Committing, CommitSetFeature, CreateInline, SaveUser, CommitCreateOrganization,
       Fail, rightsTables, rightsGhosts
  <2>3. ASSUME NEW c \in Callers \cup Users, Editing(c)
        PROVE  UNCHANGED <<setting, history, written, lostUpdate>>
    <3>1. ASSUME NEW s, NEW permission, NEW record, Begin(s, c, permission, record)
          PROVE  UNCHANGED <<setting, history, written, lostUpdate>>
      BY <3>1 DEF Begin, rightsTables, rightsGhosts
    <3>2. CASE \/ \E f \in Features, b \in BOOLEAN : SetGlobal(c, f, b)
               \/ \E o \in DOMAIN names, n \in Names : RenameOrganization(c, o, n)
      BY <3>2 DEF SetGlobal, RenameOrganization, rightsGhosts
    <3>3. CASE \E s \in Slots, scope \in Scopes, f \in Features, b \in BOOLEAN :
                 BeginSetFeature(s, c, scope, f, b)
      BY <3>1, <3>3 DEF BeginSetFeature
    <3>4. CASE \E s \in Slots, u \in Users, r \in Roles \cup {Keep}, n \in Names \cup {Keep} :
                 BeginCreateUser(s, c, u, r, n) \/ BeginUpdateUser(s, c, u, r, n)
      BY <3>1, <3>4 DEF BeginCreateUser, BeginUpdateUser
    <3>5. CASE \E s \in Slots : \/ \E n \in Names : BeginCreateOrganization(s, c, n)
                                \/ \E v \in Values : BeginSetSetting(s, c, v)
      BY <3>1, <3>5 DEF BeginCreateOrganization, BeginSetSetting
    <3> QED
      BY <2>3, <3>2, <3>3, <3>4, <3>5 DEF Editing
  <2> QED
    BY <2>1, <2>2, <2>3 DEF AccessNext, rightsVars, rightsTables, rightsGhosts
<1> QED
  BY <1>1, <1>2, <1>3, <1>4

-----------------------------------------------------------------------------
\* Types, grants and setting, together.
Settled == Typed /\ Governed /\ Versioned

LEMMA AlwaysSettled == AccessSpec => []Settled
<1>1. AccessInit => Settled
  BY TypedInit, GovernedInit, VersionedInit DEF Settled
<1>2. Settled /\ [AccessNext]_rightsVars => Settled'
  BY TypedStep, GovernedStep, VersionedStep DEF Settled
<1> QED
  BY <1>1, <1>2, PTL DEF AccessSpec

\* What the rows of a pair are read as: an enabled row, or the last one.
LEMMA OneRowIsRead ==
    ASSUME AccessTypeOK, NEW p \in Pairs, Len(overrides[p]) = 1
    PROVE  ReadAs(p[1], p[2]) <=> overrides[p][1]
<1>1. p = <<p[1], p[2]>> /\ p[1] = <<p[1][1], p[1][2]>> /\ p[2] \in Items
      /\ p[1][1] \in {"permission", "role", "organization", "user"}
  BY DEF Pairs, RoleFeatures, OrganizationFeatures, UserOverrides, RolePermissions, Items
<1>2. overrides[p] \in Seq(BOOLEAN) /\ overrides[p] # <<>>
  <2>1. Len(overrides[p]) # 0
    OBVIOUS
  <2> QED
    BY <2>1, RowLengths
<1>3. overrides[p][1] \in BOOLEAN /\ DOMAIN overrides[p] = {1}
  BY <1>2, LenProperties
<1>4. CASE p[1][1] \in {"permission", "role"}
  <2>1. p[2] \in Enabled(p[1]) <=> overrides[p][1]
    BY <1>1, <1>3 DEF Enabled
  <2> QED
    BY <1>4, <2>1 DEF ReadAs
<1>5. CASE p[1][1] \notin {"permission", "role"}
  <2>1. Override(p[1], p[2]) = {overrides[p][1]}
    BY <1>1, <1>2 DEF Override
  <2>2. ReadAs(p[1], p[2]) <=> {overrides[p][1]} # {FALSE}
    BY <1>5, <2>1 DEF ReadAs
  <2>3. overrides[p][1] = TRUE \/ overrides[p][1] = FALSE
    BY <1>3
  <2>4. CASE overrides[p][1] = TRUE
    BY <2>2, <2>4
  <2>5. CASE overrides[p][1] = FALSE
    BY <2>2, <2>5
  <2> QED
    BY <2>3, <2>4, <2>5
<1> QED
  BY <1>4, <1>5

(***************************************************************************)
(* Whatever processes boot, release after release, and whatever administra-*)
(* tors edit at once: the rows of a grant are at most one and say what the *)
(* last committed edit left it at (what it asked for, or, where it asked   *)
(* for what it had read, what has been committed since), unless two        *)
(* inserts of it overlapped; and the history of the setting is every value *)
(* it had, by versions, unless two updates read one version.               *)
(***************************************************************************)
THEOREM EditsAlwaysGovern == AccessSpec => []EditsGovern
<1>1. Settled => EditsGovern
  <2> SUFFICES ASSUME Settled
               PROVE  EditsGovern
    OBVIOUS
  <2>1. ASSUME NEW p \in Pairs \ overlapped
        PROVE  /\ Len(overrides[p]) <= 1
               /\ p \in DOMAIN decided => (ReadAs(p[1], p[2]) <=> decided[p])
    <3>1. /\ Len(overrides[p]) \in {0, 1}
          /\ p \in DOMAIN decided => Len(overrides[p]) = 1 /\ overrides[p][1] = decided[p]
      BY DEF Settled, Governed, OneRow
    <3>2. Len(overrides[p]) <= 1
      <4>1. Len(overrides[p]) \in Nat
        BY RowLengths DEF Settled, Typed
      <4>2. Len(overrides[p]) = 0 \/ Len(overrides[p]) = 1
        BY <3>1
      <4>3. \A n \in Nat : n = 0 \/ n = 1 => n <= 1
        OBVIOUS
      <4> QED
        BY <4>1, <4>2, <4>3, Zenon
    <3>3. ASSUME p \in DOMAIN decided
          PROVE  ReadAs(p[1], p[2]) <=> decided[p]
      BY <3>1, <3>3, OneRowIsRead DEF Settled, Typed
    <3> QED
      BY <3>2, <3>3
  <2>2. ASSUME ~lostUpdate, setting # NoSetting
        PROVE  /\ setting.version = Len(history) + 1
               /\ \A n \in DOMAIN history : history[n].version = n /\ history[n].value = written[n]
               /\ setting.value = written[Len(history) + 1]
    <3>1. DOMAIN history = 1 .. Len(history)
      BY LenProperties DEF Settled, Typed, AccessTypeOK
    <3> QED
      BY <2>2, <3>1 DEF Settled, Versioned
  <2> QED
    BY <2>1, <2>2 DEF EditsGovern
<1> QED
  BY <1>1, AlwaysSettled, PTL

-----------------------------------------------------------------------------
(* What opens a feature to an account *)

\* The role of an account, its organization and itself may have an override.
LEMMA AccountsHavePairs ==
    ASSUME Typed, NEW u \in Users, NEW f \in Features
    PROVE  /\ <<<<"user", u>>, f>> \in Pairs
           /\ users[u] # Nobody =>
                /\ users[u].role \in Roles /\ users[u].organization \in 1 .. MaxOrganizations
                /\ users[u].organization # 0
                /\ <<<<"role", users[u].role>>, f>> \in Pairs
                /\ <<<<"organization", users[u].organization>>, f>> \in Pairs
<1>1. <<<<"user", u>>, f>> \in Pairs
  BY DEF Pairs, UserOverrides
<1>2. ASSUME users[u] # Nobody
      PROVE  /\ users[u].role \in Roles /\ users[u].organization \in 1 .. MaxOrganizations
             /\ users[u].organization # 0
             /\ <<<<"role", users[u].role>>, f>> \in Pairs
             /\ <<<<"organization", users[u].organization>>, f>> \in Pairs
  <2>1. /\ users[u].role \in Roles /\ users[u].organization \in 1 .. MaxOrganizations
        /\ users[u].organization # 0
    BY <1>2, AccountsHaveBoth, GrantsAssumption DEF Typed
  <2> QED
    BY <2>1 DEF Pairs, RoleFeatures, OrganizationFeatures
<1> QED
  BY <1>1, <1>2

\* Where none of what it rests on opens, a hidden feature stays hidden.
LEMMA HiddenStays ==
    ASSUME Typed, NEW u \in Users, NEW f \in Features,
           globally'[f] = globally[f], users'[u] = users[u],
           f \in stored' => f \in stored,
           UserOverride(u, f)' = UserOverride(u, f) \/ UserOverride(u, f)' = {FALSE},
           users[u] # Nobody =>
             /\ f \in RoleFeatureKeys(users[u].role)' => f \in RoleFeatureKeys(users[u].role)
             /\ OrganizationAllows(users[u].organization, f)' =>
                   OrganizationAllows(users[u].organization, f),
           Effective(u, f)'
    PROVE  Effective(u, f)
<1>1. Base(u, f)' => Base(u, f)
  <2>1. u \notin Callers
    BY GrantsAssumption
  <2>2. /\ RolesOf(u)' = RolesOf(u)
        /\ EffectiveOrganization(u)' = EffectiveOrganization(u)
    BY DEF RolesOf, EffectiveOrganization, HasAccount
  <2>3. CASE users[u] = Nobody
    <3>1. RolesOf(u) = {}
      BY <2>1, <2>3 DEF RolesOf, HasAccount
    <3> QED
      BY <2>2, <3>1 DEF Base
  <2>4. CASE users[u] # Nobody
    <3>1. RolesOf(u) = {users[u].role} /\ EffectiveOrganization(u) = users[u].organization
      BY <2>4 DEF RolesOf, EffectiveOrganization, HasAccount
    <3>2. ASSUME Base(u, f)'
          PROVE  /\ globally'[f] /\ f \in RoleFeatureKeys(users[u].role)'
                 /\ OrganizationAllows(users[u].organization, f)'
      <4>1. users[u].organization # 0
        BY <2>4, AccountsHavePairs
      <4>2. PICK r \in RolesOf(u)' : f \in RoleFeatureKeys(r)'
        BY <3>2 DEF Base
      <4>3. r = users[u].role /\ users'[u].role = users[u].role
            /\ users'[u].organization = users[u].organization
        BY <2>2, <3>1, <4>2
      <4> QED
        BY <2>2, <3>1, <3>2, <4>1, <4>2, <4>3 DEF Base
    <3>3. f \in RoleFeatureKeys(users[u].role) /\ OrganizationAllows(users[u].organization, f)
          => (globally[f] => Base(u, f))
      BY <3>1 DEF Base
    <3> QED
      BY <2>4, <3>2, <3>3
  <2> QED
    BY <2>3, <2>4
<1>2. UserOverride(u, f)' # {FALSE}
  BY DEF Effective
<1> QED
  BY <1>1, <1>2 DEF Effective

\* What a row written for a pair says when it says no.
LEMMA DisabledOpensNothing ==
    ASSUME Typed, NEW s \in Slots, CommitSetFeature(s), ~request[s].enabled,
           NEW scope, NEW f, <<scope, f>> \in Pairs
    PROVE  /\ Override(scope, f)' = Override(scope, f) \/ Override(scope, f)' = {FALSE}
           /\ f \in Enabled(scope)' => f \in Enabled(scope)
<1> DEFINE p == <<scope, f>>
<1>1. request[s] \in [kind : {"grant"}, scope : Scopes, item : Features,
                     enabled : BOOLEAN, row : Nat, writes : BOOLEAN]
  BY RequestKinds DEF CommitSetFeature, Typed
<1>2. PICK n \in Nat, e \in BOOLEAN, w \in BOOLEAN :
         n = request[s].row /\ e = request[s].enabled /\ w = request[s].writes
  BY <1>1
<1>3. CASE p # <<request[s].scope, request[s].item>>
  <2>1. overrides'[p] = overrides[p]
    BY <1>3 DEF CommitSetFeature, Typed, AccessTypeOK
  <2> QED
    BY <2>1 DEF Override, Enabled
<1>4. CASE p = <<request[s].scope, request[s].item>>
  <2>1. PICK rows \in Seq(BOOLEAN) : rows = overrides[p]
    BY DEF Typed, AccessTypeOK
  <2>2. PICK more : more = WithGrant(request[s])
    OBVIOUS
  <2>3. overrides'[p] = more
    BY <1>4, <2>2 DEF CommitSetFeature, Typed, AccessTypeOK
  <2>4. more = IF n = 0 THEN Append(rows, e) ELSE IF w THEN [rows EXCEPT ![n] = e] ELSE rows
    BY <1>2, <1>4, <2>1, <2>2 DEF WithGrant
  <2>5. n <= Len(rows) /\ Len(rows) \in Nat
    BY <1>2, <1>4, <2>1, LenProperties DEF CommitSetFeature, Typed, GrantsRead
  <2>6. /\ more \in Seq(BOOLEAN) /\ Len(more) # 0
        /\ \A k \in 1 .. Len(more) : more[k] = e \/ (k \in 1 .. Len(rows) /\ more[k] = rows[k])
        /\ more[Len(more)] = e \/ (Len(rows) # 0 /\ more[Len(more)] = rows[Len(rows)])
    <3>1. CASE n = 0
      <4>1. /\ Append(rows, e) \in Seq(BOOLEAN) /\ Len(Append(rows, e)) = Len(rows) + 1
            /\ \A k \in 1 .. Len(rows) : Append(rows, e)[k] = rows[k]
            /\ Append(rows, e)[Len(rows) + 1] = e
        BY AppendProperties
      <4>2. more = Append(rows, e)
        BY <2>4, <3>1
      <4>3. ASSUME NEW k \in 1 .. Len(rows) + 1
            PROVE  k \in 1 .. Len(rows) \/ k = Len(rows) + 1
        BY <2>5
      <4>4. Len(rows) + 1 # 0
        BY <2>5
      <4> QED
        BY <4>1, <4>2, <4>3, <4>4
    <3>3. CASE n # 0 /\ ~w
      <4>1. more = rows /\ Len(rows) # 0
        BY <2>4, <2>5, <3>3
      <4> QED
        BY <4>1
    <3>2. CASE n # 0 /\ w
      <4>1. n \in 1 .. Len(rows) /\ Len(rows) \in 1 .. Len(rows)
        BY <2>5, <3>2
      <4>2. /\ [rows EXCEPT ![n] = e] \in Seq(BOOLEAN)
            /\ Len([rows EXCEPT ![n] = e]) = Len(rows)
            /\ \A k \in 1 .. Len(rows) :
                 [rows EXCEPT ![n] = e][k] = IF k = n THEN e ELSE rows[k]
        BY <4>1, ExceptSeq
      <4>3. more = [rows EXCEPT ![n] = e]
        BY <2>4, <3>2
      <4>4. Len(rows) # 0
        BY <4>1
      <4> QED
        BY <4>1, <4>2, <4>3, <4>4
    <3> QED
      BY <3>1, <3>2, <3>3
  <2>7. ~e
    BY <1>2
  <2>8. /\ rows = <<>> <=> Len(rows) = 0
        /\ more = <<>> <=> Len(more) = 0
        /\ DOMAIN rows = 1 .. Len(rows) /\ DOMAIN more = 1 .. Len(more)
    BY <2>6, EmptySeq, LenProperties
  <2>9. Override(scope, f)' = {more[Len(more)]}
    BY <2>3, <2>6, <2>8 DEF Override
  <2>10. Override(scope, f)' = Override(scope, f) \/ Override(scope, f)' = {FALSE}
    <3>1. CASE more[Len(more)] = e
      <4>1. e = FALSE
        BY <2>7
      <4> QED
        BY <2>9, <3>1, <4>1
    <3>2. CASE Len(rows) # 0 /\ more[Len(more)] = rows[Len(rows)]
      <4>1. Override(scope, f) = {rows[Len(rows)]}
        BY <2>1, <2>8, <3>2 DEF Override
      <4> QED
        BY <2>9, <3>2, <4>1
    <3> QED
      BY <2>6, <3>1, <3>2
  <2>11. f \in Enabled(scope)' => f \in Enabled(scope)
    BY <2>1, <2>3, <2>6, <2>7, <2>8 DEF Enabled
  <2> QED
    BY <2>10, <2>11
<1> QED
  BY <1>3, <1>4

\* An account gains by a committed change only what the change grants to it.
LEMMA CommitOpens ==
    ASSUME Typed, NEW s \in Slots, CommitSetFeature(s), NEW u \in Users, NEW f \in Features,
           ~Effective(u, f), Effective(u, f)'
    PROVE  /\ request[s].kind = "grant" /\ request'[s] = Idle /\ request[s].item = f
           /\ request[s].scope \in {<<"role", users[u].role>>, <<"user", u>>,
                                   <<"organization", users[u].organization>>}
           /\ request[s].enabled
<1> DEFINE q == <<request[s].scope, request[s].item>>
           mine == {<<"role", users[u].role>>, <<"user", u>>,
                    <<"organization", users[u].organization>>}
<1>1. /\ request[s].kind = "grant" /\ request'[s] = Idle
      /\ UNCHANGED <<stored, globally, users>>
      /\ overrides' = [overrides EXCEPT ![q] = WithGrant(request[s])]
  BY DEF CommitSetFeature, End, Typed, AccessTypeOK
<1>2. request[s].enabled \in BOOLEAN
  BY <1>1, RequestKinds DEF Typed
<1>3. ASSUME NEW scope \in mine, <<scope, f>> \in Pairs, request[s].enabled => q # <<scope, f>>
      PROVE  /\ Override(scope, f)' = Override(scope, f) \/ Override(scope, f)' = {FALSE}
             /\ f \in Enabled(scope)' => f \in Enabled(scope)
  <2>1. CASE q # <<scope, f>>
    <3>1. overrides'[<<scope, f>>] = overrides[<<scope, f>>]
      BY <1>1, <1>3, <2>1 DEF Typed, AccessTypeOK
    <3> QED
      BY <3>1 DEF Override, Enabled
  <2>2. CASE ~request[s].enabled
    BY <1>3, <2>2, DisabledOpensNothing
  <2> QED
    BY <1>3, <2>1, <2>2
<1>4. ASSUME request[s].enabled => \A scope \in mine : q # <<scope, f>>
      PROVE  FALSE
  <2>1. UserOverride(u, f)' = UserOverride(u, f) \/ UserOverride(u, f)' = {FALSE}
    BY <1>3, <1>4, AccountsHavePairs DEF UserOverride
  <2>2. ASSUME users[u] # Nobody
        PROVE  /\ f \in RoleFeatureKeys(users[u].role)' => f \in RoleFeatureKeys(users[u].role)
               /\ OrganizationAllows(users[u].organization, f)' =>
                     OrganizationAllows(users[u].organization, f)
    BY <1>1, <1>3, <1>4, <2>2, AccountsHavePairs DEF RoleFeatureKeys, OrganizationAllows
  <2> QED
    BY <1>1, <2>1, <2>2, HiddenStays
<1>5. request[s].enabled /\ \E scope \in mine : q = <<scope, f>>
  BY <1>4
<1> QED
  BY <1>1, <1>5

\* A boot gives an account only a default of its role that had no row yet.
LEMMA SeedOpens ==
    ASSUME Typed, Governed, NEW b \in Boots, SeedWrite(b), SeedRows(b),
           NEW u \in Users, NEW f \in Features, ~Effective(u, f), Effective(u, f)'
    PROVE  LET p == <<<<"role", users[u].role>>, f>> IN
           /\ p \in Pairs
           /\ Len(overrides'[p]) > Len(overrides[p])
           /\ overrides[p] = <<>> \/ p \in overlapped'
<1>1. /\ Seeding(b, "write")
      /\ overrides' = Inserted(overrides, boots[b].rows)
      /\ overlapped \subseteq overlapped'
      /\ UNCHANGED <<globally, users>>
  BY DEF SeedWrite, SeedRows
<1>2. boots[b].rows \subseteq Grants
  BY <1>1, SeedingWrites DEF Typed
<1>3. ASSUME NEW scope, NEW item, scope[1] \notin {"permission", "role"}, <<scope, item>> \in Pairs
      PROVE  Override(scope, item)' = Override(scope, item)
  <2>1. ASSUME NEW g \in Grants
        PROVE  PairOf(g) # <<scope, item>>
    <3>1. g[1] \in {"permission", "role"}
      BY GrantsAssumption
    <3>2. PairOf(g)[1][1] = g[1]
      BY DEF PairOf
    <3> QED
      BY <1>3, <3>1, <3>2
  <2>2. overrides'[<<scope, item>>] = overrides[<<scope, item>>]
    <3>1. PICK o \in Pairs : o = <<scope, item>>
      BY <1>3
    <3>2. \A g \in boots[b].rows : PairOf(g) # o
      BY <1>2, <2>1, <3>1
    <3> QED
      BY <1>1, <3>1, <3>2, InsertedGrows DEF Typed, AccessTypeOK
  <2> QED
    BY <2>2 DEF Override
<1>4. /\ UserOverride(u, f)' = UserOverride(u, f)
      /\ users[u] # Nobody =>
           OrganizationAllows(users[u].organization, f)' =
             OrganizationAllows(users[u].organization, f)
  BY <1>1, <1>3, AccountsHavePairs DEF UserOverride, OrganizationAllows
<1> DEFINE p == <<<<"role", users[u].role>>, f>>
<1>5. ASSUME users[u] # Nobody => overrides'[p] = overrides[p]
      PROVE  FALSE
  <2>1. ASSUME users[u] # Nobody
        PROVE  f \in RoleFeatureKeys(users[u].role)' <=> f \in RoleFeatureKeys(users[u].role)
    BY <1>1, <1>5, <2>1 DEF RoleFeatureKeys, Enabled
  <2>2. f \notin stored
    BY <1>1, <1>4, <2>1, HiddenStays
  <2>3. ASSUME NEW scope, <<scope, f>> \in Pairs
        PROVE  overrides[<<scope, f>>] = <<>>
    <3>1. Len(overrides[<<scope, f>>]) = 0
      BY <2>2, <2>3 DEF Governed, KeysKnown
    <3> QED
      BY <2>3, <3>1, RowLengths DEF Typed
  <2>4. UserOverride(u, f) = {}
    BY <2>3, AccountsHavePairs DEF UserOverride, Override
  <2>5. Base(u, f)'
    BY <1>4, <2>4 DEF Effective
  <2>6. PICK r \in RolesOf(u)' : f \in RoleFeatureKeys(r)'
    BY <2>5 DEF Base
  <2>7. users[u] # Nobody /\ r = users[u].role
    BY <1>1, <2>6, GrantsAssumption DEF RolesOf, HasAccount
  <2>8. f \in RoleFeatureKeys(users[u].role)
    BY <1>1, <2>1, <2>6, <2>7
  <2>9. p \in Pairs /\ overrides[p] = <<>>
    BY <2>3, <2>7, AccountsHavePairs
  <2>10. Len(overrides[p]) = 0 /\ DOMAIN overrides[p] = 1 .. Len(overrides[p])
    BY <2>9, RowLengths, LenProperties DEF Typed
  <2> QED
    BY <2>8, <2>10 DEF RoleFeatureKeys, Enabled
<1>6. users[u] # Nobody /\ overrides'[p] # overrides[p] /\ p \in Pairs
  BY <1>5, AccountsHavePairs
<1>7. \E g \in boots[b].rows : PairOf(g) = p
  BY <1>1, <1>6, InsertedGrows DEF Typed, AccessTypeOK
<1>8. Len(overrides'[p]) = Len(overrides[p]) + 1 /\ Len(overrides[p]) \in Nat
  BY <1>1, <1>6, <1>7, InsertedGrows, RowLengths DEF Typed, AccessTypeOK
<1>9. overrides[p] = <<>> \/ p \in overlapped'
  <2> SUFFICES ASSUME p \notin overlapped
               PROVE  overrides[p] = <<>>
    BY <1>1
  <2>1. Seeds(b, p)
    BY <1>1, <1>7 DEF Seeds
  <2>2. Len(overrides[p]) \in {0, 1} /\ Len(overrides[p]) # 1
    BY <1>6, <2>1 DEF Governed, OneRow
  <2>3. Len(overrides[p]) = 0
    BY <2>2
  <2> QED
    BY <1>6, <2>3, RowLengths DEF Typed
<1> QED
  BY <1>6, <1>8, <1>9

(***************************************************************************)
(* Whatever the defaults, the boots and the administrators: an account     *)
(* gains a feature only by a grant or override committed in that step, the *)
(* global switch, its own row, or a default nobody had decided yet         *)
(* (get_effective_features, seed_feature_defaults).                        *)
(***************************************************************************)
THEOREM FeaturesOpenForAReason == AccessSpec => OpensForAReason
<1>1. ASSUME Settled, [AccessNext]_rightsVars
      PROVE  GainsForAReason
  <2> SUFFICES ASSUME NEW u \in Users, NEW f \in Features,
                      f \in Entitlements(u).features', f \notin Entitlements(u).features,
                      globally'[f] = globally[f], users'[u] = users[u]
               PROVE  \/ \E s \in Slots :
                           /\ request[s].kind = "grant" /\ request'[s] = Idle
                           /\ request[s].item = f
                           /\ request[s].scope \in
                                  {<<"role", users[u].role>>, <<"user", u>>,
                                   <<"organization", users[u].organization>>}
                           /\ request[s].enabled
                      \/ LET p == <<<<"role", users[u].role>>, f>> IN
                         /\ p \in Pairs
                         /\ Len(overrides'[p]) > Len(overrides[p])
                         /\ overrides[p] = <<>> \/ p \in overlapped'
    BY DEF GainsForAReason
  <2>1. Effective(u, f)' /\ ~Effective(u, f) /\ Typed /\ Governed
    <3>1. /\ Entitlements(u).features = {g \in Features : Effective(u, g)}
          /\ Entitlements(u).features' = {g \in Features : Effective(u, g)'}
      BY DEF Entitlements
    <3> QED
      BY <1>1, <3>1 DEF Settled
  <2>2. CASE \E s \in Slots : CommitSetFeature(s)
    BY <2>1, <2>2, CommitOpens
  <2>3. CASE \E b \in Boots : SeedWrite(b) /\ SeedRows(b)
    BY <2>1, <2>3, SeedOpens
  <2>4. ASSUME UNCHANGED <<stored, overrides>>
        PROVE  FALSE
    <3>1. /\ UserOverride(u, f)' = UserOverride(u, f)
          /\ \A r : RoleFeatureKeys(r)' = RoleFeatureKeys(r)
          /\ \A o : OrganizationAllows(o, f)' = OrganizationAllows(o, f)
      BY <2>4 DEF UserOverride, RoleFeatureKeys, OrganizationAllows, Override, Enabled
    <3>2. users'[u].role = users[u].role /\ users'[u].organization = users[u].organization
      OBVIOUS
    <3> QED
      BY <2>1, <2>4, <3>1, <3>2, HiddenStays
  <2>5. \/ \E s \in Slots : CommitSetFeature(s)
        \/ \E b \in Boots : SeedWrite(b) /\ SeedRows(b)
        \/ UNCHANGED <<stored, overrides>>
    <3>1. ASSUME NEW b \in Boots, Booting(b)
          PROVE  UNCHANGED <<stored, overrides>> \/ (SeedWrite(b) /\ SeedRows(b))
      BY <3>1 DEF Booting, Start, SeedRead, SeedWrite, SeedSetting, SeedConflict, rightsTables
    <3>2. ASSUME NEW s \in Slots, Committing(s)
          PROVE  UNCHANGED <<stored, overrides>> \/ CommitSetFeature(s)
      BY <3>2 DEF Committing, CreateInline, SaveUser, CommitCreateOrganization,
         CommitSetSetting, Fail, rightsTables
    <3>3. ASSUME NEW c \in Callers \cup Users, Editing(c)
          PROVE  UNCHANGED <<stored, overrides>>
      <4>1. ASSUME NEW s, NEW permission, NEW record, Begin(s, c, permission, record)
            PROVE  UNCHANGED <<stored, overrides>>
        BY <4>1 DEF Begin, rightsTables
      <4>2. CASE \/ \E g \in Features, b \in BOOLEAN : SetGlobal(c, g, b)
                 \/ \E o \in DOMAIN names, n \in Names : RenameOrganization(c, o, n)
        BY <4>2 DEF SetGlobal, RenameOrganization
      <4>3. CASE \E s \in Slots, scope \in Scopes, g \in Features, b \in BOOLEAN :
                   BeginSetFeature(s, c, scope, g, b)
        BY <4>1, <4>3 DEF BeginSetFeature
      <4>4. CASE \E s \in Slots, v \in Users, r \in Roles \cup {Keep}, n \in Names \cup {Keep} :
                   BeginCreateUser(s, c, v, r, n) \/ BeginUpdateUser(s, c, v, r, n)
        BY <4>1, <4>4 DEF BeginCreateUser, BeginUpdateUser
      <4>5. CASE \E s \in Slots : \/ \E n \in Names : BeginCreateOrganization(s, c, n)
                                  \/ \E v \in Values : BeginSetSetting(s, c, v)
        BY <4>1, <4>5 DEF BeginCreateOrganization, BeginSetSetting
      <4> QED
        BY <3>3, <4>2, <4>3, <4>4, <4>5 DEF Editing
    <3>4. CASE UNCHANGED rightsVars
      BY <3>4 DEF rightsVars, rightsTables
    <3> QED
      BY <1>1, <3>1, <3>2, <3>3, <3>4 DEF AccessNext
  <2> QED
    BY <2>2, <2>3, <2>4, <2>5
<1> QED
  BY <1>1, AlwaysSettled, PTL DEF AccessSpec, OpensForAReason

-----------------------------------------------------------------------------
(* Opportunities: types *)

OpportunityMarkets == {row.market : row \in RecordRows \cup SignalRows}
Candidates ==
    [type : {"HEDGE", "NEW"}, market : OpportunityMarkets, signals : SUBSET Nat, view : Nat,
     record : Nat, lead : Nat]
OfferRows ==
    [organization : Organizations, draft : Candidates,
     status : {"PENDING", "APPROVED", "REJECTED"}, reviewed_by : People \cup Admins \cup {NoReviewer}]

\* A job that gathers and saves, and one whose idea is on its way to the committee.
Gathering ==
    [phase : {"datasets", "positions", "views", "saving"}, organization : Organizations,
     rest : SUBSET Organizations, idea : TradeIdeas \cup {NoIdea},
     unchecked : SUBSET Datasets, unread : SUBSET Datasets,
     positions : SUBSET Nat, seen : SUBSET Nat,
     drafts : SUBSET Candidates, unsaved : SUBSET Candidates]
Annotated ==
    [phase : {"committee"}, organization : Organizations, idea : TradeIdeas,
     supports : SUBSET Nat, risks : SUBSET Nat]

TablesTypeOK ==
    /\ datasets \subseteq Datasets
    /\ records \in Seq(RecordRows) /\ signals \in Seq(SignalRows) /\ views \in Seq(ViewRows)
OpportunitiesTypeOK ==
    /\ TablesTypeOK
    /\ offers \in Seq(OfferRows)
    /\ job \in [Jobs -> {NoJob} \cup Gathering \cup Annotated]

-----------------------------------------------------------------------------
(* What the engine drafts of what it is given *)

\* A set of numbers has a least one.
LEMMA LeastNumber ==
    ASSUME NEW some \in SUBSET Nat, some # {}
    PROVE  \E n \in some : \A m \in some : n <= m
<1> DEFINE below(n) == 0 .. n - 1
           belows == {below(n) : n \in some}
           smaller == StrictSubsetOrdering(Nat)
<1>1. IsWellFoundedOn(smaller, FiniteSubsetsOf(Nat))
  BY FS_StrictSubsetOrderingWellFounded
<1>2. \A n \in some : IsFiniteSet(below(n)) /\ below(n) \in SUBSET Nat
  BY FS_Interval
<1>3. belows \subseteq FiniteSubsetsOf(Nat) /\ belows # {}
  BY <1>2 DEF FiniteSubsetsOf
<1> HIDE DEF smaller
<1>4. PICK x \in belows : \A y \in belows : ~ (<<y, x>> \in smaller)
  <2> HIDE DEF belows
  <2> QED
    BY <1>1, <1>3, WFMin
<1>5. PICK n \in some : x = below(n)
  OBVIOUS
<1>6. ASSUME NEW m \in some, m < n
      PROVE  FALSE
  <2>1. below(m) \subseteq below(n) /\ m \in below(n) /\ m \notin below(m)
    BY <1>6
  <2>2. <<below(m), below(n)>> \in StrictSubsetOrdering(Nat)
    <3> HIDE DEF below
    <3> QED
      BY <2>1, <1>2 DEF StrictSubsetOrdering
  <2> QED
    BY <2>2, <1>4, <1>5 DEF smaller
<1> QED
  BY <1>6

\* Some signal leads: none found is more material, none as material is newer.
LEMMA TopLeads ==
    ASSUME NEW found \in SUBSET DOMAIN signals, found # {}, TablesTypeOK
    PROVE  /\ Top(found) \in found
           /\ \A s \in found : signals[s].materiality <= signals[Top(found)].materiality
<1> DEFINE n == Len(signals)
           short == {100 - signals[s].materiality : s \in found}
<1>1. n \in Nat /\ found \subseteq 1 .. n /\ \A s \in found : signals[s] \in SignalRows
  BY DEF TablesTypeOK
<1>0. \A s \in found : signals[s].materiality \in 0 .. 100 /\ signals[s].materiality \in Int
  <2> SUFFICES ASSUME NEW s \in found
               PROVE  signals[s].materiality \in 0 .. 100 /\ signals[s].materiality \in Int
    OBVIOUS
  <2>1. signals[s].materiality \in 0 .. 100
    BY <1>1, SignalAssumption
  <2> QED
    BY <2>1
<1>2. short \in SUBSET Nat /\ short # {}
  <2>1. \A s \in found : 100 - signals[s].materiality \in Nat
    BY <1>0
  <2> QED
    BY <2>1
<1>3. PICK m \in short : \A x \in short : m <= x
  BY <1>2, LeastNumber
<1> DEFINE best == {s \in found : 100 - signals[s].materiality = m}
           age == {n - s : s \in best}
<1>4. age \in SUBSET Nat /\ age # {}
  BY <1>1
<1>5. PICK a \in age : \A x \in age : a <= x
  <2> HIDE DEF age
  <2> QED
    BY <1>4, LeastNumber
<1>6. PICK s \in best : a = n - s
  OBVIOUS
<1>7. \A t \in found \ {s} : \/ signals[t].materiality < signals[s].materiality
                             \/ signals[t].materiality = signals[s].materiality /\ t < s
  <2> SUFFICES ASSUME NEW t \in found \ {s}
               PROVE  \/ signals[t].materiality < signals[s].materiality
                      \/ signals[t].materiality = signals[s].materiality /\ t < s
    OBVIOUS
  <2>1. m <= 100 - signals[t].materiality /\ m = 100 - signals[s].materiality
    BY <1>3
  <2>4. /\ signals[t].materiality \in Int /\ signals[s].materiality \in Int
        /\ t \in Int /\ s \in Int /\ n \in Int /\ t # s
    BY <1>0, <1>1
  <2>2. CASE t \in best
    <3>1. n - s <= n - t
      BY <1>5, <1>6, <2>2
    <3>2. 100 - signals[t].materiality = m
      BY <2>2
    <3> HIDE DEF best, age, short, n
    <3> QED
      BY <3>1, <3>2, <2>1, <2>4
  <2>3. CASE t \notin best
    <3>1. 100 - signals[t].materiality # m
      BY <2>3
    <3> HIDE DEF best, age, short, n
    <3> QED
      BY <3>1, <2>1, <2>4
  <2> QED
    BY <2>2, <2>3
<1>8. /\ Top(found) \in found
      /\ \A t \in found \ {Top(found)} :
           \/ signals[t].materiality < signals[Top(found)].materiality
           \/ signals[t].materiality = signals[Top(found)].materiality /\ t < Top(found)
  BY <1>7 DEF Top
<1>9. ASSUME NEW s1 \in found
      PROVE  signals[s1].materiality <= signals[Top(found)].materiality
  <2>1. signals[s1].materiality \in Int /\ signals[Top(found)].materiality \in Int
    BY <1>0, <1>8
  <2> QED
    BY <1>8, <2>1
<1> QED
  BY <1>8, <1>9

\* What is drafted of positions, signals and views: typed, and about these alone.
LEMMA DraftsAreTyped ==
    ASSUME TablesTypeOK, NEW P \in SUBSET DOMAIN records, NEW S \in SUBSET DOMAIN signals,
           NEW V \in SUBSET DOMAIN views, NEW c \in Generated(P, S, V)
    PROVE  /\ c \in Candidates
           /\ c.record # 0 => c.record \in P
           /\ c.view # 0 => c.view \in V
           /\ c.signals \subseteq S
<1>1. /\ DOMAIN records \subseteq Nat \ {0} /\ DOMAIN signals \subseteq Nat \ {0}
      /\ DOMAIN views \subseteq Nat \ {0}
      /\ \A r \in DOMAIN records : records[r] \in RecordRows
      /\ \A s \in DOMAIN signals : signals[s] \in SignalRows
  BY DEF TablesTypeOK
<1>2. CASE c \in HedgeCandidates(P, V)
  <2>1. PICK p \in P \X V : c = Candidate("HEDGE", records[p[1]].market, {}, p[2], p[1], 0)
    BY <1>2 DEF HedgeCandidates
  <2>2. records[p[1]].market \in OpportunityMarkets
    BY <1>1 DEF OpportunityMarkets
  <2> QED
    BY <1>1, <2>1, <2>2 DEF Candidate, Candidates
<1>3. CASE c \in NewPositionCandidates(P, S)
  <2>1. PICK m \in {signals[s].market : s \in S} :
          Material(S, m) # {} /\ c = Candidate("NEW", m, Material(S, m), 0, 0, Top(Material(S, m)))
    BY <1>3 DEF NewPositionCandidates
  <2>2. m \in OpportunityMarkets
    BY <1>1 DEF OpportunityMarkets
  <2>3. Material(S, m) \subseteq S
    BY DEF Material
  <2>4. Top(Material(S, m)) \in Nat
    BY <1>1, <2>1, <2>3, TopLeads
  <2> QED
    BY <1>1, <2>1, <2>2, <2>3, <2>4 DEF Candidate, Candidates
<1> QED
  BY <1>2, <1>3 DEF Generated

\* The records that are an organization's positions, all at once.
PositionsOf(o) == {r \in DOMAIN records : IsPositionOf(r, o)}

\* Positions are records, and what is visible is in the tables.
LEMMA PositionsAreRecords ==
    ASSUME NEW o
    PROVE  /\ PositionsOf(o) \subseteq DOMAIN records
           /\ VisibleTo(o, signals) \subseteq DOMAIN signals
           /\ VisibleTo(o, views) \subseteq DOMAIN views
  BY DEF PositionsOf, VisibleTo

\* A hedge is drafted of a position and a view when it is due, and only then.
LEMMA HedgesAreDue ==
    ASSUME TablesTypeOK, NEW o,
           NEW r \in DOMAIN records, NEW v \in DOMAIN views
    PROVE  /\ r \in PositionsOf(o)
           /\ v \in LatestView(VisibleTo(o, views), records[r].market)
           /\ views[v].confident
           /\ Misaligned(records[r].direction, views[v].lean)
           <=> /\ views[v].organization \in {o, Platform}
               /\ HedgeDue(o, [record |-> r, view |-> v])
<1>1. DOMAIN views \subseteq Nat
  BY DEF TablesTypeOK
<1>2. v \in LatestView(VisibleTo(o, views), records[r].market)
        <=> /\ views[v].organization \in {o, Platform}
            /\ views[v].market = records[r].market
            /\ \A w \in DOMAIN views :
                 w > v /\ views[w].market = views[v].market =>
                   views[w].organization \notin {o, Platform}
  BY <1>1 DEF LatestView, VisibleTo
<1> QED
  BY <1>2 DEF HedgeDue, PositionsOf

\* Whether a hedge is due is a matter of its position and its view.
LEMMA HedgeDueOfPair ==
    ASSUME NEW o, NEW c, NEW d, c.record = d.record, c.view = d.view, HedgeDue(o, d)
    PROVE  HedgeDue(o, c)
  BY DEF HedgeDue

\* What is drafted of everything read at once is what is due.
LEMMA DraftsFollow ==
    ASSUME TablesTypeOK, NEW o, NEW D,
           D = Generated(PositionsOf(o), VisibleTo(o, signals), VisibleTo(o, views))
    PROVE  /\ \A c \in D : IF c.type = "HEDGE" THEN HedgeDue(o, c) ELSE NewDue(o, c)
           /\ \A r \in DOMAIN records, v \in DOMAIN views :
                /\ views[v].organization \in {o, Platform}
                /\ HedgeDue(o, [record |-> r, view |-> v])
                => \E c \in D : c.record = r /\ c.view = v
           /\ \A s \in DOMAIN signals :
                /\ signals[s].organization \in {o, Platform}
                /\ signals[s].materiality >= MinMateriality /\ signals[s].direction # "NEUTRAL"
                => \/ \E c \in D : s \in c.signals
                   \/ \E r \in DOMAIN records :
                        IsPositionOf(r, o) /\ records[r].market = signals[s].market
<1> DEFINE P == PositionsOf(o)
           S == VisibleTo(o, signals)
           V == VisibleTo(o, views)
<1>0. /\ P \subseteq DOMAIN records /\ S \subseteq DOMAIN signals /\ V \subseteq DOMAIN views
      /\ \A s \in DOMAIN signals : signals[s] \in SignalRows
  BY PositionsAreRecords DEF TablesTypeOK
<1>1. ASSUME NEW c \in HedgeCandidates(P, V)
      PROVE  c.type = "HEDGE" /\ HedgeDue(o, c)
  <2>1. PICK p \in P \X V :
          /\ p[2] \in LatestView(V, records[p[1]].market)
          /\ views[p[2]].confident /\ Misaligned(records[p[1]].direction, views[p[2]].lean)
          /\ c = Candidate("HEDGE", records[p[1]].market, {}, p[2], p[1], 0)
    BY DEF HedgeCandidates
  <2>2. HedgeDue(o, [record |-> p[1], view |-> p[2]])
    BY <1>0, <2>1, HedgesAreDue
  <2>3. c.type = "HEDGE" /\ c.record = p[1] /\ c.view = p[2]
    BY <2>1 DEF Candidate
  <2> QED
    BY <2>2, <2>3, HedgeDueOfPair
<1>2. ASSUME NEW m
      PROVE  Material(S, m) =
               {s \in DOMAIN signals :
                  /\ signals[s].organization \in {o, Platform}
                  /\ signals[s].market = m
                  /\ signals[s].materiality >= MinMateriality
                  /\ signals[s].direction # "NEUTRAL"}
  BY <1>0, SignalAssumption DEF Material, VisibleTo
<1>3. ASSUME NEW c \in NewPositionCandidates(P, S)
      PROVE  c.type # "HEDGE" /\ NewDue(o, c)
  <2>1. PICK m \in {signals[s].market : s \in S} \ MarketsHeld(P) :
          Material(S, m) # {} /\ c = Candidate("NEW", m, Material(S, m), 0, 0, Top(Material(S, m)))
    BY <1>3 DEF NewPositionCandidates
  <2>2. /\ c.type = "NEW" /\ c.market = m /\ c.signals = Material(S, m)
        /\ c.lead = Top(Material(S, m))
    BY <2>1 DEF Candidate
  <2>3. Material(S, m) \subseteq DOMAIN signals
    BY <1>0 DEF Material
  <2>4. /\ c.lead \in c.signals
        /\ \A s \in c.signals : signals[s].materiality <= signals[c.lead].materiality
    BY <2>1, <2>2, <2>3, TopLeads
  <2>5. \A r \in DOMAIN records : IsPositionOf(r, o) => records[r].market # c.market
    BY <2>1, <2>2 DEF MarketsHeld, PositionsOf
  <2> QED
    BY <1>2, <2>1, <2>2, <2>4, <2>5 DEF NewDue
<1>4. ASSUME NEW r \in DOMAIN records, NEW v \in DOMAIN views,
             views[v].organization \in {o, Platform},
             HedgeDue(o, [record |-> r, view |-> v])
      PROVE  \E c \in D : c.record = r /\ c.view = v
  <2>1. /\ r \in P /\ v \in V /\ v \in LatestView(V, records[r].market)
        /\ views[v].confident /\ Misaligned(records[r].direction, views[v].lean)
    <3>1. v \in V
      BY <1>4 DEF VisibleTo
    <3> QED
      BY <1>4, <3>1, HedgesAreDue
  <2> DEFINE c == Candidate("HEDGE", records[r].market, {}, v, r, 0)
  <2>2. <<r, v>> \in P \X V /\ <<r, v>>[1] = r /\ <<r, v>>[2] = v
    BY <2>1
  <2>3. c \in HedgeCandidates(P, V)
    <3> HIDE DEF P, V
    <3> QED
      BY <2>1, <2>2 DEF HedgeCandidates
  <2>4. c.record = r /\ c.view = v
    BY DEF Candidate
  <2> QED
    BY <2>3, <2>4 DEF Generated
<1>5. ASSUME NEW s \in DOMAIN signals,
             signals[s].organization \in {o, Platform},
             signals[s].materiality >= MinMateriality, signals[s].direction # "NEUTRAL",
             \A r \in DOMAIN records : ~ (IsPositionOf(r, o) /\ records[r].market = signals[s].market)
      PROVE  \E c \in D : s \in c.signals
  <2> DEFINE m == signals[s].market
             c == Candidate("NEW", m, Material(S, m), 0, 0, Top(Material(S, m)))
  <2>1. s \in Material(S, m)
    BY <1>2, <1>5
  <2>2. m \notin MarketsHeld(P)
    BY <1>5 DEF MarketsHeld, PositionsOf
  <2>3. s \in S
    BY <1>5 DEF VisibleTo
  <2>4. c \in NewPositionCandidates(P, S)
    <3> HIDE DEF P, S
    <3> QED
      BY <2>1, <2>2, <2>3 DEF NewPositionCandidates
  <2>5. c.signals = Material(S, m)
    BY DEF Candidate
  <2> QED
    BY <2>1, <2>4, <2>5 DEF Generated
<1>6. D = HedgeCandidates(P, V) \cup NewPositionCandidates(P, S)
  BY DEF Generated
<1> QED
  <2>1. \A c \in D : IF c.type = "HEDGE" THEN HedgeDue(o, c) ELSE NewDue(o, c)
    BY <1>1, <1>3, <1>6
  <2> QED
    BY <1>4, <1>5, <2>1

-----------------------------------------------------------------------------
(* What a job holds *)

OwnRecord(o, r) == r \in DOMAIN records /\ Owner[records[r].dataset] = o
OpenSignal(o, s) == s \in DOMAIN signals /\ signals[s].organization \in {o, Platform}
OpenView(o, v) == v \in DOMAIN views /\ views[v].organization \in {o, Platform}
OpenEvidence(o, c) ==
    /\ c.record # 0 => OwnRecord(o, c.record)
    /\ c.view # 0 => OpenView(o, c.view)
    /\ \A s \in c.signals : OpenSignal(o, s)

\* Whatever changed meanwhile: all a job has is its organization's or the platform's.
KeepsApart(j) ==
    LET h == job[j] IN
    h \in Gathering =>
        /\ \A d \in h.unchecked \cup h.unread : Owner[d] = h.organization
        /\ \A r \in h.positions : OwnRecord(h.organization, r)
        /\ \A s \in h.seen : OpenSignal(h.organization, s)
        /\ \A c \in h.drafts : OpenEvidence(h.organization, c)
        /\ h.unsaved \subseteq h.drafts
        /\ h.phase = "datasets" => h.unread = {} /\ h.positions = {}

\* What an organization's tables say at one moment.
PositionSources(o) ==
    {d \in DatasetsOf(o) \cap PositionDatasets : AgentIsEntitled(GrantsOn(d), PositionReader)}
PositionsBut(o, pending) == {r \in PositionsOf(o) : records[r].dataset \notin pending}
SignalsFor(o) == VisibleTo(o, signals)
ViewsFor(o) == VisibleTo(o, views)
DraftsFor(o) == Generated(PositionsOf(o), SignalsFor(o), ViewsFor(o))
SupportsFor(idea, o) == Corroborated(idea, PositionsOf(o), TRUE)
RisksFor(idea, o) == Corroborated(idea, PositionsOf(o), FALSE)

\* Unless they changed meanwhile, what was read piece by piece is what they say at once.
ReadsAsOne(j) ==
    LET h == job[j]
        o == h.organization
    IN
    j \notin stale =>
        /\ h.phase = "positions" =>
             /\ h.unchecked \subseteq DatasetsOf(o) \cap PositionDatasets
             /\ h.unread \subseteq PositionSources(o)
             /\ h.positions = PositionsBut(o, h.unchecked \cup h.unread)
        /\ h.phase = "views" => h.positions = PositionsOf(o) /\ h.seen = SignalsFor(o)
        /\ h.phase = "saving" => h.drafts = DraftsFor(o)
        /\ h.phase = "committee" =>
             h.supports = SupportsFor(h.idea, o) /\ h.risks = RisksFor(h.idea, o)

\* A stored opportunity: what it rests on, and that who decided it is named.
OffersApart(n) ==
    LET o == offers[n].organization IN
    /\ OpenEvidence(o, offers[n].draft)
    /\ offers[n].status = "PENDING" <=> offers[n].reviewed_by = NoReviewer

OpportunitiesInv ==
    /\ OpportunitiesTypeOK
    /\ \A j \in Jobs : KeepsApart(j) /\ ReadsAsOne(j)
    /\ \A n \in DOMAIN offers : OffersApart(n)

-----------------------------------------------------------------------------

\* Rows are only ever added.
TablesGrow ==
    /\ \A n \in DOMAIN records : n \in DOMAIN records' /\ records'[n] = records[n]
    /\ \A n \in DOMAIN signals : n \in DOMAIN signals' /\ signals'[n] = signals[n]
    /\ \A n \in DOMAIN views : n \in DOMAIN views' /\ views'[n] = views[n]

\* Evidence stays what it is.
LEMMA EvidenceStays ==
    ASSUME TablesGrow
    PROVE  /\ \A o, r : OwnRecord(o, r) => OwnRecord(o, r)'
           /\ \A o, s : OpenSignal(o, s) => OpenSignal(o, s)'
           /\ \A o, c : OpenEvidence(o, c) => OpenEvidence(o, c)'
<1>1. \A o, r : OwnRecord(o, r) => OwnRecord(o, r)'
  BY DEF TablesGrow, OwnRecord
<1>2. \A o, s : OpenSignal(o, s) => OpenSignal(o, s)'
  BY DEF TablesGrow, OpenSignal
<1>3. \A o, v : OpenView(o, v) => OpenView(o, v)'
  BY DEF TablesGrow, OpenView
<1>4. \A o, c : OpenEvidence(o, c) => OpenEvidence(o, c)'
  BY <1>1, <1>2, <1>3 DEF OpenEvidence
<1> QED
  BY <1>1, <1>2, <1>4

ReadTables == <<datasets, grants, records, signals, views>>

\* Tables that stay say the same.
LEMMA SameAnswers ==
    ASSUME UNCHANGED ReadTables
    PROVE  /\ \A o : /\ DatasetsOf(o)' = DatasetsOf(o)
                    /\ PositionSources(o)' = PositionSources(o)
                    /\ PositionsOf(o)' = PositionsOf(o)
                    /\ SignalsFor(o)' = SignalsFor(o)
                    /\ DraftsFor(o)' = DraftsFor(o)
           /\ \A o, pending : PositionsBut(o, pending)' = PositionsBut(o, pending)
           /\ \A idea, o : /\ SupportsFor(idea, o)' = SupportsFor(idea, o)
                          /\ RisksFor(idea, o)' = RisksFor(idea, o)
<1>1. /\ datasets' = datasets /\ grants' = grants /\ records' = records
      /\ signals' = signals /\ views' = views
  BY DEF ReadTables
<1>2. \A o : DatasetsOf(o)' = DatasetsOf(o)
  BY <1>1 DEF DatasetsOf
<1>3. \A d : GrantsOn(d)' = GrantsOn(d)
  BY <1>1 DEF GrantsOn
<1>4. \A o : PositionSources(o)' = PositionSources(o)
  BY <1>2, <1>3 DEF PositionSources
<1>5. \A r, o : IsPositionOf(r, o)' <=> IsPositionOf(r, o)
  BY <1>1 DEF IsPositionOf
<1>6. \A o : PositionsOf(o)' = PositionsOf(o)
  BY <1>1, <1>5 DEF PositionsOf
<1>7. \A o, pending : PositionsBut(o, pending)' = PositionsBut(o, pending)
  BY <1>1, <1>6 DEF PositionsBut
<1>8. \A o : SignalsFor(o)' = SignalsFor(o) /\ ViewsFor(o)' = ViewsFor(o)
  BY <1>1 DEF SignalsFor, ViewsFor, VisibleTo
<1>9. \A P, V : HedgeCandidates(P, V)' = HedgeCandidates(P, V)
  BY <1>1 DEF HedgeCandidates, LatestView
<1>10. \A P, S : NewPositionCandidates(P, S)' = NewPositionCandidates(P, S)
  BY <1>1 DEF NewPositionCandidates, Material, MarketsHeld, Top
<1>11. \A o : DraftsFor(o)' = DraftsFor(o)
  BY <1>6, <1>8, <1>9, <1>10 DEF DraftsFor, Generated
<1>12. \A idea, P : /\ Corroborated(idea, P, TRUE)' = Corroborated(idea, P, TRUE)
                    /\ Corroborated(idea, P, FALSE)' = Corroborated(idea, P, FALSE)
  BY <1>1 DEF Corroborated
<1>13. \A idea, o : /\ SupportsFor(idea, o)' = SupportsFor(idea, o)
                    /\ RisksFor(idea, o)' = RisksFor(idea, o)
  BY <1>6, <1>12 DEF SupportsFor, RisksFor
<1> QED
  BY <1>2, <1>4, <1>6, <1>7, <1>8, <1>11, <1>13

\* What is pending of an organization's positions, and what that leaves.
LEMMA PositionsAndSources ==
    ASSUME NEW o
    PROVE  /\ \A r \in DOMAIN records :
                r \in PositionsOf(o) <=> /\ records[r].dataset \in PositionSources(o)
                                       /\ records[r].market # NoMarket
           /\ PositionsBut(o, {}) = PositionsOf(o)
           /\ PositionsBut(o, DatasetsOf(o) \cap PositionDatasets) = {}
<1>1. \A r \in DOMAIN records :
        r \in PositionsOf(o) <=> /\ records[r].dataset \in PositionSources(o)
                               /\ records[r].market # NoMarket
  BY DEF PositionsOf, IsPositionOf, PositionSources, DatasetsOf, GrantsOn, AgentIsEntitled
<1>2. PositionsBut(o, {}) = PositionsOf(o)
  BY DEF PositionsBut
<1>3. PositionsBut(o, DatasetsOf(o) \cap PositionDatasets) = {}
  BY <1>1 DEF PositionsBut, PositionsOf, PositionSources
<1> QED
  BY <1>1, <1>2, <1>3

-----------------------------------------------------------------------------
(* Steps of a job *)

JobStates == {NoJob} \cup Gathering \cup Annotated

\* A job goes to x; what it may have read, and the other jobs, stay.
GoesTo(j, x) ==
    /\ UNCHANGED ReadTables
    /\ job' = [job EXCEPT ![j] = x]
    /\ \A k \in Jobs \ {j} : k \in stale' <=> k \in stale

\* What a step of j that stores nothing has to show for the invariant.
LEMMA JobStepKeeps ==
    ASSUME OpportunitiesInv, NEW j \in Jobs, NEW x \in JobStates, GoesTo(j, x),
           KeepsApart(j)', ReadsAsOne(j)'
    PROVE  /\ job' \in [Jobs -> JobStates]
           /\ TablesTypeOK'
           /\ TablesGrow
           /\ \A k \in Jobs : KeepsApart(k)' /\ ReadsAsOne(k)'
           /\ offers' = offers => OpportunitiesInv'
<1>1. job' \in [Jobs -> JobStates]
  BY DEF OpportunitiesInv, OpportunitiesTypeOK, JobStates, GoesTo
<1>2. TablesTypeOK'
  BY DEF OpportunitiesInv, OpportunitiesTypeOK, TablesTypeOK, GoesTo, ReadTables
<1>3. TablesGrow
  BY DEF TablesGrow, GoesTo, ReadTables
<1>4. ASSUME NEW k \in Jobs, k # j
      PROVE  KeepsApart(k)' /\ ReadsAsOne(k)'
  <2>1. job'[k] = job[k] /\ (k \in stale' <=> k \in stale)
    BY <1>4 DEF GoesTo, OpportunitiesInv, OpportunitiesTypeOK
  <2>2. KeepsApart(k) /\ ReadsAsOne(k)
    BY DEF OpportunitiesInv
  <2>3. KeepsApart(k)'
    BY <1>3, <2>1, <2>2, EvidenceStays DEF KeepsApart
  <2>4. ReadsAsOne(k)'
    <3>1. PICK h, o, idea, pending :
            h = job[k] /\ o = h.organization /\ idea = h.idea /\ pending = h.unchecked \cup h.unread
      OBVIOUS
    <3>2. /\ DatasetsOf(o)' = DatasetsOf(o) /\ PositionSources(o)' = PositionSources(o)
          /\ PositionsOf(o)' = PositionsOf(o) /\ SignalsFor(o)' = SignalsFor(o)
          /\ DraftsFor(o)' = DraftsFor(o) /\ PositionsBut(o, pending)' = PositionsBut(o, pending)
          /\ SupportsFor(idea, o)' = SupportsFor(idea, o)
          /\ RisksFor(idea, o)' = RisksFor(idea, o)
      BY SameAnswers DEF GoesTo
    <3> QED
      BY <2>1, <2>2, <3>1, <3>2 DEF ReadsAsOne
  <2> QED
    BY <2>3, <2>4
<1>5. ASSUME offers' = offers
      PROVE  \A n \in DOMAIN offers' : OffersApart(n)'
  BY <1>3, <1>5, EvidenceStays DEF OpportunitiesInv, OffersApart
<1> QED
  BY <1>1, <1>2, <1>3, <1>4, <1>5 DEF OpportunitiesInv, OpportunitiesTypeOK, JobStates

\* Where a job is says what it has.
LEMMA JobHasPhase ==
    ASSUME OpportunitiesInv, NEW j \in Jobs
    PROVE  /\ job[j].phase \in {"datasets", "positions", "views", "saving"} => job[j] \in Gathering
           /\ job[j].phase = "committee" => job[j] \in Annotated
           /\ job[j].phase \in {"idle", "datasets", "positions", "views", "saving", "committee"}
           /\ job[j].phase = "idle" <=> job[j] = NoJob
  BY DEF OpportunitiesInv, OpportunitiesTypeOK, Gathering, Annotated, NoJob

\* A step of j alone, to x.
LEMMA ProceedGoes ==
    ASSUME NEW j \in Jobs, NEW x, Proceed(j, x)
    PROVE  GoesTo(j, x) /\ offers' = offers /\ stale' = stale
  BY DEF Proceed, GoesTo, ReadTables, accessTables, opportunityTables

\* The job is where it went.
LEMMA JobIsAt ==
    ASSUME OpportunitiesInv, NEW j \in Jobs, NEW x, GoesTo(j, x)
    PROVE  job'[j] = x
  BY DEF OpportunitiesInv, OpportunitiesTypeOK, GoesTo

\* A job that has just begun holds nothing.
LEMMA StartedKeeps ==
    ASSUME OpportunitiesInv, NEW j \in Jobs, NEW o \in Organizations,
           NEW rest \in SUBSET Organizations, NEW idea \in TradeIdeas \cup {NoIdea},
           GoesTo(j, Started(o, rest, idea)), offers' = offers
    PROVE  OpportunitiesInv'
<1> DEFINE x == Started(o, rest, idea)
<1>1. job'[j] = x
  BY JobIsAt
<1>2. x \in JobStates
  BY DEF JobStates, Started, Gathering
<1>3. KeepsApart(j)'
  BY <1>1 DEF KeepsApart, Started
<1>4. ReadsAsOne(j)'
  BY <1>1 DEF ReadsAsOne, Started
<1> QED
  BY <1>2, <1>3, <1>4, JobStepKeeps

\* A job that has ended holds nothing.
LEMMA EndedKeeps ==
    ASSUME OpportunitiesInv, NEW j \in Jobs, GoesTo(j, NoJob), offers' = offers
    PROVE  OpportunitiesInv'
<1>1. job'[j] = NoJob /\ NoJob.phase = "idle" /\ NoJob \in JobStates
  BY JobIsAt DEF NoJob, JobStates
<1>2. (job[j] \notin Gathering)'
  BY <1>1 DEF Gathering
<1>3. KeepsApart(j)'
  BY <1>2 DEF KeepsApart
<1>4. ReadsAsOne(j)'
  BY <1>1 DEF ReadsAsOne
<1> QED
  BY <1>1, <1>3, <1>4, JobStepKeeps

\* A request or a cycle begins.
LEMMA StartsKeep ==
    ASSUME OpportunitiesInv, NEW j \in Jobs, NEW o \in Organizations,
           NEW rest \in SUBSET Organizations, NEW idea \in TradeIdeas \cup {NoIdea},
           StartJob(j, Started(o, rest, idea))
    PROVE  OpportunitiesInv'
<1>1. GoesTo(j, Started(o, rest, idea)) /\ offers' = offers
  BY DEF StartJob, GoesTo, ReadTables, accessTables, opportunityTables
<1> QED
  BY <1>1, StartedKeeps

\* The datasets are read: all of them are pending.
LEMMA LoadDatasetsKeeps ==
    ASSUME OpportunitiesInv, NEW j \in Jobs, LoadDatasets(j)
    PROVE  OpportunitiesInv'
<1> DEFINE h == job[j]
           o == h.organization
           x == [h EXCEPT !.phase = "positions", !.unchecked = DatasetsOf(o) \cap PositionDatasets]
<1>1. h.phase = "datasets" /\ GoesTo(j, x) /\ offers' = offers
  BY ProceedGoes DEF LoadDatasets
<1>2. h \in Gathering
  BY <1>1, JobHasPhase
<1>3. /\ x \in Gathering /\ x.phase = "positions" /\ x.organization = o
      /\ x.unchecked = DatasetsOf(o) \cap PositionDatasets /\ x.unread = {} /\ x.positions = {}
      /\ x.seen = h.seen /\ x.drafts = h.drafts /\ x.unsaved = h.unsaved
  <2>1. h.unread = {} /\ h.positions = {}
    BY <1>1, <1>2 DEF OpportunitiesInv, KeepsApart
  <2>2. DatasetsOf(o) \subseteq Datasets
    BY DEF OpportunitiesInv, OpportunitiesTypeOK, TablesTypeOK, DatasetsOf
  <2> QED
    BY <1>2, <2>1, <2>2 DEF Gathering
<1>4. job'[j] = x
  BY <1>1, JobIsAt
<1>5. TablesGrow
  BY <1>1 DEF TablesGrow, GoesTo, ReadTables
<1> HIDE DEF x
<1>6. KeepsApart(j)'
  <2>1. KeepsApart(j)
    BY DEF OpportunitiesInv
  <2>2. \A d \in DatasetsOf(o) : Owner[d] = o
    BY DEF DatasetsOf
  <2> QED
    BY <1>2, <1>3, <1>4, <1>5, <2>1, <2>2, EvidenceStays DEF KeepsApart
<1>7. ReadsAsOne(j)'
  <2>1. PICK c, q, y : c = o /\ q = DatasetsOf(o) \cap PositionDatasets /\ y = x
    OBVIOUS
  <2>2. DatasetsOf(c)' = DatasetsOf(c) /\ PositionsBut(c, q)' = {}
    BY <1>1, <2>1, SameAnswers, PositionsAndSources DEF GoesTo
  <2>3. /\ job'[j] = y /\ y.phase = "positions" /\ y.organization = c
        /\ y.unchecked = q /\ y.unread = {} /\ y.positions = {}
        /\ y.unchecked \cup y.unread = q
    BY <1>3, <1>4, <2>1
  <2> QED
    BY <2>1, <2>2, <2>3 DEF ReadsAsOne
<1> QED
  BY <1>1, <1>3, <1>4, <1>6, <1>7, JobStepKeeps DEF JobStates

\* One dataset's grants are read: it is read next, or has no position to read.
LEMMA CheckEntitlementsKeeps ==
    ASSUME OpportunitiesInv, NEW j \in Jobs, NEW d, CheckEntitlements(j, d)
    PROVE  OpportunitiesInv'
<1> DEFINE h == job[j]
           o == h.organization
           x == [h EXCEPT !.unchecked = @ \ {d},
                          !.unread = IF AgentIsEntitled(GrantsOn(d), PositionReader)
                                     THEN @ \cup {d} ELSE @]
<1>1. h.phase = "positions" /\ d \in h.unchecked /\ GoesTo(j, x) /\ offers' = offers
      /\ stale' = stale
  BY ProceedGoes DEF CheckEntitlements
<1>2. h \in Gathering
  BY <1>1, JobHasPhase
<1>3. /\ x \in Gathering /\ x.phase = "positions" /\ x.organization = o
      /\ x.unchecked = h.unchecked \ {d} /\ x.positions = h.positions
      /\ x.seen = h.seen /\ x.drafts = h.drafts /\ x.unsaved = h.unsaved
      /\ x.unread = IF AgentIsEntitled(GrantsOn(d), PositionReader)
                     THEN h.unread \cup {d} ELSE h.unread
  <2>1. d \in Datasets
    BY <1>1, <1>2 DEF Gathering
  <2> QED
    BY <1>1, <1>2, <2>1 DEF Gathering
<1>4. job'[j] = x
  BY <1>1, JobIsAt
<1>5. TablesGrow
  BY <1>1 DEF TablesGrow, GoesTo, ReadTables
<1> HIDE DEF x
<1>6. KeepsApart(j)'
  <2>1. KeepsApart(j)
    BY DEF OpportunitiesInv
  <2> QED
    BY <1>1, <1>2, <1>3, <1>4, <1>5, <2>1, EvidenceStays DEF KeepsApart
<1>7. ReadsAsOne(j)'
  <2> SUFFICES ASSUME j \notin stale
               PROVE  /\ x.unchecked \subseteq DatasetsOf(o) \cap PositionDatasets
                      /\ x.unread \subseteq PositionSources(o)
                      /\ x.positions = PositionsBut(o, x.unchecked \cup x.unread)
    BY <1>1, <1>3, <1>4, SameAnswers DEF ReadsAsOne, GoesTo
  <2>1. /\ h.unchecked \subseteq DatasetsOf(o) \cap PositionDatasets
        /\ h.unread \subseteq PositionSources(o)
        /\ h.positions = PositionsBut(o, h.unchecked \cup h.unread)
    BY <1>1 DEF OpportunitiesInv, ReadsAsOne
  <2>2. d \in PositionSources(o) <=> AgentIsEntitled(GrantsOn(d), PositionReader)
    BY <1>1, <2>1 DEF PositionSources
  <2>3. PositionsBut(o, x.unchecked \cup x.unread) = PositionsBut(o, h.unchecked \cup h.unread)
    <3>1. CASE AgentIsEntitled(GrantsOn(d), PositionReader)
      <4>1. x.unchecked \cup x.unread = h.unchecked \cup h.unread
        BY <1>1, <1>3, <3>1
      <4> QED
        BY <4>1
    <3>2. CASE ~AgentIsEntitled(GrantsOn(d), PositionReader)
      <4>1. \A r \in PositionsOf(o) : records[r].dataset # d
        BY <2>2, <3>2, PositionsAndSources DEF PositionsOf
      <4>2. x.unchecked \cup x.unread = (h.unchecked \cup h.unread) \ {d}
            \/ x.unchecked \cup x.unread = h.unchecked \cup h.unread
        BY <1>1, <1>3, <3>2
      <4> QED
        BY <4>1, <4>2 DEF PositionsBut
    <3> QED
      BY <3>1, <3>2
  <2> QED
    BY <1>1, <1>3, <2>1, <2>2, <2>3
<1> QED
  BY <1>1, <1>3, <1>4, <1>6, <1>7, JobStepKeeps DEF JobStates

\* The records of one dataset are read.
LEMMA LoadRecordsKeeps ==
    ASSUME OpportunitiesInv, NEW j \in Jobs, NEW d, LoadRecords(j, d)
    PROVE  OpportunitiesInv'
<1> DEFINE h == job[j]
           o == h.organization
           x == [h EXCEPT !.unread = @ \ {d}, !.positions = @ \cup PositionsIn(d)]
<1>1. h.phase = "positions" /\ h.unchecked = {} /\ d \in h.unread /\ GoesTo(j, x)
      /\ offers' = offers /\ stale' = stale
  BY ProceedGoes DEF LoadRecords
<1>2. h \in Gathering
  BY <1>1, JobHasPhase
<1>3. /\ x \in Gathering /\ x.phase = "positions" /\ x.organization = o
      /\ x.unchecked = {} /\ x.positions = h.positions \cup PositionsIn(d)
      /\ x.seen = h.seen /\ x.drafts = h.drafts /\ x.unsaved = h.unsaved
      /\ x.unread = h.unread \ {d}
  <2>1. PositionsIn(d) \subseteq Nat
    BY DEF PositionsIn, OpportunitiesInv, OpportunitiesTypeOK, TablesTypeOK
  <2> QED
    BY <1>1, <1>2, <2>1 DEF Gathering
<1>4. job'[j] = x
  BY <1>1, JobIsAt
<1>5. TablesGrow
  BY <1>1 DEF TablesGrow, GoesTo, ReadTables
<1> HIDE DEF x
<1>6. KeepsApart(j)'
  <2>1. KeepsApart(j)
    BY DEF OpportunitiesInv
  <2>2. Owner[d] = o
    BY <1>1, <1>2, <2>1 DEF KeepsApart
  <2>3. \A r \in PositionsIn(d) : OwnRecord(o, r)
    BY <2>2 DEF PositionsIn, OwnRecord
  <2> QED
    BY <1>1, <1>2, <1>3, <1>4, <1>5, <2>1, <2>3, EvidenceStays DEF KeepsApart
<1>7. ReadsAsOne(j)'
  <2> SUFFICES ASSUME j \notin stale
               PROVE  /\ x.unread \subseteq PositionSources(o)
                      /\ x.positions = PositionsBut(o, x.unchecked \cup x.unread)
    BY <1>1, <1>3, <1>4, SameAnswers DEF ReadsAsOne, GoesTo
  <2>1. /\ h.unread \subseteq PositionSources(o)
        /\ h.positions = PositionsBut(o, h.unread)
    BY <1>1 DEF OpportunitiesInv, ReadsAsOne
  <2>2. PositionsIn(d) = {r \in PositionsOf(o) : records[r].dataset = d}
    BY <1>1, <2>1, PositionsAndSources DEF PositionsIn, PositionsOf
  <2>3. h.positions \cup PositionsIn(d) = PositionsBut(o, h.unread \ {d})
    BY <1>1, <2>1, <2>2 DEF PositionsBut
  <2> QED
    BY <1>3, <2>1, <2>3
<1> QED
  BY <1>1, <1>3, <1>4, <1>6, <1>7, JobStepKeeps DEF JobStates

\* All positions are loaded.
LEMMA LoadedIsAll ==
    ASSUME OpportunitiesInv, NEW j \in Jobs, Loaded(j), j \notin stale
    PROVE  job[j].positions = PositionsOf(job[j].organization)
<1>1. job[j].positions = PositionsBut(job[j].organization, {})
  BY DEF OpportunitiesInv, ReadsAsOne, Loaded
<1> QED
  BY <1>1, PositionsAndSources

\* The signals are read.
LEMMA LoadSignalsKeeps ==
    ASSUME OpportunitiesInv, NEW j \in Jobs, LoadSignals(j)
    PROVE  OpportunitiesInv'
<1> DEFINE h == job[j]
           o == h.organization
           x == [h EXCEPT !.phase = "views", !.seen = VisibleTo(o, signals)]
<1>1. Loaded(j) /\ h.phase = "positions" /\ GoesTo(j, x) /\ offers' = offers /\ stale' = stale
  BY ProceedGoes DEF LoadSignals, Loaded
<1>2. h \in Gathering
  BY <1>1, JobHasPhase
<1>3. /\ x \in Gathering /\ x.phase = "views" /\ x.organization = o
      /\ x.unchecked = h.unchecked /\ x.unread = h.unread /\ x.positions = h.positions
      /\ x.seen = SignalsFor(o) /\ x.drafts = h.drafts /\ x.unsaved = h.unsaved
  <2>1. VisibleTo(o, signals) \subseteq Nat
    BY DEF VisibleTo, OpportunitiesInv, OpportunitiesTypeOK, TablesTypeOK
  <2> QED
    BY <1>1, <1>2, <2>1 DEF Gathering, SignalsFor
<1>4. job'[j] = x
  BY <1>1, JobIsAt
<1>5. TablesGrow
  BY <1>1 DEF TablesGrow, GoesTo, ReadTables
<1> HIDE DEF x
<1>6. KeepsApart(j)'
  <2>1. KeepsApart(j)
    BY DEF OpportunitiesInv
  <2>2. \A s \in SignalsFor(o) : OpenSignal(o, s)
    BY DEF SignalsFor, VisibleTo, OpenSignal
  <2> QED
    BY <1>2, <1>3, <1>4, <1>5, <2>1, <2>2, EvidenceStays DEF KeepsApart
<1>7. ReadsAsOne(j)'
  BY <1>1, <1>3, <1>4, SameAnswers, LoadedIsAll DEF ReadsAsOne, GoesTo
<1> QED
  BY <1>1, <1>3, <1>4, <1>6, <1>7, JobStepKeeps DEF JobStates

\* The views are read and the drafts made.
LEMMA GenerateKeeps ==
    ASSUME OpportunitiesInv, NEW j \in Jobs, Generate(j)
    PROVE  OpportunitiesInv'
<1> DEFINE h == job[j]
           o == h.organization
           D == Generated(h.positions, h.seen, VisibleTo(o, views))
           x == [h EXCEPT !.phase = "saving", !.drafts = D, !.unsaved = D]
<1>1. h.phase = "views" /\ GoesTo(j, x) /\ offers' = offers /\ stale' = stale
  BY ProceedGoes DEF Generate
<1>2. h \in Gathering
  BY <1>1, JobHasPhase
<1>0. KeepsApart(j) /\ TablesTypeOK
  BY DEF OpportunitiesInv, OpportunitiesTypeOK
<1>8. /\ \A r \in h.positions : OwnRecord(o, r)
      /\ \A s \in h.seen : OpenSignal(o, s)
      /\ \A v \in VisibleTo(o, views) : OpenView(o, v)
  BY <1>0, <1>2 DEF KeepsApart, VisibleTo, OpenView
<1>9. \A c \in D : c \in Candidates /\ OpenEvidence(o, c)
  <2> SUFFICES ASSUME NEW c \in D
               PROVE  c \in Candidates /\ OpenEvidence(o, c)
    OBVIOUS
  <2>1. /\ h.positions \subseteq DOMAIN records /\ h.seen \subseteq DOMAIN signals
        /\ VisibleTo(o, views) \subseteq DOMAIN views
    BY <1>8 DEF OwnRecord, OpenSignal, OpenView
  <2>2. /\ c \in Candidates
        /\ c.record # 0 => c.record \in h.positions
        /\ c.view # 0 => c.view \in VisibleTo(o, views)
        /\ c.signals \subseteq h.seen
    BY <1>0, <2>1, DraftsAreTyped
  <2> QED
    BY <1>8, <2>2 DEF OpenEvidence
<1>3. /\ x \in Gathering /\ x.phase = "saving" /\ x.organization = o
      /\ x.unchecked = h.unchecked /\ x.unread = h.unread /\ x.positions = h.positions
      /\ x.seen = h.seen /\ x.drafts = D /\ x.unsaved = D
  BY <1>2, <1>9 DEF Gathering
<1>4. job'[j] = x
  BY <1>1, JobIsAt
<1>5. TablesGrow
  BY <1>1 DEF TablesGrow, GoesTo, ReadTables
<1>7. j \notin stale => D = DraftsFor(o)
  BY <1>1 DEF OpportunitiesInv, ReadsAsOne, DraftsFor, ViewsFor
<1> HIDE DEF x, D
<1>6. KeepsApart(j)'
  BY <1>0, <1>2, <1>3, <1>4, <1>5, <1>9, EvidenceStays DEF KeepsApart
<1>10. ReadsAsOne(j)'
  <2>1. PICK c, y : c = o /\ y = x
    OBVIOUS
  <2>2. DraftsFor(c)' = DraftsFor(c)
    BY <1>1, SameAnswers DEF GoesTo
  <2>3. /\ job'[j] = y /\ y.phase = "saving" /\ y.organization = c
        /\ j \notin stale => y.drafts = DraftsFor(c)
    BY <1>3, <1>4, <1>7, <2>1
  <2> QED
    BY <1>1, <2>2, <2>3 DEF ReadsAsOne
<1> QED
  BY <1>1, <1>3, <1>6, <1>10, JobStepKeeps DEF JobStates

\* A draft is stored: it is one of the job's.
LEMMA SaveOpportunityKeeps ==
    ASSUME OpportunitiesInv, NEW j \in Jobs, NEW c \in job[j].unsaved, SaveOpportunity(j, c)
    PROVE  OpportunitiesInv'
<1> DEFINE h == job[j]
           o == h.organization
           x == [h EXCEPT !.unsaved = @ \ {c}]
           row == [organization |-> o, draft |-> c, status |-> "PENDING", reviewed_by |-> NoReviewer]
<1>1. /\ h.phase = "saving" /\ GoesTo(j, x) /\ stale' = stale /\ offers' = Append(offers, row)
  BY DEF SaveOpportunity, GoesTo, ReadTables, accessTables
<1>2. h \in Gathering
  BY <1>1, JobHasPhase
<1>0. KeepsApart(j) /\ ReadsAsOne(j) /\ offers \in Seq(OfferRows)
  BY DEF OpportunitiesInv, OpportunitiesTypeOK
<1>3. /\ x \in Gathering /\ x.phase = "saving" /\ x.organization = o
      /\ x.unchecked = h.unchecked /\ x.unread = h.unread /\ x.positions = h.positions
      /\ x.seen = h.seen /\ x.drafts = h.drafts /\ x.unsaved = h.unsaved \ {c}
  BY <1>1, <1>2 DEF Gathering
<1>4. job'[j] = x
  BY <1>1, JobIsAt
<1>5. TablesGrow
  BY <1>1 DEF TablesGrow, GoesTo, ReadTables
<1>7. row \in OfferRows /\ OpenEvidence(o, c)
  <2>1. c \in Candidates /\ o \in Organizations /\ c \in h.drafts
    BY <1>0, <1>2 DEF Gathering, KeepsApart
  <2> QED
    BY <1>0, <1>2, <2>1 DEF OfferRows, KeepsApart
<1> HIDE DEF x
<1>6. KeepsApart(j)'
  BY <1>0, <1>2, <1>3, <1>4, <1>5, EvidenceStays DEF KeepsApart
<1>8. ReadsAsOne(j)'
  <2>1. PICK q, y : q = o /\ y = x
    OBVIOUS
  <2>2. DraftsFor(q)' = DraftsFor(q)
    BY <1>1, SameAnswers DEF GoesTo
  <2>3. /\ job'[j] = y /\ y.phase = "saving" /\ y.organization = q
        /\ j \notin stale => y.drafts = DraftsFor(q)
    BY <1>0, <1>1, <1>3, <1>4, <2>1 DEF ReadsAsOne
  <2> QED
    BY <1>1, <2>2, <2>3 DEF ReadsAsOne
<1>9. offers' \in Seq(OfferRows) /\ \A n \in DOMAIN offers' : OffersApart(n)'
  <2>1. PICK y, q : y = row /\ q = o
    OBVIOUS
  <2>2. /\ offers' \in Seq(OfferRows) /\ DOMAIN offers' = 1 .. Len(offers) + 1
        /\ DOMAIN offers = 1 .. Len(offers) /\ Len(offers) \in Nat
        /\ offers'[Len(offers) + 1] = y
        /\ \A n \in DOMAIN offers : offers'[n] = offers[n]
    BY <1>0, <1>1, <1>7, <2>1
  <2>3. /\ y.organization = q /\ y.draft = c /\ y.status = "PENDING" /\ y.reviewed_by = NoReviewer
        /\ OpenEvidence(q, c)
    BY <1>7, <2>1
  <2>6. PICK m, d : m = Len(offers) + 1 /\ d = c
    OBVIOUS
  <2>4. OffersApart(m)'
    <3>1. offers'[m] = y
      BY <2>2, <2>6
    <3>2. OpenEvidence(q, d)'
      BY <1>5, <2>3, <2>6, EvidenceStays
    <3> QED
      BY <2>3, <2>6, <3>1, <3>2 DEF OffersApart
  <2>5. \A n \in DOMAIN offers : OffersApart(n)'
    BY <1>5, <2>2, EvidenceStays DEF OpportunitiesInv, OffersApart
  <2>7. \A n \in DOMAIN offers' : n \in DOMAIN offers \/ n = m
    BY <2>2, <2>6
  <2> QED
    BY <2>2, <2>4, <2>5, <2>7
<1>10. /\ job' \in [Jobs -> JobStates] /\ TablesTypeOK'
       /\ \A k \in Jobs : KeepsApart(k)' /\ ReadsAsOne(k)'
  BY <1>1, <1>3, <1>6, <1>8, JobStepKeeps DEF JobStates
<1> QED
  BY <1>9, <1>10 DEF OpportunitiesInv, OpportunitiesTypeOK, JobStates

\* The idea is annotated.
LEMMA CorroborateKeeps ==
    ASSUME OpportunitiesInv, NEW j \in Jobs, Corroborate(j)
    PROVE  OpportunitiesInv'
<1> DEFINE h == job[j]
           o == h.organization
           x == [phase |-> "committee", organization |-> o, idea |-> h.idea,
                 supports |-> Corroborated(h.idea, h.positions, TRUE),
                 risks |-> Corroborated(h.idea, h.positions, FALSE)]
<1>1. /\ h.phase = "positions" /\ Loaded(j) /\ h.idea # NoIdea /\ GoesTo(j, x)
      /\ offers' = offers /\ stale' = stale
  BY ProceedGoes DEF Corroborate, Loaded
<1>2. h \in Gathering
  BY <1>1, JobHasPhase
<1>3. /\ x \in Annotated /\ x \notin Gathering /\ x.phase = "committee" /\ x.organization = o
      /\ x.idea = h.idea
      /\ j \notin stale => x.supports = SupportsFor(h.idea, o) /\ x.risks = RisksFor(h.idea, o)
  <2>1. /\ Corroborated(h.idea, h.positions, TRUE) \subseteq h.positions
        /\ Corroborated(h.idea, h.positions, FALSE) \subseteq h.positions
    BY DEF Corroborated
  <2>2. h.positions \subseteq Nat /\ o \in Organizations /\ h.idea \in TradeIdeas
    BY <1>1, <1>2 DEF Gathering
  <2>3. x \in Annotated
    BY <2>1, <2>2 DEF Annotated
  <2>4. x.phase = "committee"
    OBVIOUS
  <2>5. x \notin Gathering
    BY <2>4 DEF Gathering
  <2>6. j \notin stale => x.supports = SupportsFor(h.idea, o) /\ x.risks = RisksFor(h.idea, o)
    BY <1>1, LoadedIsAll DEF SupportsFor, RisksFor
  <2> QED
    BY <2>3, <2>5, <2>6
<1>4. job'[j] = x
  BY <1>1, JobIsAt
<1> HIDE DEF x
<1>6. KeepsApart(j)'
  <2>1. PICK y : y = x
    OBVIOUS
  <2>2. job'[j] = y /\ y.phase = "committee"
    BY <1>3, <1>4, <2>1
  <2>3. (job[j] \notin Gathering)'
    BY <2>2 DEF Gathering
  <2> QED
    BY <2>3 DEF KeepsApart
<1>7. ReadsAsOne(j)'
  <2>1. PICK q, y, idea : q = o /\ y = x /\ idea = h.idea
    OBVIOUS
  <2>2. SupportsFor(idea, q)' = SupportsFor(idea, q) /\ RisksFor(idea, q)' = RisksFor(idea, q)
    BY <1>1, SameAnswers DEF GoesTo
  <2>3. /\ job'[j] = y /\ y.phase = "committee" /\ y.organization = q /\ y.idea = idea
        /\ j \notin stale => y.supports = SupportsFor(idea, q) /\ y.risks = RisksFor(idea, q)
    BY <1>3, <1>4, <2>1
  <2> QED
    BY <1>1, <2>2, <2>3 DEF ReadsAsOne
<1> QED
  BY <1>1, <1>3, <1>6, <1>7, JobStepKeeps DEF JobStates

\* An organization is done, and the next one's turn comes, or the job ends.
LEMMA EndingsKeep ==
    ASSUME OpportunitiesInv, NEW j \in Jobs,
           NextOrganization(j) \/ SubmitToCommittee(j) \/ JobFails(j)
    PROVE  OpportunitiesInv'
<1>1. CASE SubmitToCommittee(j)
  BY <1>1, ProceedGoes, EndedKeeps DEF SubmitToCommittee
<1>2. CASE JobFails(j)
  <2>1. GoesTo(j, NoJob) /\ offers' = offers
    BY <1>2 DEF JobFails, GoesTo, ReadTables, accessTables, opportunityTables
  <2> QED
    BY <2>1, EndedKeeps
<1>3. CASE NextOrganization(j)
  <2>1. /\ UNCHANGED ReadTables /\ offers' = offers
        /\ \A k \in Jobs \ {j} : k \in stale' <=> k \in stale
    BY <1>3 DEF NextOrganization, ReadTables, accessTables, opportunityTables
  <2>2. job[j].rest \subseteq Organizations
    BY <1>3, JobHasPhase DEF NextOrganization, Gathering
  <2>3. CASE job[j].rest = {}
    <3>1. GoesTo(j, NoJob)
      BY <1>3, <2>1, <2>3 DEF NextOrganization, GoesTo
    <3> QED
      BY <2>1, <3>1, EndedKeeps
  <2>4. CASE job[j].rest # {}
    <3>1. PICK o \in job[j].rest :
            job' = [job EXCEPT ![j] = Started(o, job[j].rest \ {o}, NoIdea)]
      BY <1>3, <2>4 DEF NextOrganization
    <3>2. GoesTo(j, Started(o, job[j].rest \ {o}, NoIdea))
      BY <2>1, <3>1 DEF GoesTo
    <3>3. o \in Organizations /\ job[j].rest \ {o} \in SUBSET Organizations
      BY <2>2
    <3> QED
      BY <2>1, <3>2, <3>3, StartedKeeps
  <2> QED
    BY <2>3, <2>4
<1> QED
  BY <1>1, <1>2, <1>3

-----------------------------------------------------------------------------
(* Steps of others *)

\* Every job remembers that a table was edited or that a row came in.
LEMMA EditedKeeps ==
    ASSUME OpportunitiesInv, TablesTypeOK', TablesGrow,
           UNCHANGED <<offers, job>>, stale' = stale \cup Busy
    PROVE  OpportunitiesInv'
<1>1. \A j \in Jobs : KeepsApart(j)'
  BY EvidenceStays DEF OpportunitiesInv, KeepsApart
<1>2. ASSUME NEW j \in Jobs
      PROVE  ReadsAsOne(j)'
  <2>1. CASE job[j] = NoJob
    BY <2>1 DEF ReadsAsOne, NoJob
  <2>2. CASE job[j] # NoJob
    BY <2>2 DEF ReadsAsOne, Busy
  <2> QED
    BY <2>1, <2>2
<1>3. \A n \in DOMAIN offers : OffersApart(n)'
  BY EvidenceStays DEF OpportunitiesInv, OffersApart
<1> QED
  BY <1>1, <1>2, <1>3 DEF OpportunitiesInv, OpportunitiesTypeOK

\* A row comes in.
LEMMA PostsKeep ==
    ASSUME OpportunitiesInv,
           \/ \E row \in RecordRows : IngestRecord(row)
           \/ \E row \in SignalRows : DetectSignal(row)
           \/ \E row \in ViewRows : FormView(row)
    PROVE  OpportunitiesInv'
<1>0. TablesTypeOK
  BY DEF OpportunitiesInv, OpportunitiesTypeOK
<1>1. TablesTypeOK' /\ TablesGrow
  <2>1. CASE \E row \in RecordRows : IngestRecord(row)
    BY <1>0, <2>1 DEF IngestRecord, Post, accessTables, TablesTypeOK, TablesGrow
  <2>2. CASE \E row \in SignalRows : DetectSignal(row)
    BY <1>0, <2>2 DEF DetectSignal, Post, accessTables, TablesTypeOK, TablesGrow
  <2>3. CASE \E row \in ViewRows : FormView(row)
    BY <1>0, <2>3 DEF FormView, Post, accessTables, TablesTypeOK, TablesGrow
  <2> QED
    BY <2>1, <2>2, <2>3
<1>2. UNCHANGED <<offers, job>> /\ stale' = stale \cup Busy
  BY DEF IngestRecord, DetectSignal, FormView, Post
<1> QED
  BY <1>1, <1>2, EditedKeeps

\* A dataset or a grant comes or goes.
LEMMA AccessEditsKeep ==
    ASSUME OpportunitiesInv, EditAccess
    PROVE  OpportunitiesInv'
<1>1. UNCHANGED <<records, signals, views, offers, job>> /\ stale' = stale \cup Busy
  BY DEF EditAccess, opportunityTables
<1>2. datasets' \subseteq Datasets
  BY DEF EditAccess, RegisterDataset, GrantEntitlement, RevokeEntitlement,
     OpportunitiesInv, OpportunitiesTypeOK, TablesTypeOK
<1>3. TablesTypeOK' /\ TablesGrow
  BY <1>1, <1>2 DEF OpportunitiesInv, OpportunitiesTypeOK, TablesTypeOK, TablesGrow
<1> QED
  BY <1>1, <1>3, EditedKeeps

\* Where nothing was read or written, every job keeps what it has.
LEMMA JobsStandStill ==
    ASSUME OpportunitiesInv, UNCHANGED ReadTables, UNCHANGED <<job, stale>>, NEW k \in Jobs
    PROVE  KeepsApart(k)' /\ ReadsAsOne(k)'
<1>0. job' = job /\ stale' = stale /\ KeepsApart(k) /\ ReadsAsOne(k)
  BY DEF OpportunitiesInv
<1>1. TablesGrow
  BY DEF TablesGrow, ReadTables
<1>2. KeepsApart(k)'
  BY <1>0, <1>1, EvidenceStays DEF KeepsApart
<1>3. PICK h, o, idea, pending :
        h = job[k] /\ o = h.organization /\ idea = h.idea /\ pending = h.unchecked \cup h.unread
  OBVIOUS
<1>4. /\ DatasetsOf(o)' = DatasetsOf(o) /\ PositionSources(o)' = PositionSources(o)
      /\ PositionsOf(o)' = PositionsOf(o) /\ SignalsFor(o)' = SignalsFor(o)
      /\ DraftsFor(o)' = DraftsFor(o) /\ PositionsBut(o, pending)' = PositionsBut(o, pending)
      /\ SupportsFor(idea, o)' = SupportsFor(idea, o)
      /\ RisksFor(idea, o)' = RisksFor(idea, o)
  BY SameAnswers
<1>5. ReadsAsOne(k)'
  BY <1>0, <1>3, <1>4 DEF ReadsAsOne
<1> QED
  BY <1>2, <1>5

\* A person of the organization decides.
LEMMA ReviewsKeep ==
    ASSUME OpportunitiesInv, NEW u \in People \cup Admins, NEW n \in DOMAIN offers,
           NEW verdict \in {"APPROVED", "REJECTED"}, ReviewOpportunity(u, n, verdict)
    PROVE  OpportunitiesInv'
<1>1. /\ UNCHANGED ReadTables /\ job' = job /\ stale' = stale
      /\ offers' = [offers EXCEPT ![n].status = verdict, ![n].reviewed_by = u]
  BY DEF ReviewOpportunity, ReadTables, accessTables
<1>2. offers \in Seq(OfferRows) /\ offers[n] \in OfferRows
  BY DEF OpportunitiesInv, OpportunitiesTypeOK
<1> DEFINE y == [offers[n] EXCEPT !.status = verdict, !.reviewed_by = u]
<1>3. /\ y \in OfferRows /\ y.organization = offers[n].organization /\ y.draft = offers[n].draft
      /\ y.status = verdict /\ y.reviewed_by = u
  BY <1>2 DEF OfferRows
<1>4. /\ DOMAIN offers' = DOMAIN offers /\ offers' \in Seq(OfferRows) /\ offers'[n] = y
      /\ \A m \in DOMAIN offers \ {n} : offers'[m] = offers[m]
  <2>1. offers' = [offers EXCEPT ![n] = y]
    BY <1>1, <1>2
  <2> HIDE DEF y
  <2> QED
    BY <1>2, <1>3, <2>1
<1>5. TablesGrow
  BY <1>1 DEF TablesGrow, ReadTables
<1> HIDE DEF y
<1>6. ASSUME NEW m \in DOMAIN offers
      PROVE  OffersApart(m)'
  <2>1. OffersApart(m)
    BY DEF OpportunitiesInv
  <2>2. CASE m # n
    BY <1>4, <1>5, <2>1, <2>2, EvidenceStays DEF OffersApart
  <2>3. CASE m = n
    <3>1. PICK o, d, q : o = offers[n].organization /\ d = offers[n].draft /\ q = y
      OBVIOUS
    <3>2. OpenEvidence(o, d)'
      BY <1>5, <2>1, <2>3, <3>1, EvidenceStays DEF OffersApart
    <3>3. /\ offers'[m] = q /\ q.organization = o /\ q.draft = d /\ q.status = verdict
          /\ q.reviewed_by = u
      BY <1>3, <1>4, <2>3, <3>1
    <3>4. u # NoReviewer
      BY ReviewerAssumption
    <3> QED
      BY <3>2, <3>3, <3>4 DEF OffersApart
  <2> QED
    BY <2>2, <2>3
<1>7. \A k \in Jobs : KeepsApart(k)' /\ ReadsAsOne(k)'
  BY <1>1, JobsStandStill
<1>8. TablesTypeOK'
  BY <1>1 DEF ReadTables, OpportunitiesInv, OpportunitiesTypeOK, TablesTypeOK
<1> QED
  BY <1>1, <1>4, <1>6, <1>7, <1>8 DEF OpportunitiesInv, OpportunitiesTypeOK

-----------------------------------------------------------------------------

\* The invariant holds in every state.
LEMMA OpportunitiesInvHolds == OpportunitiesSpec => []OpportunitiesInv
<1>1. EnterpriseAccessInit /\ OpportunitiesInit => OpportunitiesInv
  <2> SUFFICES ASSUME EnterpriseAccessInit, OpportunitiesInit
               PROVE  OpportunitiesInv
    OBVIOUS
  <2>1. OpportunitiesTypeOK
    BY DEF EnterpriseAccessInit, OpportunitiesInit, OpportunitiesTypeOK, TablesTypeOK
  <2>2. \A j \in Jobs : job[j] = NoJob /\ NoJob.phase = "idle"
    BY DEF OpportunitiesInit, NoJob
  <2>3. NoJob \notin Gathering
    BY DEF NoJob, Gathering
  <2>4. \A j \in Jobs : KeepsApart(j) /\ ReadsAsOne(j)
    BY <2>2, <2>3 DEF KeepsApart, ReadsAsOne
  <2>5. \A n \in DOMAIN offers : OffersApart(n)
    BY DEF OpportunitiesInit
  <2> QED
    BY <2>1, <2>4, <2>5 DEF OpportunitiesInv
<1>2. OpportunitiesInv /\ [OpportunitiesNext]_<<accessTables, opportunityVars>> => OpportunitiesInv'
  <2> SUFFICES ASSUME OpportunitiesInv, [OpportunitiesNext]_<<accessTables, opportunityVars>>
               PROVE  OpportunitiesInv'
    OBVIOUS
  <2>1. \A u \in People : OrganizationOf[u] \in Organizations
    BY DEF Organizations
  <2>2. ASSUME NEW j \in Jobs, NEW u \in People, GenerateOpportunities(j, u)
        PROVE  OpportunitiesInv'
    BY <2>1, <2>2, StartsKeep DEF GenerateOpportunities
  <2>3. ASSUME NEW j \in Jobs, NEW u \in People, NEW idea \in TradeIdeas,
               CorroborateTrade(j, OrganizationOf[u], idea)
        PROVE  OpportunitiesInv'
    BY <2>1, <2>3, StartsKeep DEF CorroborateTrade
  <2>4. ASSUME NEW j \in Jobs, GenerateForAll(j)
        PROVE  OpportunitiesInv'
    <3>1. {Owner[d] : d \in datasets} \subseteq Organizations
      BY DEF OpportunitiesInv, OpportunitiesTypeOK, TablesTypeOK, Organizations
    <3>2. PICK o \in {Owner[d] : d \in datasets} :
            StartJob(j, Started(o, {Owner[d] : d \in datasets} \ {o}, NoIdea))
      BY <2>4 DEF GenerateForAll
    <3> QED
      BY <3>1, <3>2, StartsKeep
  <2>5. ASSUME NEW j \in Jobs, Working(j)
        PROVE  OpportunitiesInv'
    BY <2>5, LoadDatasetsKeeps, CheckEntitlementsKeeps, LoadRecordsKeeps, LoadSignalsKeeps,
       GenerateKeeps, SaveOpportunityKeeps, CorroborateKeeps, EndingsKeep DEF Working
  <2>6. CASE UNCHANGED <<accessTables, opportunityVars>>
    <3>1. TablesTypeOK' /\ UNCHANGED <<job, offers, stale>> /\ UNCHANGED ReadTables
      BY <2>6 DEF accessTables, opportunityVars, opportunityTables, ReadTables, OpportunitiesInv,
         OpportunitiesTypeOK, TablesTypeOK
    <3>2. \A k \in Jobs : KeepsApart(k)' /\ ReadsAsOne(k)'
      BY <3>1, JobsStandStill
    <3>3. TablesGrow
      BY <3>1 DEF TablesGrow, ReadTables
    <3>4. \A n \in DOMAIN offers : OffersApart(n)'
      BY <3>1, <3>3, EvidenceStays DEF OpportunitiesInv, OffersApart
    <3> QED
      BY <3>1, <3>2, <3>4 DEF OpportunitiesInv, OpportunitiesTypeOK
  <2> QED
    BY <2>2, <2>3, <2>4, <2>5, <2>6, ReviewsKeep, PostsKeep, AccessEditsKeep DEF OpportunitiesNext
<1> QED
  BY <1>1, <1>2, PTL DEF OpportunitiesSpec

(***************************************************************************)
(* What an organization's tables are used for, for any tables, jobs and    *)
(* rows: drafts and annotated trades follow from them, and a stored        *)
(* opportunity rests on nobody else's and says who decided it              *)
(* (OpportunitiesAreFounded).                                              *)
(***************************************************************************)
THEOREM OpportunitiesFollowTheirTables == OpportunitiesSpec => []OpportunitiesAreFounded
<1>1. OpportunitiesInv => OpportunitiesAreFounded
  <2> SUFFICES ASSUME OpportunitiesInv
               PROVE  OpportunitiesAreFounded
    OBVIOUS
  <2>1. DraftsAreDue
    <3> SUFFICES ASSUME NEW j \in Jobs, Drafting(j)
                 PROVE  LET o == job[j].organization IN
        /\ \A c \in job[j].drafts : IF c.type = "HEDGE" THEN HedgeDue(o, c) ELSE NewDue(o, c)
        /\ \A r \in DOMAIN records, v \in DOMAIN views :
             /\ views[v].organization \in {o, Platform}
             /\ HedgeDue(o, [record |-> r, view |-> v])
             => \E c \in job[j].drafts : c.record = r /\ c.view = v
        /\ \A s \in DOMAIN signals :
             /\ signals[s].organization \in {o, Platform}
             /\ signals[s].materiality >= MinMateriality /\ signals[s].direction # "NEUTRAL"
             => \/ \E c \in job[j].drafts : s \in c.signals
                \/ \E r \in DOMAIN records :
                     IsPositionOf(r, o) /\ records[r].market = signals[s].market
      BY DEF DraftsAreDue
    <3>1. job[j].drafts = DraftsFor(job[j].organization)
      BY DEF OpportunitiesInv, ReadsAsOne, Drafting
    <3> QED
      BY <3>1, DraftsFollow DEF OpportunitiesInv, OpportunitiesTypeOK, DraftsFor, SignalsFor, ViewsFor
  <2>2. TradeKnowsItsBook
    <3> SUFFICES ASSUME NEW j \in Jobs, job[j].phase = "committee", j \notin stale
                 PROVE  LET idea == job[j].idea
                            held == {r \in DOMAIN records :
                                       /\ IsPositionOf(r, job[j].organization)
                                       /\ records[r].market = idea.market
                                       /\ records[r].direction # "NONE"}
                        IN  /\ job[j].supports \cup job[j].risks =
                                    (IF idea.direction = "SPREAD" THEN {} ELSE held)
                            /\ \A r \in held :
                                 r \in job[j].supports => r \notin job[j].risks
                                                          /\ records[r].direction = idea.direction
      BY DEF TradeKnowsItsBook
    <3>1. /\ job[j].supports = SupportsFor(job[j].idea, job[j].organization)
          /\ job[j].risks = RisksFor(job[j].idea, job[j].organization)
      BY DEF OpportunitiesInv, ReadsAsOne
    <3>2. job[j].idea \in TradeIdeas
      BY JobHasPhase DEF Annotated
    <3>3. PICK o, idea :
            o = job[j].organization /\ idea = job[j].idea /\ idea \in TradeIdeas
      BY <3>2
    <3>4. LET held == {r \in DOMAIN records :
                         /\ IsPositionOf(r, o)
                         /\ records[r].market = idea.market
                         /\ records[r].direction # "NONE"}
          IN  /\ SupportsFor(idea, o) \cup RisksFor(idea, o) =
                      (IF idea.direction = "SPREAD" THEN {} ELSE held)
              /\ \A r \in held :
                   r \in SupportsFor(idea, o) => r \notin RisksFor(idea, o)
                                               /\ records[r].direction = idea.direction
      <4>1. idea.direction \in {"LONG", "SHORT", "SPREAD"}
        BY <3>3, IdeaAssumption
      <4> QED
        BY <4>1 DEF Corroborated, PositionsOf, SupportsFor, RisksFor
    <3> QED
      BY <3>1, <3>3, <3>4
  <2>3. EvidenceIsTheirOwn
    BY DEF OpportunitiesInv, OffersApart, OpenEvidence, OwnRecord, OpenSignal, OpenView,
       EvidenceIsTheirOwn
  <2> QED
    BY <2>1, <2>2, <2>3 DEF OpportunitiesAreFounded
<1> QED
  BY <1>1, OpportunitiesInvHolds, PTL
=============================================================================
