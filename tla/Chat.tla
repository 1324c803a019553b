-------------------------------- MODULE Chat --------------------------------
(***************************************************************************)
(* The chat: sessions in the memory of the API process, their transcript   *)
(* in the database, and ChatAgent.ask, which checks the topic's permission *)
(* before any tool runs and, for enterprise data, collects the answer in   *)
(* several reads (datasets, memberships, the grants of one dataset after   *)
(* another, policies) while administrators edit the tables it reads.  A    *)
(* trade idea drafted on request takes the organization's positions up,    *)
(* and later questions quote it.                                           *)
(*                                                                         *)
(* Source: apps/api/api_app/routers/chat.py, chat_agent.py,                *)
(* state.py, entitlements.py, packages/agent-sdk/agent_sdk/llm.py.         *)
(***************************************************************************)
EXTENDS EnterpriseAccess

CONSTANTS
    Sessions, Senders,          \* conversations; handlers in flight
    Topics, Required,           \* topics asked about; the permission each needs
    MaxQuestions, MaxFaults     \* bounds

VARIABLES
    permitted,      \* the permissions of each user, by its role now
    sessions,       \* chat_sessions: user and messages, in memory
    conversations,  \* ids in chat_conversations
    transcript,     \* chat_messages, in insertion order
    cited,          \* datasets whose positions a trade idea in memory cites
    handler,        \* what each handler has read and done
    asked, faults,
    troubled,       \* (history) sessions with a failed or overlapping send
    edited          \* (history) handlers whose tables changed since they began

chatVars == <<permitted, sessions, conversations, transcript, cited, handler, asked, faults,
              troubled, edited>>
allChatVars == <<accessTables, chatVars>>

\* A user's id is no place holder.
ASSUME PeopleAssumption == "nobody" \notin People

Unknown == [user |-> "nobody", messages |-> << >>]
Free == [phase |-> "free"]

Turn(role, n, content) == [role |-> role, question |-> n, content |-> content]

MessageRow(c, turn) == [conversation |-> c, role |-> turn.role, question |-> turn.question]

Exists(c) == sessions[c] # Unknown

\* The topics that tell of the last trade idea, or of what the committee said of it.
Quoting == {"show_evidence", "why_bias", "most_disagreeing_agent"}

Here(c) == {s \in Senders : handler[s].phase # "free" /\ handler[s].session = c}

-----------------------------------------------------------------------------
\* POST /sessions: in memory first, the row afterwards.
CreateSession(s, c, u) ==
    /\ handler[s] = Free
    /\ ~Exists(c) /\ c \notin conversations
    /\ sessions' = [sessions EXCEPT ![c].user = u]
    /\ handler' = [handler EXCEPT ![s] = [phase |-> "conversation", session |-> c]]
    /\ UNCHANGED <<accessTables, permitted, cited, conversations, transcript, asked, faults, troubled,
                   edited>>

SaveConversation(s) ==
    /\ handler[s].phase = "conversation"
    /\ conversations' = conversations \cup {handler[s].session}
    /\ handler' = [handler EXCEPT ![s] = Free]
    /\ UNCHANGED <<accessTables, permitted, cited, sessions, transcript, asked, faults, troubled,
                   edited>>

-----------------------------------------------------------------------------
\* POST /sessions/{id}/messages: permission, then a session of this process.
SendMessage(s, c, u, topic) ==
    /\ handler[s] = Free
    /\ asked < MaxQuestions
    /\ "chief_agent.chat" \in permitted[u]
    /\ Exists(c)
    /\ asked' = asked + 1
    /\ sessions' = [sessions EXCEPT ![c].messages = Append(@, Turn("user", asked', topic))]
    /\ handler' = [handler EXCEPT ![s] =
            [phase |-> "turn", session |-> c, user |-> u, topic |-> topic, question |-> asked']]
    /\ troubled' = troubled \cup (IF Here(c) # {} THEN {c} ELSE {})
    /\ edited' = edited \ {s}
    /\ UNCHANGED <<accessTables, permitted, cited, conversations, transcript, faults>>

\* The row of a message needs its conversation's where the database checks.
Storable(c) == enforced => c \in conversations

SaveTurn(s) ==
    LET h == handler[s] IN
    /\ h.phase = "turn"
    /\ Storable(h.session)
    /\ transcript' = Append(transcript, MessageRow(h.session, Turn("user", h.question, h.topic)))
    /\ handler' = [handler EXCEPT ![s].phase = "authorize"]
    /\ UNCHANGED <<accessTables, permitted, cited, sessions, conversations, asked, faults, troubled,
                   edited>>

Advance(s, record) ==
    /\ handler' = [handler EXCEPT ![s] = record]
    /\ UNCHANGED <<accessTables, permitted, cited, sessions, conversations, transcript, asked, faults,
                   troubled, edited>>

\* What a tool handed on: the datasets whose content is in the facts, those
\* only named, and the model that will see them.
Facts(h, shown, named, model) ==
    [phase |-> "model", session |-> h.session, user |-> h.user, topic |-> h.topic,
     question |-> h.question, shown |-> shown, named |-> named, model |-> model]

\* _dispatch: two tools read the database; the others hand on what is in memory, of which
\* trade ideas are all that holds an organization's data.
Dispatched(h) ==
    CASE h.topic = "enterprise_data_query" -> {[h EXCEPT !.phase = "datasets"]}
      [] h.topic = "enterprise_trade_idea" -> {[h EXCEPT !.phase = "idea"]}
      [] h.topic \in Quoting -> {Facts(h, quoted, quoted, "external") : quoted \in SUBSET cited}
      [] OTHER -> {Facts(h, {}, {}, "external")}

\* ask: the topic's permission, read now.  A declined question ends here.
Authorize(s) ==
    LET h == handler[s] IN
    /\ h.phase = "authorize"
    /\ \E next \in (IF Required[h.topic] \notin permitted[h.user]
                   THEN {[Facts(h, {}, {}, "none") EXCEPT !.phase = "reply"]}
                   ELSE Dispatched(h)) :
          Advance(s, next)

\* _enterprise_data_query: the organization's datasets.
ListDatasets(s) ==
    LET h == handler[s]
        found == DatasetsOf(OrganizationOf[h.user])
    IN
    /\ h.phase = "datasets"
    /\ Advance(s,
        IF found = {} THEN Facts(h, {}, {}, "external")
        ELSE [phase |-> "workspaces", session |-> h.session, user |-> h.user, topic |-> h.topic,
              question |-> h.question, left |-> found, entitled |-> {}])

ReadWorkspaces(s) ==
    LET h == handler[s] IN
    /\ h.phase = "workspaces"
    /\ Advance(s,
        [phase |-> "grants", session |-> h.session, user |-> h.user, topic |-> h.topic,
         question |-> h.question, left |-> h.left, entitled |-> {},
         memberOf |-> WorkspaceIdsFor(h.user)])

\* filter_entitled_enterprise_datasets: one query per dataset.
ReadGrants(s, d) ==
    LET h == handler[s] IN
    /\ h.phase = "grants"
    /\ d \in h.left
    /\ Advance(s,
        [h EXCEPT !.left = @ \ {d},
                  !.entitled = IF DatasetIsEntitled(GrantsOn(d), h.user, Claims[h.user], h.memberOf)
                               THEN @ \cup {d} ELSE @])

\* Mutant: one allowed dataset is enough for the external model.
MutModelFor(blocked, entitled) == IF blocked = entitled THEN "fallback" ELSE "external"

\* PolicyGatedLLMProvider: any blocked dataset keeps the whole answer inside.
ModelFor(blocked, entitled) == IF blocked # {} THEN "fallback" ELSE "external"

ReadPolicies(s) ==
    LET h == handler[s]
        organization == OrganizationOf[h.user]
        blocked == {d \in h.entitled :
                        ~MayLeave(PoliciesFor(organization), organization, ClassOf[d])}
    IN
    /\ h.phase = "grants"
    /\ h.left = {}
    /\ Advance(s,
        IF h.entitled = {} THEN Facts(h, {}, {}, "external")
        ELSE Facts(h, h.entitled \ blocked, h.entitled, ModelFor(blocked, h.entitled)))

\* _enterprise_trade_idea, _load_enterprise_positions: the organization's datasets of
\* positions, the grants of one after the other.
ListPositions(s) ==
    LET h == handler[s] IN
    /\ h.phase = "idea"
    /\ Advance(s,
        [phase |-> "positions", session |-> h.session, user |-> h.user, topic |-> h.topic,
         question |-> h.question, entitled |-> {},
         left |-> DatasetsOf(OrganizationOf[h.user]) \cap PositionDatasets])

CheckReader(s, d) ==
    LET h == handler[s] IN
    /\ h.phase = "positions"
    /\ d \in h.left
    /\ Advance(s,
        [h EXCEPT !.left = @ \ {d},
                  !.entitled = IF AgentIsEntitled(GrantsOn(d), PositionReader)
                               THEN @ \cup {d} ELSE @])

\* submit_trade_idea: which positions agree with the idea or oppose it is up to the idea, and
\* there may be none; no policy is asked.  It is in memory before the committee's models see it.
DraftIdea(s) ==
    LET h == handler[s] IN
    /\ h.phase = "positions"
    /\ h.left = {}
    /\ \E used \in SUBSET h.entitled :
         /\ cited' = cited \cup used
         /\ handler' = [handler EXCEPT ![s] =
                [Facts(h, used, used, "external") EXCEPT !.phase = "committee"]]
    /\ UNCHANGED <<accessTables, permitted, sessions, conversations, transcript, asked, faults,
                   troubled, edited>>

Deliberate(s) ==
    /\ handler[s].phase = "committee"
    /\ Advance(s, [handler[s] EXCEPT !.phase = "model"])

\* The model's answer comes back.
Complete(s) ==
    /\ handler[s].phase = "model"
    /\ Advance(s, [handler[s] EXCEPT !.phase = "reply"])

\* Mutant: the answer is stored before it is appended, by a handler of its own.
MutReply(s) ==
    LET h == handler[s] IN
    /\ h.phase = "reply"
    /\ sessions' = sessions
    /\ handler' = [handler EXCEPT ![s].phase = "answer"]
    /\ UNCHANGED <<accessTables, permitted, cited, conversations, transcript, asked, faults, troubled,
                   edited>>

\* The assistant's message, in memory first.
Reply(s) ==
    LET h == handler[s] IN
    /\ h.phase = "reply"
    /\ sessions' = [sessions EXCEPT ![h.session].messages =
                        Append(@, Turn("assistant", h.question, h.topic))]
    /\ handler' = [handler EXCEPT ![s].phase = "answer"]
    /\ UNCHANGED <<accessTables, permitted, cited, conversations, transcript, asked, faults, troubled,
                   edited>>

SaveAnswer(s) ==
    LET h == handler[s] IN
    /\ h.phase = "answer"
    /\ Storable(h.session)
    /\ transcript' = Append(transcript,
                            MessageRow(h.session, Turn("assistant", h.question, h.topic)))
    /\ handler' = [handler EXCEPT ![s] = Free]
    /\ UNCHANGED <<accessTables, permitted, cited, sessions, conversations, asked, faults, troubled,
                   edited>>

-----------------------------------------------------------------------------
\* A call of the handler fails (database, model): the request ends there.
ChatFails(s) ==
    LET h == handler[s] IN
    /\ h.phase # "free"
    /\ \/ faults < MaxFaults /\ faults' = faults + 1
       \/ /\ h.phase \in {"turn", "answer"} /\ ~Storable(h.session)
          /\ UNCHANGED faults
    /\ handler' = [handler EXCEPT ![s] = Free]
    /\ troubled' = troubled \cup {h.session}
    /\ UNCHANGED <<accessTables, permitted, cited, sessions, conversations, transcript, asked, edited>>

\* The process restarts: sessions are gone, their rows stay, and so do the ideas stored.
ChatRestart ==
    /\ faults < MaxFaults
    /\ faults' = faults + 1
    /\ \E kept \in SUBSET cited : cited' = kept
    /\ sessions' = [c \in Sessions |-> Unknown]
    /\ handler' = [s \in Senders |-> Free]
    /\ troubled' = {c \in Sessions : Exists(c)} \cup troubled
    /\ UNCHANGED <<accessTables, permitted, conversations, transcript, asked, edited>>

InFlight == {s \in Senders : handler[s] # Free}

\* An administrator edits the tables, or changes a user's role.
Edit ==
    /\ Administer
    /\ edited' = edited \cup InFlight
    /\ UNCHANGED <<permitted, cited, sessions, conversations, transcript, handler, asked, faults,
                   troubled>>

Reassign(u, permissions) ==
    /\ Change
    /\ permitted' = [permitted EXCEPT ![u] = permissions]
    /\ edited' = edited \cup InFlight
    /\ UNCHANGED <<workspaces, members, datasets, grants, policies, issued, enforced, sessions,
                   cited, conversations, transcript, handler, asked, faults, troubled>>

ChatInit ==
    /\ EnterpriseAccessInit
    /\ permitted \in [People -> {{"chief_agent.chat"} \cup {Required[t] : t \in Topics}}]
    /\ sessions = [c \in Sessions |-> Unknown]
    /\ conversations = {}
    /\ transcript = << >>
    /\ cited = {}
    /\ handler = [s \in Senders |-> Free]
    /\ asked = 0
    /\ faults = 0
    /\ troubled = {}
    /\ edited = {}

Handling(s) ==
    \/ SaveConversation(s) \/ SaveTurn(s) \/ Authorize(s)
    \/ ListDatasets(s) \/ ReadWorkspaces(s) \/ \E d \in Datasets : ReadGrants(s, d)
    \/ ReadPolicies(s)
    \/ ListPositions(s) \/ \E d \in Datasets : CheckReader(s, d)
    \/ DraftIdea(s) \/ Deliberate(s) \/ Complete(s) \/ Reply(s) \/ SaveAnswer(s) \/ ChatFails(s)

ChatNext ==
    \/ \E s \in Senders, c \in Sessions, u \in People :
         \/ CreateSession(s, c, u)
         \/ \E topic \in Topics : SendMessage(s, c, u, topic)
    \/ \E s \in Senders : Handling(s)
    \/ \E u \in People : Reassign(u, {"chief_agent.chat"})
    \/ Edit
    \/ ChatRestart

ChatSpec == ChatInit /\ [][ChatNext]_allChatVars

-----------------------------------------------------------------------------
(* Properties *)

\* What the facts of one question hold, and which model sees them.
AnswerStaysInside(s) ==
    LET h == handler[s]
        organization == OrganizationOf[h.user]
        open == {d \in Datasets :
                    MayLeave(PoliciesFor(organization), organization, ClassOf[d])}
    IN
    h.phase \in {"committee", "model"} =>
        /\ h.shown \subseteq h.named
        /\ h.topic \notin Quoting => \A d \in h.named : Owner[d] = organization
        /\ h.topic # "enterprise_data_query" => h.named \subseteq cited
        /\ h.topic \notin Quoting \cup {"enterprise_data_query", "enterprise_trade_idea"} =>
             h.named = {}
        /\ s \notin edited =>
             /\ Required[h.topic] \in permitted[h.user]
             /\ h.topic = "enterprise_data_query" =>
                  /\ h.named = {d \in Datasets : Sees(h.user, d)}
                  /\ h.shown \subseteq open
                  /\ h.model = "external" => h.named \subseteq open
             /\ h.topic = "enterprise_trade_idea" =>
                  \A d \in h.named : AgentIsEntitled(GrantsOn(d), PositionReader)

(***************************************************************************)
(* What a model is given.  A declined question read nothing and no model   *)
(* sees it.  A question about the enterprise data has only datasets of the *)
(* asker's organization in its facts; and unless an administrator edited a *)
(* table meanwhile, the pieces read one after the other are what the       *)
(* tables say at once: all datasets the user may see are named, an         *)
(* external model is given nothing a policy blocks, and gets no answer in  *)
(* which one is blocked (_enterprise_data_query).  What no policy is asked *)
(* about reaches a model only as what trade ideas cite: datasets of        *)
(* positions, of the organization that asked for the idea, open to the     *)
(* agent that reads them; and from then on whoever asks about the last     *)
(* idea (_enterprise_trade_idea, _show_evidence).                          *)
(***************************************************************************)
BlockedStaysInside ==
    /\ \A s \in Senders : AnswerStaysInside(s)
    /\ cited \subseteq PositionDatasets

\* list_chat_messages: the rows of a conversation, in the order of insertion.
StoredTurns(c) == {n \in DOMAIN transcript : transcript[n].conversation = c}

\* These rows, in this order, are the turns.
StoredAs(c, turns) ==
    \E at \in [DOMAIN turns -> StoredTurns(c)] :
        /\ \A m, n \in DOMAIN turns : m < n => at[m] < at[n]
        /\ \A row \in StoredTurns(c) : \E n \in DOMAIN turns : at[n] = row
        /\ \A n \in DOMAIN turns : transcript[at[n]] = MessageRow(c, turns[n])

(***************************************************************************)
(* A stored answer follows its stored question, whatever failed or         *)
(* restarted; and when nothing is in flight the stored conversation is the *)
(* one in memory, turn for turn, unless a send failed or two overlapped    *)
(* ("write-through durability layer", ChatConversationRow).                *)
(***************************************************************************)
TranscriptIsStored ==
    /\ \A n \in DOMAIN transcript :
         transcript[n].role = "assistant" =>
            \E m \in 1 .. n - 1 :
                /\ transcript[m].role = "user"
                /\ transcript[m].question = transcript[n].question
                /\ transcript[m].conversation = transcript[n].conversation
    /\ \A c \in Sessions :
         Here(c) = {} /\ c \notin troubled => StoredAs(c, sessions[c].messages)
=============================================================================
