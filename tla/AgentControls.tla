---------------------------- MODULE AgentControls ----------------------------
(***************************************************************************)
(* The agents and the administrators who pause them: the agent_configs     *)
(* table and the audit events of its changes, the research cycle of the    *)
(* Chief Trading Agent, the Investment Committee that deliberates on its   *)
(* idea and the Chief Investment Agent that routes it.  A cycle reads the  *)
(* table twice and awaits many calls in between; PATCH requests run at the *)
(* same time, in this process or another one.  Fractions of the code are   *)
(* thousandths here; what becomes of an approval is TradeLifecycle's part. *)
(*                                                                         *)
(* Sources: apps/api/api_app/state.py, routers/admin_agents.py,            *)
(* agent_catalog.py, packages/agent-sdk, packages/db/db/repository.py and  *)
(* services/agents.                                                        *)
(***************************************************************************)
EXTENDS Integers, FiniteSets

CONSTANTS
    Cycles,         \* coroutines that run a research cycle
    Patches,        \* PATCH /admin/agents/{agent_type} requests in progress
    Touched,        \* the agents that administrators change
    Unseeded,       \* agents newer than the release that seeded the table
    Failing,        \* agents that may raise
    WeekBalances,   \* Bcf of the storage week beyond that of the last seven days
    DemandDeltas,   \* hundredths of Bcf/d that two weather runs differ by
    MaxPatches, MaxAgentFaults      \* bounds

Fundamental == {"SUPPLY", "DEMAND", "STORAGE", "WEATHER"}
Boot == {"PIPELINE", "LNG", "POWER_MARKET"}     \* run by a boot's cycle only
Quant == {"FORECASTING", "REGIME_DETECTION", "RELATIVE_VALUE", "BACKTESTING"}
Members == {"BULL", "BEAR", "SKEPTIC", "DATA_INTEGRITY", "PORTFOLIO"}
Strategy == "DIRECTIONAL_STRATEGY"
Chief == "CHIEF_TRADING_AGENT"
Router == "CHIEF_INVESTMENT_AGENT"
News == "NEWS_INTELLIGENCE"

\* IMPLEMENTED_AGENT_TYPES without the Risk Governor, which has no controls.
Administrable == Fundamental \cup Boot \cup Quant \cup Members \cup {Strategy, Chief, Router, News}

ASSUME FiguresAssumption == WeekBalances \subseteq Int /\ DemandDeltas \subseteq Int
ASSUME TouchedAssumption == Touched \subseteq Administrable

\* No orchestration asks whether these two are disabled.
Unasked == {Chief, News}

Settable == {"ACTIVE", "PAUSED", "DISABLED", "TESTING"}
Off == {"PAUSED", "DISABLED"}

VARIABLES
    configs,        \* agent_configs: the status of each agent that has a row
    audited,        \* the status that the last audit event of an agent shows
    patch, patches, \* requests in progress, and how many there were
    cycle,          \* cycles in progress; a finished one stays until it is forgotten
    agentFaults,
    \* history: agents whose PATCHes overlapped, failed before their audit event or set a
    \* status without one because they had found no row; per cycle, the agents that the
    \* trail showed off, or on, ever since it began
    troubled, shown

agentVars == <<configs, audited, patch, patches, cycle, agentFaults, troubled, shown>>

Vacant == [step |-> "idle"]
NoIdea == [probability |-> 0, confidence |-> 0]
Fresh(boot) ==
    [step |-> "read", boot |-> boot, off |-> {}, ran |-> {}, skipped |-> {}, failed |-> {},
     idea |-> NoIdea, action |-> "NONE", state |-> "NONE"]

AgentControlsInit ==
    /\ configs = [a \in Administrable \ Unseeded |-> "ACTIVE"]
    /\ audited = [a \in Administrable |-> "ACTIVE"]
    /\ patch = [p \in Patches |-> Vacant] /\ patches = 0
    /\ cycle = [c \in Cycles |-> Vacant]
    /\ agentFaults = 0
    /\ troubled = {}
    /\ shown = [c \in Cycles |-> [off |-> {}, on |-> {}]]

-----------------------------------------------------------------------------
(* PATCH /admin/agents/{agent_type} *)

InProgress(a) == {p \in Patches : patch[p] # Vacant /\ patch[p].agent = a}

\* What a request finds of an agent that has no row.
NoRow == "NONE"

\* The row is read for the audit event; without one the request goes on.
BeginPatch(p, a, to) ==
    /\ patch[p] = Vacant /\ patches < MaxPatches
    /\ patches' = patches + 1
    /\ LET found == IF a \in DOMAIN configs THEN configs[a] ELSE NoRow IN
       patch' = [patch EXCEPT ![p] =
                    [step |-> "load", agent |-> a, before |-> found, loaded |-> NoRow, status |-> to]]
    /\ troubled' = IF InProgress(a) # {} THEN troubled \cup {a} ELSE troubled
    /\ UNCHANGED <<configs, audited, cycle, agentFaults>>

\* update_agent_config reads it again: an agent that still has none is unknown.
LoadPatch(p) ==
    /\ patch[p].step = "load"
    /\ LET a == patch[p].agent IN
       patch' = [patch EXCEPT ![p] =
                    IF a \notin DOMAIN configs THEN Vacant
                    ELSE [@ EXCEPT !.step = "update", !.loaded = configs[a]]]
    /\ UNCHANGED <<configs, audited, patches, cycle, agentFaults, troubled>>

\* The UPDATE leaves out a status that is the one loaded.
CommitPatch(p) ==
    /\ patch[p].step = "update"
    /\ configs' = IF patch[p].status = patch[p].loaded THEN configs
                  ELSE [configs EXCEPT ![patch[p].agent] = patch[p].status]
    /\ patch' = [patch EXCEPT ![p].step = "refresh"]
    /\ UNCHANGED <<audited, patches, cycle, agentFaults, troubled>>

\* The row is read again after the commit.  Only a change of status is audited, and none
\* of a row that the request did not find at first.
RefreshPatch(p) ==
    /\ patch[p].step = "refresh"
    /\ LET now == configs[patch[p].agent] IN
       patch' = [patch EXCEPT ![p] =
                    IF patch[p].before \in {NoRow, now} THEN Vacant
                    ELSE [@ EXCEPT !.step = "audit", !.status = now]]
    /\ troubled' = IF patch[p].before = NoRow THEN troubled \cup {patch[p].agent} ELSE troubled
    /\ UNCHANGED <<configs, audited, patches, cycle, agentFaults>>

AuditPatch(p) ==
    /\ patch[p].step = "audit"
    /\ audited' = [audited EXCEPT ![patch[p].agent] = patch[p].status]
    /\ patch' = [patch EXCEPT ![p] = Vacant]
    /\ UNCHANGED <<configs, patches, cycle, agentFaults, troubled>>

\* A call raises, or the process dies.
PatchFails(p) ==
    /\ patch[p] # Vacant
    /\ agentFaults < MaxAgentFaults
    /\ agentFaults' = agentFaults + 1
    /\ patch' = [patch EXCEPT ![p] = Vacant]
    /\ troubled' = IF patch[p].step \in {"load", "update"} THEN troubled
                   ELSE troubled \cup {patch[p].agent}
    /\ UNCHANGED <<configs, audited, patches, cycle>>

-----------------------------------------------------------------------------
(* What the agents answer *)

Least(a, b) == IF a <= b THEN a ELSE b
Size(n) == IF n < 0 THEN -n ELSE n

\* Mutant: a paused agent goes on.
MutDisabled == {a \in DOMAIN configs : configs[a] = "DISABLED"}

\* AppState._disabled_agent_types
Disabled == {a \in DOMAIN configs : configs[a] \in Off}

\* BaseAgent.run and skipped_result of a group: who ran, who raised and has no output, who
\* was passed over.
Asked(group, off, raising) ==
    [ran |-> group \ off, failed |-> (group \ off) \cap raising, skipped |-> group \cap off]

With(c, answers) ==
    [c EXCEPT !.ran = @ \cup answers.ran, !.failed = @ \cup answers.failed,
              !.skipped = @ \cup answers.skipped]

\* Of a consensus that is put 3 Bcf over the last seven days' balance.
StorageSignal(balance) ==
    LET surprise == balance - 3
    IN IF surprise <= -2 THEN 1 ELSE IF surprise >= 2 THEN -1 ELSE 0

WeatherSignal(delta) == IF delta > 15 THEN 1 ELSE IF delta < -15 THEN -1 ELSE 0
WeatherConfidence(delta) == 10 * (50 + Least(50, (Size(delta) + 5) \div 10))

\* DirectionalStrategyAgent: the idea is always LONG.
Proposal(balance, delta) ==
    LET combined == StorageSignal(balance) + WeatherSignal(delta)
    IN IF combined <= 0 THEN NoIdea
       ELSE [probability |-> Least(750, 500 + 80 * combined),
             confidence |-> Least(800, 450 + 100 * combined + WeatherConfidence(delta) \div 10)]

\* An idea of the strategy names its invalidation, data and a return above its loss.
Unresolved(idea) == idea.probability < 550

ConsensusScore(idea, integrity) ==
    (4 * idea.probability + 3 * idea.confidence + 3 * integrity + 5) \div 10

\* Mutant: the score decides before the quorum is looked at.
MutRecommendation(quorum, issues, unresolved, score) ==
    IF issues THEN "WAIT_FOR_MORE_DATA"
    ELSE IF score < 450 \/ (unresolved /\ score < 500) THEN "REJECT"
    ELSE IF score < 600 THEN "REDUCE_SIZE"
    ELSE "APPROVE_FOR_REVIEW"

\* InvestmentCommittee.deliberate; a missing member leaves a question unresolved, too.
Recommendation(quorum, issues, unresolved, score) ==
    IF ~quorum \/ issues THEN "WAIT_FOR_MORE_DATA"
    ELSE IF score < 450 \/ (unresolved /\ score < 500) THEN "REJECT"
    ELSE IF score < 600 THEN "REDUCE_SIZE"
    ELSE "APPROVE_FOR_REVIEW"

\* ChiefInvestmentAgent: only a refusal of either holds an idea back.
Forwards(verdict, action) ==
    verdict \in {"ALLOW", "REQUIRE_HUMAN", "REDUCE_SIZE"} /\ action # "REJECT"

-----------------------------------------------------------------------------
(* A research cycle *)

\* POST /agents/chief-trading/run, an organization's trade idea, or the worker's cycle.
BeginCycle(c) ==
    /\ cycle[c] = Vacant
    /\ cycle' = [cycle EXCEPT ![c] = Fresh(FALSE)]
    /\ UNCHANGED <<configs, audited, patch, patches, agentFaults, troubled>>

\* POST /admin/agents/CHIEF_TRADING_AGENT/run, which looks at the agent's own row.
RunManually(c) ==
    /\ Chief \notin Disabled
    /\ BeginCycle(c)

\* AppState.seed: rows for agents that have none, the news, then the first cycle.
SeedAndBoot(c) ==
    /\ cycle[c] = Vacant
    /\ configs' = [a \in Administrable |-> IF a \in DOMAIN configs THEN configs[a] ELSE "ACTIVE"]
    /\ cycle' = [cycle EXCEPT ![c] = [Fresh(TRUE) EXCEPT !.ran = {News}]]
    /\ UNCHANGED <<audited, patch, patches, agentFaults, troubled>>

At(c, step) == cycle[c].step = step
Goes(c, to) == cycle' = [cycle EXCEPT ![c] = to]

ReadControls(c) ==
    /\ At(c, "read")
    /\ Goes(c, [cycle[c] EXCEPT !.step = "research", !.off = Disabled])
    /\ UNCHANGED <<configs, audited, patch, patches, agentFaults, troubled>>

\* Agents that raise, within the bound on faults.
Raising(group) == {r \in SUBSET (group \cap Failing) : Cardinality(r) + agentFaults <= MaxAgentFaults}

\* Where a cycle goes on to when its research is done.
Submission(idea) == IF idea = NoIdea THEN "done" ELSE "submit"

\* ChiefTradingAgent.run_research_cycle: the strategy needs both reads; with neither of
\* them it is not even recorded, unless it is disabled.
Research(c) ==
    /\ At(c, "research")
    /\ \E raising \in Raising(Fundamental \cup {Strategy}), data \in BOOLEAN,
          balance \in WeekBalances, delta \in DemandDeltas :
         LET off == cycle[c].off
             team == Asked(Fundamental, off, raising \ (IF data THEN {} ELSE {"SUPPLY", "DEMAND", "STORAGE"}))
             ready == data /\ {"STORAGE", "WEATHER"} \subseteq team.ran \ team.failed
             author == Asked(IF ready \/ Strategy \in off THEN {Strategy} ELSE {}, off, raising)
             idea == IF author.ran = {} \/ author.failed # {} THEN NoIdea ELSE Proposal(balance, delta)
         IN /\ agentFaults' = agentFaults + Cardinality(team.failed \cup author.failed)
            /\ Goes(c, [With(With(cycle[c], team), author) EXCEPT
                          !.ran = @ \cup {Chief}, !.idea = idea,
                          !.step = IF cycle[c].boot THEN "quant" ELSE Submission(idea)])
    /\ UNCHANGED <<configs, audited, patch, patches, troubled>>

\* The rest of a boot's cycle: the pipeline graph may be missing, the price history too
\* short for the quantitative team, the curve or the TTF price missing.
QuantResearch(c) ==
    /\ At(c, "quant")
    /\ \E absent \in SUBSET {"PIPELINE", "RELATIVE_VALUE"}, history \in BOOLEAN :
         LET group == (Boot \cup (IF history THEN Quant ELSE {})) \ absent
         IN \E raising \in Raising(group \ cycle[c].off) :
              LET team == Asked(group, cycle[c].off, raising)
              IN /\ agentFaults' = agentFaults + Cardinality(team.failed)
                 /\ Goes(c, [With(cycle[c], team) EXCEPT !.step = Submission(cycle[c].idea)])
    /\ UNCHANGED <<configs, audited, patch, patches, troubled>>

\* AppState.submit_trade_idea: the idea is saved and announced, then the table is read again.
Submit(c) ==
    /\ At(c, "submit")
    /\ Goes(c, [cycle[c] EXCEPT !.step = "deliberate", !.off = Disabled])
    /\ UNCHANGED <<configs, audited, patch, patches, agentFaults, troubled>>

\* No observation is handed to the committee, so its data check finds none to fault; a
\* check that raised counts as full confidence.
Deliberate(c) ==
    /\ At(c, "deliberate")
    /\ \E raising \in Raising(Members \ cycle[c].off) :
         LET team == Asked(Members, cycle[c].off, raising)
             action == Recommendation(team.skipped = {}, FALSE, Unresolved(cycle[c].idea),
                                      ConsensusScore(cycle[c].idea, 1000))
         IN /\ agentFaults' = agentFaults + Cardinality(team.failed)
            /\ Goes(c, [With(cycle[c], team) EXCEPT !.step = "route", !.action = action])
    /\ UNCHANGED <<configs, audited, patch, patches, troubled>>

\* The decision is stored and the risk check made and stored; then what was read before
\* the deliberation decides whether the Chief Investment Agent is asked.
Route(c) ==
    /\ At(c, "route")
    /\ \E verdict \in {"ALLOW", "BLOCK"} :
         LET team == Asked({Router}, cycle[c].off, {})
             forward == team.ran # {} /\ Forwards(verdict, cycle[c].action)
         IN Goes(c, [With(cycle[c], team) EXCEPT
                       !.step = "done",
                       !.state = IF verdict # "ALLOW" THEN "RISK_REVIEW"
                                 ELSE IF forward THEN "HUMAN_REVIEW" ELSE "REJECTED"])
    /\ UNCHANGED <<configs, audited, patch, patches, agentFaults, troubled>>

\* A call that no agent's envelope surrounds raises, or the process dies.
CycleFails(c) ==
    /\ cycle[c].step \notin {"idle", "done"}
    /\ agentFaults < MaxAgentFaults
    /\ agentFaults' = agentFaults + 1
    /\ Goes(c, Vacant)
    /\ UNCHANGED <<configs, audited, patch, patches, troubled>>

Forget(c) ==
    /\ At(c, "done")
    /\ Goes(c, Vacant)
    /\ UNCHANGED <<configs, audited, patch, patches, agentFaults, troubled>>

-----------------------------------------------------------------------------
\* What a reader of the audit trail may rely on: nothing of this agent is in progress, no
\* two changes of it overlapped, and none went without its audit event.
Reliable(a) == a \notin troubled /\ \A p \in Patches : patch[p] = Vacant \/ patch[p].agent # a

ShownNow == LET of(statuses) == {a \in Touched : Reliable(a) /\ audited[a] \in statuses}
            IN [off |-> of(Off), on |-> of(Settable \ Off)]

\* History: what the trail shows from the first step of a cycle to its last.
Watch ==
    shown' = [c \in Cycles |->
                IF cycle'[c] = Vacant THEN [off |-> {}, on |-> {}]
                ELSE IF cycle[c] = Vacant THEN ShownNow'
                ELSE IF At(c, "done") THEN shown[c]
                ELSE [off |-> shown[c].off \cap ShownNow'.off, on |-> shown[c].on \cap ShownNow'.on]]

PatchStep ==
    \/ \E p \in Patches, a \in Touched, s \in Settable : BeginPatch(p, a, s)
    \/ \E p \in Patches : LoadPatch(p)
    \/ \E p \in Patches : CommitPatch(p)
    \/ \E p \in Patches : RefreshPatch(p)
    \/ \E p \in Patches : AuditPatch(p)
    \/ \E p \in Patches : PatchFails(p)

CycleStep ==
    \/ \E c \in Cycles : BeginCycle(c)
    \/ \E c \in Cycles : RunManually(c)
    \/ \E c \in Cycles : SeedAndBoot(c)
    \/ \E c \in Cycles : ReadControls(c)
    \/ \E c \in Cycles : Research(c)
    \/ \E c \in Cycles : QuantResearch(c)
    \/ \E c \in Cycles : Submit(c)
    \/ \E c \in Cycles : Deliberate(c)
    \/ \E c \in Cycles : Route(c)
    \/ \E c \in Cycles : CycleFails(c)
    \/ \E c \in Cycles : Forget(c)

AgentControlsNext == (PatchStep \/ CycleStep) /\ Watch

AgentControlsSpec == AgentControlsInit /\ [][AgentControlsNext]_agentVars

-----------------------------------------------------------------------------
Finished == {c \in Cycles : At(c, "done")}

\* An agent that the trail shows off stays out of a cycle, and nothing gets further for
\* its absence: no trade without a read or the strategy, no recommendation without a
\* member, no human review without the Chief Investment Agent.
OffStaysOut(c) ==
    LET off == shown[c].off \ Unasked
    IN /\ cycle[c].ran \cap off = {}
       /\ off \cap {"STORAGE", "WEATHER", Strategy} # {} => cycle[c].action = "NONE"
       /\ off \cap Members # {} => cycle[c].action \in {"NONE", "WAIT_FOR_MORE_DATA"}
       /\ Router \in off => cycle[c].state # "HUMAN_REVIEW"

\* An agent that the trail shows on is not passed over.
OnIsAsked(c) == cycle[c].skipped \cap shown[c].on = {}

\* What reaches a person has an author, both reads it rests on, and somebody who sent it.
ReviewHasAuthors(c) ==
    cycle[c].state = "HUMAN_REVIEW"
        => {"STORAGE", "WEATHER", Strategy, Router} \subseteq cycle[c].ran \ cycle[c].failed

(***************************************************************************)
(* Disabling an agent stops it from running, and fails closed: whatever    *)
(* requests, boots and cycles run at the same time, what the audit trail   *)
(* shows of an agent from the beginning of a cycle to its end decides      *)
(* whether the agent takes part, unless changes of that agent overlapped,  *)
(* lost their audit event or were made by a request that had found no row, *)
(* which gets none (_disabled_agent_types, run_research_cycle, deliberate, *)
(* submit_trade_idea, update_agent).                                       *)
(***************************************************************************)
DisabledAgentsStayOut ==
    \A c \in Finished : OffStaysOut(c) /\ OnIsAsked(c) /\ ReviewHasAuthors(c)
=============================================================================
