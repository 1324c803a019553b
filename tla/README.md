# AlphaGasIQ: specifications, model checking and proofs

TLA+ specifications of the stateful core of AlphaGasIQ, the TLC configurations
that check them on small instances, and theorems about them that TLAPS checks for
every value of the constants. Every definition is translated from the Python
source; `PROJECT.json` maps each one to its lines. Nothing here is part of the
program, and nothing here concerns the numerical models, prompts or web pages.

To check a module: `tlc -config TradeLifecycle.cfg MCTradeRefinement` (the module
that goes with a configuration is in the table of runs), and to check a proof:
`tlapm TradeLifecycleProofs.tla`.

## 1. The system

AlphaGasIQ is a FastAPI application with one background worker. Each of the two
processes has one asyncio event loop, its own `AppState` (`api_app/state.py`) and,
by default, its own in-memory event bus. They share only the database, written
through `SqlAppRepository` (`packages/db/db/repository.py`): memory is changed
first, a row is written in an awaited transaction afterwards, and a process
started later hydrates from the tables. There are no locks around any of this
except in `seed`. A coroutine runs without interruption between two awaits, and
everything that can go wrong goes wrong at an await.

| Component | State | Operations | Talks to |
|---|---|---|---|
| Risk Governor (`services/risk`) | none; context in, verdict out | `evaluate` | called by submission |
| Trade lifecycle (`state.py`, `routers/approvals.py`, `trading.py`) | `trade_ideas`, `decisions`, `risk_checks`, `approvals`, `decision_journal`, `post_trade_analyses`, `trading_halted` and their tables | `submit_trade_idea`, `act_on_approval`, `close_trade`, `set_trading_halted`, hydrate | governor, committee, paper execution, repository, event bus |
| Risk settings (`routers/risk.py`, `admin_governance.py`) | `risk_limits`, its effective-dated table, `audit_events` | two PUT endpoints, hydrate | governor reads what they set |
| Paper execution (`services/paper-execution`) | orders, fills, one netted position per instrument, only in memory | `submit_order`, `apply_fill` | approvals, close |
| Agent versions and models (`admin_agent_versions.py`, `admin_models.py`, `state.py`) | `agent_versions`, `model_definitions`, the live agents of each process | draft, transition, apply, seed at boot | repository; both processes |
| Market data and configuration (`state.py`, `worker.py`, `config_store.py`) | observation rows, `app_config`, and in each process the environment, the registry and the curve | overlay, fetch, refresh, rehydrate, reload, fingerprint | worker writes, API reads back in a loop |
| Observations (`repository.py`) | bitemporal revisions | `save_market_observation`, as-of listing | both processes save |
| Feeds (`feed_scheduler.py`, `admin_data_feeds.py`) | `data_feed_configs` with `last_polled_at` | poll due feeds, edit, refresh by hand | worker polls, API edits |
| Enterprise data (`services/enterprise_data`, its routers) | staged webhook rows, records, row counts, retention policies, grants, routing policies | push, drain, fetch, ingest, purge, grant, route | chat and opportunities read it |
| Enterprise opportunities (`opportunity.py`, `alpha_enterprise.py`) | drafts and their review | generate by request and by cycle, review, corroborate a trade | positions, signals, views; submission |
| Accounts (`account_states.py`, `magic_link.py`, `admin_users.py`) | status, sign-in links, sessions | create, request, follow, change status, revoke | all routers |
| Features, permissions, settings (`entitlements.py`, `admin_console.py`) | grant rows of four kinds, a versioned setting and its history | seed at boot, set, resolve | all routers |
| Alpha intelligence (`services/alpha`, `state.py`, `routers/alpha.py`) | baselines, signals, impacts, forecasts, views, runs, memories, lessons, briefs, trust of agents; short lists of each in every process | research cycle, scenario run, comparison, memory, review, brief, replay | reads market data; annotates trades |
| Chat (`chat.py`, `chat_agent.py`) | sessions in memory, conversations and messages in tables | create, send, answer | reads everything above, calls a model |
| Event bus and WebSocket (`eventbus.py`, `ws.py`) | handler lists, queues | publish, subscribe | lifecycle events to browsers |
| Committee and research agents (`services/agents`, `admin_agents.py`) | `agent_configs` and their audit events; none between calls | change a status, run a research cycle, deliberate, route | submit trades, answer submission |

The behaviours that are hard: handlers of one process interleaving at their
awaits; a write-through that a crash or a failing call cuts in the middle; a save
that carries an older snapshot and commits last; rows that are read in one await
and written in a later one; two processes deciding from the same rows; a restart
that brings back less, or something older, than memory had; a state machine whose
guard is on one edge while another edge goes around it; an answer put together
from several reads while administrators edit what is read; a loop that must get
to everything although one item fails.

What makes each component correct:

- **Governor**: every context gets a verdict; ALLOW only if every rule passed;
  the first failing rule decides; a rule that raises never lets a trade through.
- **Lifecycle**: a trade that was not allowed is in play only after a person
  reworked it; a record is never kept without those it refers to, in memory or in
  the store; CLOSED is final; a close only reduces a position; every submission
  gets an approval.
- **Risk settings**: an audited change is durable; limits in force are older than
  durable ones only by a stamp that a request body chose.
- **Paper book**: the position is the sum of its fills and no money appears.
- **Agent versions**: no version bypasses evaluation; an agent runs only with what
  was evaluated; one PRODUCTION version; a rollback is audited.
- **Market data**: the served curve never joins sources and is never blanked; what
  the worker stores and what an administrator configures reaches the other process.
- **Observations**: no moment is forgotten, and the highest revision is current.
- **Feeds**: polls keep their distance, and an active feed goes on being polled.
- **Enterprise data**: a row is staged, in flight or stored, and is lost only to a
  fault; counts do not exceed what was ever saved; a purge follows the policy it read and the
  expired is purged; what a policy blocks stays inside; access opens for a reason.
- **Opportunities**: a draft follows from the organization's own tables.
- **Accounts**: the account follows its documented life; a link opens one session.
- **Features**: the last edit committed is what the rows say; nothing opens by itself.
- **Alpha**: a material change is reported once and explained once; the replay of a
  past moment does not change; one change of the market is read one way by all
  engines; stress is coherent; a report leaves nothing of its cycle out.
- **Agents**: a disabled agent stays out of a cycle, and its absence lets no trade get
  further.
- **Chat**: an answer keeps to its permission; the stored conversation is the one in
  memory.
- **Bus and socket** (not modelled): a subscriber gets each event once, in order.

## 2. The modules

| Module | Models | Uses |
|---|---|---|
| `RiskRules` | the ten rules, their failure verdicts and the declarative verdict | |
| `RiskGovernor` | the loop of `evaluate`, with its exception guard | `RiskRules` |
| `TradeLifecycle` | submission, actions, execution, closing, halt, crash, failed call | `RiskRules` |
| `ApprovalPromise` | abstract: where a trade stands, to somebody who sees only that | |
| `TradeRefinement` | the mapping from `TradeLifecycle` to `ApprovalPromise` | both |
| `RiskSettings` | both PUT endpoints, the limits table, the audit trail, hydrate | |
| `PaperBook` | orders, partial fills, blending and reducing one position | |
| `AgentVersions` | version rows, model rows, live agents, admin requests, boots | |
| `MarketData` | the curve in worker and API, the overlay that selects its source, reload, rehydration | |
| `ObservationHistory` | revisions of one observation, saved by two processes | |
| `FeedSchedule` | the worker's tick, feed rows, edits and manual refreshes | |
| `EnterpriseIngest` | push, drain, fetch, save, schema, row count | |
| `DataRetention` | retention policies, ordered purges, the worker's purge cycle | |
| `EnterpriseAccess` | workspaces, members, grants, routing policies and the decisions over them | |
| `Opportunities` | positions read, opportunities drafted, saved and reviewed, trades corroborated | `EnterpriseAccess` |
| `Chat` | sessions, transcripts, the reads behind an answer about enterprise data | `EnterpriseAccess` |
| `Accounts` | one account: status, links, sessions, requests in flight | |
| `Access` | features, permissions, settings; boots that seed them, administrators who edit them | |
| `SignalRules` | materiality and detection | |
| `AlphaViews` | forecasts, trust, consensus, market bias, annotation of a trade | `SignalRules` |
| `AlphaChains` | impacts, stress, post-trade verdict, lesson, brief | `AlphaViews` |
| `AlphaStore` | the Alpha tables and every query of them | `AlphaChains` |
| `AlphaCycle` | the jobs that run all this, over tables and lists in memory | `AlphaStore` |
| `ChatTools` | routing, permissions and answers of the chat's other tools | `AlphaStore` |
| `AgentControls` | the statuses of agents, requests that change them, a research cycle from its first read to the routing of its trade | |
| `MC...` | values of the constants for TLC, and components put side by side | |
| `...Proofs` | theorems (section 5): `TradeLifecycleProofs` (with the refinement), `FeedScheduleProofs`, `AgentVersionsProofs`, `MarketDataProofs`, `StoresProofs` (observations, enterprise rows, retention), `ControlsProofs` (the rule chain and the governor, risk settings, paper book, accounts, agents), `AlphaProofs`, `DeskProofs` (chat and the grants it reads, opportunities, features and settings) | |

**RiskRules, RiskGovernor.** A context is a record with one field for each fact
the rules read. `RuleChain` is `RULE_CHAIN`, in its order. The verdict operator
says "the verdict of the first failing rule, else ALLOW"; the loop of
`evaluate` (one step per rule, a rule may raise, no context is possible) is
checked against it. `TradeLifecycle` calls the operator for
`submit_trade_idea`'s context, with the fields that function never fills left at
what their defaults give.

**TradeLifecycle.** `mem[t]` and `db[t]` are the rows of a trade in
`AppState`'s dictionaries and in the tables: `trade`, `decided`, `verdict`,
`state`, `actions`, `analysed`, `journal`. A handler has an awaited call `pc[h]`,
a trade `on[h]` and the copy `snap[h]` that its pending save will write:
`persist_approval` copies the approval before it awaits, so an older copy can
commit last. An action is "the awaited call takes effect, then the code up to
the next await": `Submit`, `TradeSaved`, `Deliberated`, `DecisionSaved`,
`CheckSaved`, `Routed`, `RoutingSaved`, `SubmissionJournaled` are
`submit_trade_idea`; `ActOnApproval`, `Approve`, `ApproveRefused`, `ActionSaved`
are `act_on_approval`; `Close`, `ClosePublished`, `AnalysisSaved`, `CloseSaved`,
`CloseJournaled`, `MemorySaved` are `close_trade`. `Abort` is an awaited call that
raises, `Restart` a crash and the hydration after it. The portfolio is a signed
quantity for each instrument, because fills of LONG and SHORT trades net.

**ApprovalPromise, TradeRefinement.** The promise has three variables: where a
trade stands (undecided, vetoed, open, executed, rejected, closed), the places a
restart may bring it back to, and which trades somebody is closing. The mapping
computes all three from `TradeLifecycle`'s state: the places that can be
recovered are those of the stored row and of the saves in flight, and a trade is
being closed while a `close_trade` waits before it has assigned CLOSED. It needs
no history variable.

**RiskSettings.** A row has its value, `effective_from` as a time stamp, and where
the stamp came from: the clock, or a body of PUT /risk/limits, which may carry any
moment, past (what GET returned, edited) or ahead of the clock (`MaxAhead`). `limits`
is `AppState.risk_limits`, which changes before the row is inserted. `Restart` picks
any row that `ORDER BY effective_from DESC` may put first.

**PaperBook.** `Applied` is `Position.apply_fill`; money is an exact fraction, never
reduced. An order's quantity is any integer of `Quantities`: the payload of an approval
is not validated, so fills of zero and of less than zero happen, and a negative purchase
moves the position as a sale does (`Heading`).

**AgentVersions.** The rows of one agent (agents share no row), the model
definitions, and for API and workers the live agent's prompt and model. A job is
an admin request or a boot; its record holds the step it awaits and what it has
read. `RequestTransition`, `ReadModel`, `ReadPrior`, `Commit` are the reads and
the one commit of `transition_agent_version_status`, in their order; `Commit`
writes by id whatever the rows have become. `ReadProduction`, `Apply` are
`apply_production_agent_version`; `RecordAudit` follows. `Boot`, `SeedRead`,
`SeedInsert`, `LookForProduction`, `SeedDraft`, `SeedTransition` are `seed`, which
takes its draft through the same transitions.

**MarketData.** A process has its environment, its registry of providers and its
curve; a coroutine has the step it awaits and what it has fetched or read. The
points of a curve carry their source and the tick at which their fetch began.
`Start` and `BootReload` are a process's boot, each of which may fail
(`BootReloadFails`: the worker goes on with what it has and takes the fingerprint all the
same); `CheckConfig`, `Reapply`, `ReapplyFails`, `FullRefresh` are the worker's reload, and
a fingerprint that cannot be read is the empty one (`FingerprintIs`). The history variable
`missed` says that a saved setting is hidden from the checks: it was saved between the
overlay and the fingerprint of the start, was not in force when the reload of the start
failed, or was put back to the value fingerprinted after a reload had seen the one in
between. The next change that a check notices ends that.
`Persist` saves a curve row by row and may break off after any of them;
`RehydrateRead`, `RehydrateApply` are the API's loop; `OneSource` is the filter on
what was read.

**ObservationHistory.** A save is `ReadPrior` and `Commit`; `VisibleAt` is what
`list_market_observations_as_of` shows for a moment.

**FeedSchedule.** Time is kept as ages (since a row's `last_polled_at`, since a
tick's `now`) that stop at the longest interval. `BeginTick` decides what is due
once; `Ingested`, `Stamped`, `Recorded` go through the queue it made, a set from which
`First` takes the next one in the order of the rows.

**EnterpriseIngest, DataRetention.** A row is a number, and a record of it the row with
the number of its copy; a record that ages is a dataset and a day. The steps of
an ingest are its transactions. The two modules share one table, the records: to the
ingest a purge is `PurgeRecords`, which deletes records and leaves `row_count` alone
(`purged` keeps what is gone, so that the count can be compared with what was ever
saved), and to retention an ingest is `NewRecord`; neither reads the table before it
writes it. A purge is `ResolvePolicy`, `ListDatasets` and one
`Purge` for each dataset; the cycle is a queue of pairs, ended by the first failure.

**EnterpriseAccess, Chat, Opportunities.** The tables and the two decisions over them
are shared. A chat handler or an opportunity job reads them in the order of the code
(datasets, memberships or grants of one dataset after the other, policies or
records, signals, views), while administrators edit them. `ModelFor` is
`PolicyGatedLLMProvider`; `Generated` is `EnterpriseOpportunityEngine.generate`;
`Corroborated` the enterprise corroboration that submission runs on an
organization's idea. The chat's `enterprise_trade_idea` lists the organization's datasets
of positions, checks the grants of one after the other for the agent that reads them
(`ListPositions`, `CheckReader`), and an idea that cites some of them is in memory before
the committee's models see it (`DraftIdea`, `Deliberate`). No policy is asked on that path,
so `cited` remembers what such ideas cite, and a later question about the last idea
(`Quoting`) may hand any of it to the model, whoever asks; which idea is the last one is
left open. Who may review an opportunity (`Reviews`: an account of the organization, or a
cross-organization administrator without an account) is a guard of the model and
not the subject of a property.

**Accounts, Access.** Requests are the reads and commits of their handlers. An override
is a row found, then changed or inserted; nothing in the tables keeps it single.
`overrides` holds, for each scope and item, what its rows say in the order of insertion;
`decided`, what the last committed edit left it at: an edit that asks for the value it
has read sends no UPDATE (`Decision`, `Updated`), so that what a concurrent edit wrote
in between stays. `SetGlobal` and `SaveUser` read and write in one step. `Start`,
`SeedRead`, `SeedWrite`, `SeedConflict` are a boot that reads what exists and inserts
what is missing, stage by stage.

**The Alpha modules.** The calculations are operators, exact where the code has floats
(percent, tenths, thousandths), and `AlphaCycle` calls them at the step where the code
does: baselines read, replaced, signals saved one by one each with its impact,
forecasts, view, trade idea; a brief fixes its period (`BeginBrief`) and makes its five
queries one step each (`ReadForBrief`, in `BriefOrder`); scenario runs, memories and
lessons. A row gets its stamp when it is built and is committed in a later step. Every
query of the replay, the brief and the routers is an operator of `AlphaStore`, with its
scope, window and limit. `ChatTools` answers a question, which is a set of text
fragments, from what a process holds.

**AgentControls.** `configs` is the `agent_configs` table, `patch[p]` a PATCH request
with the call it awaits, `cycle[c]` a research cycle: who ran, who was skipped, who
raised, its idea, the recommendation, the approval's state. `BeginPatch`, `LoadPatch`,
`CommitPatch`, `RefreshPatch`, `AuditPatch` are `update_agent` and the transactions it
makes: the row is read before the change (`NoRow` if there is none yet, which a boot may
be about to insert), again by the change itself, and after it; `ReadControls`,
`Research`, `QuantResearch`, `Submit`, `Deliberate`, `Route` are `run_research_cycle`
and `submit_trade_idea`, which reads the table a second time. `Proposal`,
`ConsensusScore`, `Recommendation` are the arithmetic of the strategy and of the
coordinator in thousandths. The history variables hold what a reader of the audit trail
has seen of an agent ever since a cycle began: the property is about that reader, not
about the row that the code happened to read.

## 3. What TLC checks

Every state of each instance is visited; nothing is simulated. Components that share
no state, or only a table that neither reads before it writes it (ingest and retention), are
put in one run: the first state says which one runs, the others stay as
they began (`part` in `MCControls`, `MCDesk`, `MCStores` and `MCAlpha`). The modules
that theorems are about are extended by the module of a run, never instantiated, so that
a run checks the very formula that is proved.

| Run | Shows |
|---|---|
| `TradeLifecycle` (`MCTradeRefinement`) | `VetoedTradeNeedsRework`, `RecordsInOrder` and the refinement `KeepsPromise`, which has the finality of CLOSED in it |
| `TradeLifecycle_pair` (`MCTradeLifecycle`) | `QuietStoreMatchesMemory`, `CloseOnlyReduces`, `SubmissionSettles` |
| `Controls` (`MCControls`) | risk limits (`AuditedChangesAreDurable`, `LimitsNeverRegress`), the governor's loop (`MatchesReference`), the book (`FillsExplainPosition`), one account (`LinkOpensOneSession`, `StatusFollowsTable`), the agents (`DisabledAgentsStayOut`) |
| `AgentVersions` (`MCAgentVersions`) | `EvaluationNeverBypassed`, `OnlyEvaluatedGoesLive`, `RollbackIsAudited`, `PromotionLeavesOne` |
| `FeedSchedule` (`MCFeedSchedule`) | `PollsAreSpaced`, `ActiveFeedKeepsPolling` |
| `MarketData` | `ServedCurveHasOneSource`, `CurveIsNeverBlanked`, `ProcessesCatchUp` |
| `Stores` (`MCStores`) | `HistoryIsSound`, `RowsAreAccountedFor`, `PurgeFollowsPolicy`, `ExpiredIsPurged` |
| `Alpha` (`MCAlpha`) | `MaterialChangesAreReported`, `EverySignalIsExplained`, `ReplayIsStable`, `ReportsAreComplete` of the jobs; `MarketIsReadOneWay`, `StressIsCoherent`, `AnswersKeepToTheirPermission` of the calculations |
| `Desk` (`MCDesk`) | features (`EditsGovern`, `OpensForAReason`), chat and grants (`BlockedStaysInside`, `TranscriptIsStored`, `AccessOpensForAReason`), opportunities (`OpportunitiesAreFounded`) |
| `TradeLifecycle_veto` | violated: `VetoIsAbsolute` |
| `Alpha_lists` | violated: `ImpactsFollowSignals` |
| `Desk_agents` | violated: `AgentGrantsAreApart` |

### Bounds, and why they are enough

- `TradeLifecycle`: one trade, two handlers, three actions, one crash, one failed
  call. Handlers on different trades share only the position and the limits, which
  the pair run covers; two handlers give every order of two saves of one approval,
  and three actions the longest path that matters (MODIFY, APPROVE, and another
  while a close is in flight).
- `TradeLifecycle_pair`: two trades of opposite direction on one instrument, so
  positions net to zero and turn; quantities 3 and 5, of which 5 can fill partly
  (60% to 99%); limits that allow and limits that answer HALT; a crash; one
  handler, since the run is about quantities and about states with nothing in
  flight.
- `Controls`: two admin requests and one desk request on two values of the limits, with
  one crash and one failed call, enough for an insert that commits after a later one and
  for a crash between the two transactions of an admin request; the governor with at
  most two failing rules, numeric facts at their threshold and one past it; the book
  with four orders of -2, 0, 2 or 5; stamps of bodies up to two ticks ahead; one account
  with two links or two changes, and three of links, changes and faults in all; one
  cycle of the agents with two PATCHes, on a read, a committee member without a row yet
  and the agent that routes, storage surprises of -2 and 2, weather changes at the
  threshold and one past it, and one fault.
- `AgentVersions`: two requests, API and one worker, two boots in all, two
  version rows, two model rows, one crash or failed call, three requests that
  change a status. A boot that dies half-way leaves a draft that requests carry
  on with, so a whole promotion, a second one that overlaps it, a rollback and a
  changed model all fit.
- `FeedSchedule`: two feeds with intervals of one and two units, one edit, one
  manual refresh, one fault: one feed waits while the other is fetched, and an edit
  falls into a tick.
- `MarketData`: curves of two months (the front month is refreshed alone), two
  fetches, a scan of three rows, which is fewer than the store may hold, and three events in
  all: edits of the setting, requests for a reload, crashes, failed reloads and unreadable
  fingerprints. Three are the shortest way to each of the cases of `missed`.
- `Stores`: three versions of an observation in two numberings and four fetches;
  three rows, two administrators, two pulls, one fault and any purges; two organizations, two
  classes, two policies, two edits and one ordered purge beside the cycle.
- `Alpha`: five sets of jobs (boots of both processes, cycles on demand and for an
  organization, scenario, comparison, memory, two reviews), three sights of the market
  that move a price and a trend, lists of two and queries of three rows, so that
  lists are cut. The calculations run on a grid of markets with their mirror images,
  of books and scenario stacks, and of questions of two fragments.
- `Desk`: two boots and an edit, or one boot and two edits; three edits of the tables,
  or two questions and an edit or a fault, about the enterprise data, a trade idea or
  the last idea, from tables with a workspace and datasets (a question about anything else is
  asked beside the edits of the tables); one opportunity job over two organizations,
  of which one has a person to review, with three rows, edits or a fault.

`CHECK_DEADLOCK FALSE` is set where bounds on requests, actions and crashes let a
finished system stop; the program itself waits for the next request.

### Fairness

`FairSpec` of `TradeLifecycle` is weak fairness of `Progress(h)` for each handler:
once its awaited call has answered, the event loop resumes a coroutine, and calls
answer or raise (`Abort` also ends the wait). `FeedSchedule` has weak fairness of
time, of the worker's tick and of the steps of a fetch, which has a timeout;
`MarketData` of the worker's loop and of the API's; `DataRetention` of the worker's
purge cycle. These are loops that the processes run for ever. No fairness is assumed
of requests, crashes or failures; that a failing call does not fail for ever is part
of the bounds on faults.

### Disagreements with the documentation

Shown by a run (details and quotations in `PROJECT.json`, "findings"):

1. A vetoed trade reaches paper execution through MODIFY and APPROVE;
   docs/risk-framework.md:10 says it cannot without a cleared check.
2. A process's list of recent impacts is said to correspond one to one to its list of
   recent signals; two cycles append to them in different orders, and each is cut by itself,
   so that the chat, which looks an impact up by its signal's id and takes the newest impact
   if there is none (chat_agent.py:657-670), may explain another signal.
3. A dataset whose only grant names an agent is hidden from everybody, though grants
   to agents are said to be evaluated apart.

Read in the code while modelling:

- `close_trade` assigns CLOSED without looking again, over a REJECTED that arrived
  meanwhile; positions are never persisted, so that after a restart an executed trade
  has none and cannot be closed.
- Limits changed by GET, edit, PUT keep their old `effective_from`; a restart may
  bring back the ones they replaced. A body may also carry a future `effective_from`
  (schemas/risk.py:20): a restart brings its limits back
  over those set later, as long as their stamps are before that moment.
  `LimitsNeverRegress` excuses both.
- Two overlapping promotions leave two PRODUCTION versions, and every later read of
  the PRODUCTION version raises. PRODUCTION to RETIRED does not touch the live agent.
- REQUIRE_HUMAN of an early rule ends the chain, so a later BLOCK is not found
  (governor.py:216; docs/risk-framework.md:43).
- EXECUTED_SIMULATION can still be rejected, reworked or approved again
  (approvals.py:51; docs/risk-framework.md:71). The promise module has these moves.
- `close_trade` takes the instrument's netted position, thus also a sibling
  trade's part of it (state.py:1685).
- A halt does not stop an APPROVE that comes after it, a HALT verdict does not set
  the flag, and a restart clears it (approvals.py:63, state.py:1631;
  docs/risk-framework.md:58-60).
- The stored action log can lose an entry to an older snapshot that commits last,
  when the newer save fails or the process dies (repository.py:3504;
  docs/risk-framework.md:72-74).
- The audit event's `after` is read from shared state after an await and may be
  another request's (admin_governance.py:80; docs/agent-governance.md:213).
- A promotion changes the live agent of the API only; a worker follows at its next
  boot (state.py:394; docs/agent-governance.md, section 4).
- With no PRODUCTION version and the default model no longer APPROVED, a process
  cannot boot: the seeding transition raises.
- "NEVER mix sources into one curve": the worker's own curve is mixed when the front
  month of a new source arrives and the full refresh answered nothing
  (`CurvesHaveOneSource`). The API's never is.
- A setting saved while the worker is starting, or one saved before when the overlay of its
  start fails (worker.py:69-89), is in its fingerprint and not in its environment
  (`SavedSettingReachesWorker`); so is one that is put back to the fingerprinted value
  between two reads of a check. Each stays so until the next change or restart.
- "A row is ingested at most once": two overlapping drains select the same rows
  (`IngestedAtMostOnce`). A retention purge leaves `row_count` at what was saved
  (repository.py:3854-3873). A purge ordered for the platform does not look for
  organizations' own policies (`OverrideSurvivesPlatformPurge`).
- A storage result never carries the consensus it is compared with, so storage never
  takes part in the disagreement of agents (signal_detector.py); trade ideas cite
  signals of earlier cycles too, not "this cycle's" (trading_integration.py).
- `generate_enterprise_opportunities` says it checks no grants; it checks those to
  agents. "Your organization holds no position in this market" leaves out datasets
  that such a grant hides and records beyond the newest 200.
- The chat's "hurricane" names a scenario that the library does not have; the
  comparison of scenarios runs on the paper book under alpha_scenarios.view.
- `filter_entitled_enterprise_datasets` takes the roles of the token, which
  `_resolve_user_record` elsewhere replaces by the account's.
- A committee without quorum answers WAIT_FOR_MORE_DATA, which the Chief Investment
  Agent forwards to human review: it refuses REJECT only
  (chief_investment_agent.py; "fail closed" in docs/agent-governance.md, section 3).
- No observation is handed to the committee and the strategy's ideas score .6 or more,
  so that as wired it answers APPROVE_FOR_REVIEW or WAIT_FOR_MORE_DATA; a data check
  that raised counts as confidence 1.0 without issues (coordinator.py).
- `POST /agents/chief-trading/run` runs a paused Chief Trading Agent, a boot runs a
  disabled NEWS_INTELLIGENCE (`Unasked` in `AgentControls`). The strategy trades on one
  signal when the other is neutral, and committee members' results are not in
  `agent_execution_log`.
- Two overlapping PATCHes of one agent can leave a change of status without an audit
  event, and so does one whose agent had no row yet when it began and was seeded before it
  wrote (admin_agents.py:147-153).
- The chat's trade ideas hand the organization's positions to the committee's agents and to
  the default model without a routing decision (chat_agent.py:235 and 559-602), and
  `_show_evidence`, `_why_bias` and `_most_disagreeing_agent` quote the last idea to users of
  any organization. llm.py:86-90 says that the chat "evaluates every enterprise dataset
  classification a chat request touches"; that is so of `_enterprise_data_query` alone, of
  which `BlockedStaysInside` says it.
- An edit of an override that asks for the value it read leaves a concurrent edit to the
  opposite in force, though it answers last (repository.py:1392, 1413, 1452).
- The edited copy of a lesson in a process's list may be older than its row
  (state.py:1830).

## 4. Abstractions

- An event publish is folded into the neighbouring awaited call: the default bus
  runs its handlers before it returns and they keep no state modelled here. Only
  the publish inside `close_trade` is a step, because with Redpanda it can fail
  after the closing fill.
- The answer of a language model is any answer. To `TradeLifecycle` so is that of the
  committee and of the agents, which `AgentControls` has.
- In `AgentControls` the governor allows or blocks, and what a research agent finds is
  left out unless the strategy reads it. A cycle counts as one that saw an agent off, or
  on, if the audit trail said so all through it.
- Quantities, limits and prices are integers. Floats are exact fractions in
  `PaperBook` and numbers of a fixed unit (percent, tenths, thousandths), rounded, in
  the Alpha modules; the clearing of positions below 1e-9 is clearing at zero, and a
  quantity that is no finite number is left out.
- Time stamps are distinct unless a body repeats one. `FeedSchedule` keeps ages,
  `DataRetention` days, `AlphaStore` numbers of its clock.
- What `hydrate` does to `risk_limits` is in `RiskSettings`, where `TradeLifecycle`
  takes some limits that were in force; its `SetRiskLimits` changes memory only.
- In `AgentVersions` a prompt is named by its version and every model status other
  than APPROVED is AVAILABLE. The earlier stages of `seed` are in `Access`.
- Text is what is looked for in it: a question is a set of fragments, an answer or a
  prompt the rows whose content is in it.
- Lengths of lists and limits of queries are constants, so that an instance reaches
  them with small numbers (lists of two, scans of three rows). The 30 days and 200
  rows of `Opportunities` are out of its run's reach and left out.
- The order in which one request returns drafts, signals or rows of equal rank is left
  out unless a limit cuts it.
- Of a row with many columns, those are kept that a condition reads.

## 5. What is proved

TLAPS checks these for any number of trades, handlers, requests, versions, accounts'
links, grants and faults and for all limits, from the `ASSUME`s of the modules alone
(constants have their types; `NoTrade` is no trade, and the like), which TLC
evaluates in the runs. `LoopMatchesReference` states its two assumptions itself: the
configured answer of the provider rule is a verdict other than ALLOW, and "no context"
is not a context.

| Theorem | Module | Argument |
|---|---|---|
| `VerdictType`, `AllowIffAllPass`, `TighterLimitsNeverAllowMore` | `ControlsProofs` | the least failing position exists; lowering a limit only adds failing rules |
| `LoopMatchesReference` | `ControlsProofs` | `SoFar`: every rule before the next one passed, did not raise and is in the trail |
| `TypeCorrect` | `TradeLifecycleProofs` | one step per action |
| `RecordsStayInOrder`, `VetoNeedsRework`, `ClosedTradesStayClosed` | `TradeLifecycleProofs` | from `Inductive`, below |
| `ClosingReduces` | `TradeLifecycleProofs` | only `Close` starts a close, and an order for q > 0 fills between 1 and q |
| `StoreCatchesUp` | `TradeLifecycleProofs` | who will still save what: see below |
| `RecordsCatchUp`, `OneRequestAtATime` | `TradeLifecycleProofs` | two halves of that argument, stated by themselves |
| `LifecycleKeepsPromise` | `TradeLifecycleProofs` | one lemma for each effect a step can have on the promise, below |
| `SettingsTypes`, `AuditsAreDurable`, `LimitsAreNewest` | `ControlsProofs` | what each request has saved at each step, and that no row is newer than the clock's last but by a stamp ahead of it |
| `VersionTypes`, `EvaluationHolds`, `LiveIsEvaluated` | `AgentVersionsProofs` | from `Inductive` of that module |
| `PromotionsLeaveOne` | `AgentVersionsProofs` | `PriorsAreCurrent`: what a promotion read as PRODUCTION still is, until a commit overtakes it |
| `RollbacksAreAudited` | `AgentVersionsProofs` | `BootsOnlyPromote`: only requests roll back, and a request past its commit goes on to its event or fails |
| `BooksExplainPosition` | `ControlsProofs` | `TotalOfMore`: a sum grows by what is appended, though its definition is recursive; then integer identities, one for each of opening or adding, reducing, closing and flipping, by fills of either sign or of nothing, and that a mean lies between |
| `AccountsFollowTheTable` | `ControlsProofs` | `RequestsSoFar`: a visit past its consume has a consumed link, a change was validated against what it read; links only grow |
| `LinksOpenOneSession` | `ControlsProofs` | `LinksInductive`: one request issues at a time and a live link is the newest of its purpose; only a consumed link has a session; what was consumed goes on to its session |
| `AccessNeedsAReason` | `DeskProofs` | one lemma per kind of edit; from any tables, so no invariant is needed |
| `BlockedNeverLeaves` | `DeskProofs` | `WellRead`: what a handler holds in each phase is what the tables say, unless they were edited since it began; what ideas cite is of datasets of positions |
| `TranscriptsAreStored` | `DeskProofs` | `TranscriptSoFar`: all turns of an undisturbed conversation are stored, but for the one its only handler is about to store |
| `EditsAlwaysGovern` | `DeskProofs` | `OneRow`: a pair that has its row is not about to get another, and one who found the row has found this one; `Versioned`: the history runs up to the row |
| `FeaturesOpenForAReason` | `DeskProofs` | one lemma per kind of step, with `KeysKnown`: no row is about a feature that is not there |
| `OpportunitiesFollowTheirTables` | `DeskProofs` | `ReadsAsOne`: what a job has read piece by piece is what the tables say at once, unless they changed since it began; `KeepsApart`: whatever changed, all it holds is its organization's or the platform's |
| `MarketTypes`, `ServedCurveIsNeverMixed`, `GoodCurvesStay` | `MarketDataProofs` | what the API installs was read in one piece and filtered by one source |
| `PollsKeepTheirDistance` | `FeedScheduleProofs` | `ScheduleHolds`: a stamp is no older than the fetch it is about, and what a tick found due stays due until its turn |
| `OffMeansOut` | `ControlsProofs` | `TrailFollows`: what the trail shows of an agent is its row, up to the one request in progress, and a change it missed is known as such; `CycleSoFar`: what a cycle has done at each step |
| `HistoryStaysSound` | `StoresProofs` | what a save has read when it commits, and that revisions only accumulate |
| `RowsStayAccountedFor` | `StoresProofs` | `RowsAreKept`, `RowsAreApart`: where a row is at each step of an ingest; `CountsHold`, `CountsAreExact`: what each request will make of the count |
| `SignalsAreInOrder`, `SignalsAreExplained` | `AlphaProofs` | `InOrder`: what a job is still to save is its own, new, and each once; who waits for an impact has it in hand |
| `RowsHeld`, `ReplaysAreStable` | `AlphaProofs` | a table changes by the first row that a job holds; a row that a query does not select does not change what it selects (`OnlyIgnores`) |
| `AnswersKeepToWhatIsCovered` | `AlphaProofs` | one case per topic: each tool is a function of the parts that the permission of its topic covers |
| `PurgesFollowPolicy` | `StoresProofs` | the code's search finds what `Governing` says; `PurgesArePromised`: a cutoff only gets older |

**Why a strengthening is needed.** `RecordsInOrder` says of the store that an
approval has its risk check. A step that saves an approval keeps it only if the
check is already there, which depends on where the submission stands:
`Inductive` adds that the store follows memory (`StoreFollowsMemory`), that a
trade without approval belongs to the one coroutine submitting it
(`SubmitterIsAlone`), what that coroutine has recorded by each await
(`SubmissionSoFar`), what a closing one has (`ClosingSoFar`), and that any
snapshot in flight may overwrite the stored approval whenever it arrives
(`SnapshotsAreSafe`). The last is the heart of the argument: snapshots commit in
any order, so each must be safe by itself.

**The refinement.** What the promise sees changes in few ways, whatever the step: not at
all (`QuietStep`), by a decision that sets out to be saved (`DecisionStep`), by a save
that arrives or is lost (`SaveStep`), by the beginning or the end of a close, by a
restart. Each action is shown to have one of these effects. Two facts about reachable
states are needed: a trade being routed has no approval yet (`SubmitterIsAlone`), and a
trade being closed has been decided (`ClosingIsOpen`), since `close_trade` assigns CLOSED
to whatever it then finds.

**The store catches up.** `QuietStoreMatchesMemory` is about the moment when nothing is in
flight; what holds at every other moment is that whatever the store lacks is about to be
written. For the records that are written once that is presence (`RecordsArePending`: the
two rows agree, or somebody waits at that save); for the journal it is counting
(`JournalIsPending`: memory is ahead by the number of coroutines that wait to add an entry);
for a closed trade it is the list of what its `close_trade` still does (`ClosingIsPending`).
These survive any interleaving, so `RecordsCatchUp` assumes nothing. The approval row does
not: `save_approval` writes the arguments it was called with, and with two saves of one
approval in flight the older may commit last, whereupon memory and store differ until the
next action. `StoreCatchesUp` therefore says what is true, that the store matches if no two
saves of one approval ever overlapped (`[]OneSavePerApproval`, a behaviour the program may
well have) and no payload carried a quantity that the ORM refuses (`~RefusedQuantities`, a
constant of the model); `OneRequestAtATime` is the case the run checks, where one handler
cannot overlap with itself.

**Market data, observations.** The curve of the API is mixed only if something mixed is
installed there. `Inductive` of `MarketDataProofs` says that the API's coroutines always
fetch whole curves (only the worker's poll asks for the front month alone), that a coroutine
which persists has something to persist, and that a whole fetch and a filtered read are each
of one source (`InOrder` describes what is read from the rows without recursion). For the
observations, `ReadIsCurrent` says that with no overlap one save at most is about to write,
and what it has read is what is current. The other two parts, no moment forgotten and the
highest revision current, survive every overlap by themselves.

**Features and settings.** A grant has one row as long as no two inserts of it overlapped.
That is not inductive by itself: somebody may have looked before the row was there. `OneRow`
adds that where there is a row nobody is about to insert another (a boot or a handler that
has seen none, `Seeds` and `Asks`), and that a decided grant has its row, which says what was
decided; a step that inserts while another waits puts the grant into `overlapped`. For the
reasons by which a feature opens, `KeysKnown` is needed too: a boot that brings a feature
finds no row about it, so what its role gains is a row of that boot.

**Chat.** An answer is put together from four reads. `WellRead` says, phase by phase, what the
record of a handler is equal to in the tables as they are now, unless the handler is in
`edited`; every step of an administrator puts all handlers in flight there, so each read has
only to be right about the tables it sees. For the transcript, `StoredSoFar` says that of an
untroubled conversation the stored rows are its turns in memory but for the last one when its
one handler is about to store it; `StoredAs` says "these rows are these turns" by an
enumeration of their positions, which a later row extends, and a step about another
conversation leaves it alone (`IsAbout`, `OthersKeepTheirs`).

**Opportunities.** A job reads the datasets of its organization, the grants of each, the
records of each, the signals and the views. `ReadsAsOne` says phase by phase what the job
holds in terms of the tables as they are: in the middle of the records, the positions of the
organization but for those of datasets that are still to be checked or read (`PositionsBut`).
An edit or a new row puts every job in flight into `stale`, so each read has only to be right
about the tables it sees. `KeepsApart` and `OffersApart` hold of stale jobs too, since rows
are only ever added (`TablesGrow`) and a dataset keeps its owner, so evidence stays evidence
(`EvidenceStays`). That an
annotated trade and a draft name what was due needs the leading signal to exist: `TopLeads`
finds it, since scores are bounded. The assumptions are those of the constants'
types: materiality from 0 to 100, directions, sides of trades, and a placeholder for "not
reviewed" that is no user.

In `AgentVersions` a commit writes a target status over whatever status the row
has by then, so that the status says nothing; the set `been` of statuses a row has
had only grows. `Inductive` there says that a job between its read and its commit
goes to a status that `been` has earned (`Earned`), that a job past the model check
pins an approved model, and that what it is about to apply has been in
PRODUCTION. Facts of this kind survive other jobs' commits (`ReadyStaysReady`), so
the proof is that every step makes the tables grow (`StepGrows`) and that the job
that moves is ready again.

**Agents.** A cycle goes by a table that it read earlier, a reader of the audit trail by
events that are written after the table. `TrailIsSound` ties the two: of an agent whose
changes neither overlapped, nor lost their event, nor met a row seeded meanwhile, the
trail shows the row, or the one request in progress knows the difference; so what the
trail shows now is so (`ShownIsSo`). What it has shown ever since a cycle began can only
become less (`LessIsShown`), so whoever is shown off at the end was off at both reads of
the cycle, and `CycleSoFar` follows from step to step: who ran, what that allowed, and
what a missing agent rules out. The groups that are asked must be apart for this
(`GroupsAreApart`): the failure of one is not that of another.

**Feeds.** What a tick decides is old when it acts on it. `ScheduleHolds` says, of each
feed that no fault and no edit in the middle of a tick excuses, that its stamp is no
older than its last fetch once the stamp is written, that the stamp to come (`lag`) is
not either, and that a feed which still waits in the queue was due by its last fetch and
not only by its stamp, so that a refresh by hand in between changes nothing. All three
survive the passing of time because ages stop at the same bound.

**Enterprise rows.** A row count cannot be compared with the records before both are
numbers that a step changes alike: a record is a row with the number of its copy, so a
save adds exactly as many records as it accepted rows (`NewCopies`, from
`StoreIsNumbered`: a number in use is below the number of copies). Then the count that a
request read at its start, plus what it has saved, is at most the records ever saved of
its dataset, from which no purge takes anything (`CountsHold`), however many requests do
this at once, for each has added its own; and it is exact while requests are alone and
complete (`CountsAreExact`). Where a row is takes two more: without a fault every valid
row is staged, in the hands of a request about to save it, or stored (`RowsAreKept`),
which overlaps only multiply; and while requests are alone these are apart, so a drain
that is cut off between its delete and its save loses rows and never doubles them
(`RowsAreApart`).

**Alpha.** The replay makes five queries, each a selection of a table by a condition that
includes the moment. `OnlyIgnores` says that a selection is the same with one more row that
does not fit, which takes the recursion of `Only` once, by a least counterexample;
`RowsAreHeld` says that whatever a step appends to those tables is the first row of a job
that was holding it, so its stamp is one that `OnItsWay` knows. For the signals,
`SignalsInOrder` is what two cycles cannot spoil for each other: ids belong to their job
(`OthersInOrder`), what a job is still to save is new and each once, and between a signal and
its impact the job has exactly that impact in hand, until it is saved or the job fails
(`StillWaiting`).

**Retention.** `Governing` says which policy counts for a dataset by ranking them;
`resolve_retention_days` looks for the first of two lists. `SearchFindsGoverning` shows, for
any list of policies, that it finds that one. Every later step only needs that the datasets a
purge lists are those of its organization, and that the day is never set back.

The answers of the chat's other tools (`ChatTools`) are calculated in one step, so
`AnswersKeepToWhatIsCovered` is about the operators alone: two desks that agree on
`CoveredBy` of the permission checked give one answer, whatever the question. It is the
first part of `AnswersKeepToTheirPermission`, for all desks; that an answer names a source
and that its citations exist is checked on the grid.

**Model-checked only**: of Alpha the types (`AlphaTypeOK`), the reports of material
changes (`MaterialChangesAreReported`), the completeness of brief and idea
(`ReportsAreComplete`), the calculations over the grid (`MarketIsReadOneWay`,
`StressIsCoherent`) and the citations of answers. They are about sums over lists, sorted
rows and bags, which are recursive or chosen, for which the prover has no induction over
data. **Beyond the prover**: what is stated under fairness (`SubmissionSettles`,
`ActiveFeedKeepsPolling`, `ProcessesCatchUp`, `ExpiredIsPurged`).

## 6. Not modelled, and why

- Clients of the market data providers, connectors of enterprise sources, language
  models, e-mail and single sign-on: protocols and formats of other systems. What they
  answer, or that they fail, is an input of the models that call them.
- Event bus and WebSocket: they keep no state that an operation of the system reads.
- The arithmetic of forecasts, backtests, fundamentals, regimes and risk metrics:
  floating point without state. The decisions taken from their results are modelled.
- What the committee's members write, and the research agents' prompts.
- Read-only views: pipeline graph and overlay, dashboards, quality scores, lists of
  deploys and of token usage, contact inquiries, the change log, the web interface.
- Rate limits of the sign-in page, which count in memory for one process.
- Row-level security: policy text that the database interprets.

`PROJECT.json` lists every component with its status.

## 7. Plan

Done, in the order of what would hurt most if it were wrong: governor, lifecycle and its
promise, settings, paper book, agent versions; then market data with configuration and
observations, the feeds, the ingest and retention of enterprise data, accounts,
features, access and chat, the Alpha engines with their store and cycle, the tools of
the chat, opportunities; the agents with their controls and the committee.

Left, in this order:

1. `EventDelivery`: bus and socket with subscribers that come and go.
2. Paths of the pipeline graph.
3. Connectors: pages, retries and the schema they infer.
