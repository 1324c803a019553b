---------------------------- MODULE Opportunities ----------------------------
(***************************************************************************)
(* What an organization's own positions are used for: a trade idea drafted *)
(* for it is compared with them, and a worker cycle or a request drafts    *)
(* opportunities from them, the alpha signals and the consensus views,     *)
(* which a person of the organization, or an administrator of them all,    *)
(* approves or rejects.  The positions are collected in several reads      *)
(* (datasets, the grants of one after the other, their records) while the  *)
(* tables change.                                                          *)
(*                                                                         *)
(* Source: apps/api/api_app/state.py, routers/alpha_enterprise.py,         *)
(* services/enterprise_data/enterprise_data_service/opportunity.py,        *)
(* trading_integration.py, packages/db/db/repository.py.                   *)
(***************************************************************************)
EXTENDS EnterpriseAccess

CONSTANTS
    Admins,             \* callers without an account who hold admin.organizations
    RecordRows,         \* rows that may be ingested: dataset, market, direction
    SignalRows,         \* signals that may be detected
    ViewRows,           \* consensus views that may be formed
    NoMarket,           \* of a record without a usable market field
    TradeIdeas,         \* market and direction of ideas drafted for an organization
    Jobs,               \* generations and corroborations in flight
    MaxPosts, MaxJobs, MaxJobFaults     \* bounds

VARIABLES
    records, signals, views,    \* tables, oldest first
    offers,                     \* enterprise_opportunities
    job,                        \* what each job has read and drafted
    jobs, jobFaults,
    stale                       \* (history) jobs whose tables changed since they began

opportunityTables == <<records, signals, views, offers>>
opportunityVars == <<opportunityTables, job, jobs, jobFaults, stale>>

\* MaterialityEngine's scores and SignalDirection; the sides of a trade idea.
ASSUME SignalAssumption ==
    \A row \in SignalRows : /\ row.materiality \in 0 .. 100
                            /\ row.direction \in {"BULLISH", "BEARISH", "NEUTRAL"}
ASSUME IdeaAssumption == \A idea \in TradeIdeas : idea.direction \in {"LONG", "SHORT", "SPREAD"}

NoJob == [phase |-> "idle"]
NoReviewer == "nobody"
ASSUME ReviewerAssumption == NoReviewer \notin People \cup Admins /\ Admins \cap People = {}

NoIdea == [market |-> NoMarket, direction |-> "NONE"]

\* list_signals, list_consensus_views: the organization's rows and the platform's. The
\* window of 30 days and the limit of 200 rows are not reached.
\* Mutant: the organization is not passed on.
MutVisibleTo(organization, rows) == DOMAIN rows

VisibleTo(organization, rows) ==
    {n \in DOMAIN rows : rows[n].organization \in {organization, Platform}}

\* EnterprisePosition.from_record: a record that names no market is no position.
PositionsIn(dataset) ==
    {r \in DOMAIN records : records[r].dataset = dataset /\ records[r].market # NoMarket}

-----------------------------------------------------------------------------
(* EnterpriseOpportunityEngine *)

MinMateriality == 65

MarketsHeld(positions) == {records[r].market : r \in positions}

\* Of the views of a market, the last one formed.
LatestView(seen, market) ==
    LET about == {v \in seen : views[v].market = market}
    IN  {v \in about : \A w \in about : w <= v}

\* A long position against a bearish view, or a short one against a bullish one.
Misaligned(direction, lean) ==
    \/ direction = "LONG" /\ lean = "BEARISH"
    \/ direction = "SHORT" /\ lean = "BULLISH"

Candidate(type, market, evidence, view, record, lead) ==
    [type |-> type, market |-> market, signals |-> evidence, view |-> view,
     record |-> record, lead |-> lead]

HedgeCandidates(positions, seenViews) ==
    {Candidate("HEDGE", records[p[1]].market, {}, p[2], p[1], 0) :
        p \in {q \in positions \X seenViews :
                 /\ q[2] \in LatestView(seenViews, records[q[1]].market)
                 /\ views[q[2]].confident
                 /\ Misaligned(records[q[1]].direction, views[q[2]].lean)}}

Material(seen, market) ==
    {s \in seen : /\ signals[s].market = market
                  /\ signals[s].materiality >= MinMateriality
                  /\ signals[s].direction \in {"BULLISH", "BEARISH"}}

\* The first of the ranked list: most material, then newest.
Top(found) ==
    CHOOSE s \in found :
        \A t \in found \ {s} :
            \/ signals[t].materiality < signals[s].materiality
            \/ signals[t].materiality = signals[s].materiality /\ t < s

\* One for each market with material signals and no position.
NewPositionCandidates(positions, seenSignals) ==
    LET markets == {signals[s].market : s \in seenSignals} \ MarketsHeld(positions)
        material(m) == Material(seenSignals, m)
    IN  {Candidate("NEW", m, material(m), 0, 0, Top(material(m))) :
            m \in {n \in markets : material(n) # {}}}

Generated(positions, seenSignals, seenViews) ==
    HedgeCandidates(positions, seenViews) \cup NewPositionCandidates(positions, seenSignals)

\* EnterpriseCorroborationEngine: the positions a trade agrees with and those it works
\* against; a spread is compared with none.
Corroborated(idea, positions, agrees) ==
    IF idea.direction \notin {"LONG", "SHORT"} THEN {}
    ELSE {r \in positions :
            /\ records[r].market = idea.market
            /\ records[r].direction # "NONE"
            /\ (records[r].direction = idea.direction) = agrees}

-----------------------------------------------------------------------------
(* Jobs *)

Busy == {j \in Jobs : job[j] # NoJob}

Started(organization, rest, idea) ==
    [phase |-> "datasets", organization |-> organization, rest |-> rest, idea |-> idea,
     unchecked |-> {}, unread |-> {}, positions |-> {}, seen |-> {}, drafts |-> {},
     unsaved |-> {}]

StartJob(j, started) ==
    /\ job[j] = NoJob
    /\ jobs < MaxJobs
    /\ jobs' = jobs + 1
    /\ job' = [job EXCEPT ![j] = started]
    /\ stale' = stale \ {j}
    /\ UNCHANGED <<accessTables, opportunityTables, jobFaults>>

Proceed(j, next) ==
    /\ job' = [job EXCEPT ![j] = next]
    /\ UNCHANGED <<accessTables, opportunityTables, jobs, jobFaults, stale>>

\* POST /alpha/enterprise/opportunities/generate, for the caller's organization.
GenerateOpportunities(j, u) == StartJob(j, Started(OrganizationOf[u], {}, NoIdea))

\* The worker's cycle: every organization with a dataset, one after the other.
GenerateForAll(j) ==
    \E o \in {Owner[d] : d \in datasets} :
        StartJob(j, Started(o, {Owner[d] : d \in datasets} \ {o}, NoIdea))

\* generate_enterprise_trade_idea tags the idea with the organization.
CorroborateTrade(j, organization, idea) == StartJob(j, Started(organization, {}, idea))

\* _load_enterprise_positions
LoadDatasets(j) ==
    /\ job[j].phase = "datasets"
    /\ Proceed(j, [job[j] EXCEPT !.phase = "positions",
                    !.unchecked = DatasetsOf(job[j].organization) \cap PositionDatasets])

CheckEntitlements(j, d) ==
    /\ job[j].phase = "positions" /\ d \in job[j].unchecked
    /\ Proceed(j, [job[j] EXCEPT !.unchecked = @ \ {d},
                    !.unread = IF AgentIsEntitled(GrantsOn(d), PositionReader)
                               THEN @ \cup {d} ELSE @])

LoadRecords(j, d) ==
    /\ job[j].phase = "positions" /\ job[j].unchecked = {}
    /\ d \in job[j].unread
    /\ Proceed(j, [job[j] EXCEPT !.unread = @ \ {d}, !.positions = @ \cup PositionsIn(d)])

Loaded(j) == job[j].phase = "positions" /\ job[j].unchecked = {} /\ job[j].unread = {}

LoadSignals(j) ==
    /\ Loaded(j) /\ job[j].idea = NoIdea
    /\ Proceed(j, [job[j] EXCEPT !.phase = "views",
                    !.seen = VisibleTo(job[j].organization, signals)])

\* The views are the last thing read; the engine runs on what was.
Generate(j) ==
    /\ job[j].phase = "views"
    /\ LET drafts == Generated(job[j].positions, job[j].seen,
                               VisibleTo(job[j].organization, views))
       IN  Proceed(j, [job[j] EXCEPT !.phase = "saving", !.drafts = drafts,
                                     !.unsaved = drafts])

\* Each draft is committed by itself and then published; the order of the drafts is left out.
SaveOpportunity(j, c) ==
    /\ job[j].phase = "saving" /\ c \in job[j].unsaved
    /\ offers' = Append(offers, [organization |-> job[j].organization, draft |-> c,
                                 status |-> "PENDING", reviewed_by |-> NoReviewer])
    /\ job' = [job EXCEPT ![j].unsaved = @ \ {c}]
    /\ UNCHANGED <<accessTables, records, signals, views, jobs, jobFaults, stale>>

\* The next organization of the cycle, or the end of the job.
NextOrganization(j) ==
    /\ job[j].phase = "saving" /\ job[j].unsaved = {}
    /\ stale' = stale \ {j}
    /\ IF job[j].rest = {} THEN job' = [job EXCEPT ![j] = NoJob]
       ELSE \E o \in job[j].rest :
              job' = [job EXCEPT ![j] = Started(o, job[j].rest \ {o}, NoIdea)]
    /\ UNCHANGED <<accessTables, opportunityTables, jobs, jobFaults>>

\* _corroborate_trade_with_enterprise_data: what the idea gains before the committee sees it.
Corroborate(j) ==
    /\ Loaded(j) /\ job[j].idea # NoIdea
    /\ Proceed(j, [phase |-> "committee", organization |-> job[j].organization,
                    idea |-> job[j].idea,
                    supports |-> Corroborated(job[j].idea, job[j].positions, TRUE),
                    risks |-> Corroborated(job[j].idea, job[j].positions, FALSE)])

SubmitToCommittee(j) == job[j].phase = "committee" /\ Proceed(j, NoJob)

\* A read, a commit or the event bus raises: what was saved stays, the rest of the drafts
\* and of the cycle's organizations is given up until the next one.
JobFails(j) ==
    /\ job[j] # NoJob
    /\ jobFaults < MaxJobFaults
    /\ jobFaults' = jobFaults + 1
    /\ job' = [job EXCEPT ![j] = NoJob]
    /\ UNCHANGED <<accessTables, opportunityTables, jobs, stale>>

\* resolve_organization_scope: an account's own organization, or, without an account,
\* every organization for a cross-organization administrator.
Reviews(u, organization) == u \notin Admins => OrganizationOf[u] = organization

\* review_opportunity: 400 for PENDING, 404 for another organization's; one verdict may
\* replace another. Nothing it reads before the update ever changes.
ReviewOpportunity(u, n, verdict) ==
    /\ n \in DOMAIN offers
    /\ Reviews(u, offers[n].organization)
    /\ <<offers[n].status, offers[n].reviewed_by>> # <<verdict, u>>
    /\ offers' = [offers EXCEPT ![n].status = verdict, ![n].reviewed_by = u]
    /\ UNCHANGED <<accessTables, records, signals, views, job, jobs, jobFaults, stale>>

-----------------------------------------------------------------------------
(* The tables change under the jobs *)

Posts == Len(records) + Len(signals) + Len(views)

Post ==
    /\ Posts < MaxPosts
    /\ stale' = stale \cup Busy
    /\ UNCHANGED <<accessTables, offers, job, jobs, jobFaults>>

IngestRecord(row) ==
    /\ Post
    /\ row.dataset \in datasets
    /\ records' = Append(records, row) /\ UNCHANGED <<signals, views>>

DetectSignal(row) ==
    Post /\ signals' = Append(signals, row) /\ UNCHANGED <<records, views>>

FormView(row) ==
    Post /\ views' = Append(views, row) /\ UNCHANGED <<records, signals>>

EditAccess ==
    /\ \/ \E d \in Datasets : RegisterDataset(d)
       \/ \E d \in Datasets, a \in AgentTypes : GrantEntitlement(d, "AGENT", a)
       \/ \E g \in grants : RevokeEntitlement(g)
    /\ stale' = stale \cup Busy
    /\ UNCHANGED <<opportunityTables, job, jobs, jobFaults>>

OpportunitiesInit ==
    /\ records = << >> /\ signals = << >> /\ views = << >> /\ offers = << >>
    /\ job = [j \in Jobs |-> NoJob]
    /\ jobs = 0 /\ jobFaults = 0
    /\ stale = {}

Working(j) ==
    \/ LoadDatasets(j)
    \/ \E d \in Datasets : CheckEntitlements(j, d) \/ LoadRecords(j, d)
    \/ LoadSignals(j) \/ Generate(j)
    \/ job[j].phase = "saving" /\ \E c \in job[j].unsaved : SaveOpportunity(j, c)
    \/ NextOrganization(j) \/ Corroborate(j) \/ SubmitToCommittee(j) \/ JobFails(j)

OpportunitiesNext ==
    \/ \E j \in Jobs, u \in People :
         \/ GenerateOpportunities(j, u)
         \/ \E idea \in TradeIdeas : CorroborateTrade(j, OrganizationOf[u], idea)
    \/ \E j \in Jobs : GenerateForAll(j) \/ Working(j)
    \/ \E u \in People \cup Admins, n \in DOMAIN offers, verdict \in {"APPROVED", "REJECTED"} :
         ReviewOpportunity(u, n, verdict)
    \/ \E row \in RecordRows : IngestRecord(row)
    \/ \E row \in SignalRows : DetectSignal(row)
    \/ \E row \in ViewRows : FormView(row)
    \/ EditAccess

OpportunitiesSpec ==
    /\ EnterpriseAccessInit /\ OpportunitiesInit
    /\ [][OpportunitiesNext]_<<accessTables, opportunityVars>>

-----------------------------------------------------------------------------
(* Properties *)

\* Read at one moment: a record that counts as the organization's position.
IsPositionOf(r, organization) ==
    LET d == records[r].dataset
        agents == {g \in grants : g.dataset = d /\ g.principal_type = "AGENT"}
    IN  /\ Owner[d] = organization /\ d \in datasets \cap PositionDatasets
        /\ records[r].market # NoMarket
        /\ agents # {} => \E g \in agents : g.principal_id = PositionReader

\* A hedge is due: the newest view its organization may read opposes the position.
HedgeDue(organization, c) ==
    /\ c.record \in DOMAIN records /\ c.view \in DOMAIN views
    /\ IsPositionOf(c.record, organization)
    /\ views[c.view].confident
    /\ views[c.view].market = records[c.record].market
    /\ Misaligned(records[c.record].direction, views[c.view].lean)
    /\ \A v \in DOMAIN views :
         v > c.view /\ views[v].market = views[c.view].market =>
           views[v].organization \notin {organization, Platform}

\* A new position is due: signals that count, and no position in their market.
NewDue(organization, c) ==
    /\ c.signals # {} /\ c.lead \in c.signals
    /\ c.signals =
         {s \in DOMAIN signals :
            /\ signals[s].organization \in {organization, Platform}
            /\ signals[s].market = c.market
            /\ signals[s].materiality >= MinMateriality
            /\ signals[s].direction # "NEUTRAL"}
    /\ \A s \in c.signals : signals[s].materiality <= signals[c.lead].materiality
    /\ \A r \in DOMAIN records :
         IsPositionOf(r, organization) => records[r].market # c.market

Drafting(j) == job[j].phase = "saving" /\ j \notin stale

(***************************************************************************)
(* A job whose tables nobody changed drafts exactly what they call for     *)
(* when read at once: every draft is due, and no position against the      *)
(* newest view, nor a market with material signals and no position, is     *)
(* left without one (generate_enterprise_opportunities).                   *)
(***************************************************************************)
DraftsAreDue ==
    \A j \in Jobs : Drafting(j) =>
        LET o == job[j].organization IN
        /\ \A c \in job[j].drafts : IF c.type = "HEDGE" THEN HedgeDue(o, c) ELSE NewDue(o, c)
        /\ \A r \in DOMAIN records, v \in DOMAIN views :
             /\ views[v].organization \in {o, Platform}
             /\ HedgeDue(o, [record |-> r, view |-> v])
             => \E c \in job[j].drafts : c.record = r /\ c.view = v
        /\ \A s \in DOMAIN signals :
             /\ signals[s].organization \in {o, Platform}
             /\ signals[s].materiality >= MinMateriality /\ signals[s].direction # "NEUTRAL"
             => \/ \E c \in job[j].drafts : s \in c.signals
                \/ \E r \in DOMAIN records :
                     IsPositionOf(r, o) /\ records[r].market = signals[s].market

(***************************************************************************)
(* The idea the committee sees cites every directional position the        *)
(* organization has in its market, for it or against it, unless the tables *)
(* changed meanwhile (_corroborate_trade_with_enterprise_data).            *)
(***************************************************************************)
TradeKnowsItsBook ==
    \A j \in Jobs : job[j].phase = "committee" /\ j \notin stale =>
        LET idea == job[j].idea
            held == {r \in DOMAIN records :
                       /\ IsPositionOf(r, job[j].organization)
                       /\ records[r].market = idea.market
                       /\ records[r].direction # "NONE"}
        IN  /\ job[j].supports \cup job[j].risks =
                    (IF idea.direction = "SPREAD" THEN {} ELSE held)
            /\ \A r \in held :
                 r \in job[j].supports => r \notin job[j].risks /\ records[r].direction = idea.direction

(***************************************************************************)
(* Whatever changed meanwhile, a stored opportunity rests on the records,  *)
(* views and signals of its own organization or of the platform, and no    *)
(* verdict is without the one who gave it (review_opportunity).            *)
(***************************************************************************)
EvidenceIsTheirOwn ==
    \A n \in DOMAIN offers :
        LET o == offers[n].organization
            c == offers[n].draft
        IN  /\ c.record # 0 => Owner[records[c.record].dataset] = o
            /\ c.view # 0 => views[c.view].organization \in {o, Platform}
            /\ \A s \in c.signals : signals[s].organization \in {o, Platform}
            /\ offers[n].status = "PENDING" <=> offers[n].reviewed_by = NoReviewer

OpportunitiesAreFounded == DraftsAreDue /\ TradeKnowsItsBook /\ EvidenceIsTheirOwn
=============================================================================
