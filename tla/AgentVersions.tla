--------------------------- MODULE AgentVersions ---------------------------
(***************************************************************************)
(* The versions of one agent: the agent_versions and model_definitions     *)
(* tables, the live agent of each process that is configured from them,    *)
(* the admin requests that draft, transition and roll back versions and    *)
(* approve models, and the boot of the API and worker processes, which     *)
(* seeds a first PRODUCTION version.  A session reads, decides and commits *)
(* in separate awaits, so two of them interleave call by call.             *)
(*                                                                         *)
(* Sources: packages/db/db/repository.py, apps/api/api_app/state.py,       *)
(* routers/admin_agent_versions.py and routers/admin_models.py.            *)
(***************************************************************************)
EXTENDS Naturals, Sequences, FiniteSets

CONSTANTS
    Api, Workers,     \* the processes: one API, any number of workers
    Handlers,         \* admin requests the API has in flight
    Models,           \* names of LLM models
    DefaultModel,     \* instance.llm.model of an agent just constructed
    NoModel,          \* a version that pins no model
    PromptChoices,    \* whether a request's version overrides the prompt
    MaxVersions, MaxModelRows,   \* bounds: rows of the two tables
    MaxBoots, MaxRequests, MaxFaults  \* bounds: boots, admin requests,
                                 \* crashes and calls that raise

Processes == {Api} \cup Workers
Jobs == Handlers \cup Processes

ASSUME ProcessAssumption == Api \notin Workers /\ Handlers \cap Processes = {}
ASSUME ModelAssumption == DefaultModel \in Models /\ NoModel \notin Models
ASSUME PromptAssumption == PromptChoices \subseteq BOOLEAN
ASSUME BoundAssumption ==
    {MaxVersions, MaxModelRows, MaxBoots, MaxRequests, MaxFaults} \subseteq Nat

VARIABLES
    version,    \* rows of agent_versions, in the order of their insertion
    modelRow,   \* rows of model_definitions; model_name is not unique
    vetted,     \* model names that some row has had as APPROVED
    process,    \* per process: "down", "booting" or "up"
    live,       \* per process: the live agent's prompt and model
    job,        \* per job: the call it awaits and what it has read
    audit,      \* audit_events of promote and rollback: <<version, status>>
    failed,     \* a job ended between its commit and its audit event
    boots, requests, faults

counts == <<boots, requests, faults>>
vars == <<version, modelRow, vetted, process, live, job, audit, failed, counts>>

Statuses == {"DRAFT", "TESTING", "APPROVED", "PRODUCTION", "RETIRED",
             "ROLLED_BACK"}
\* AVAILABLE stands for every status that is not APPROVED.
ModelStatuses == {"AVAILABLE", "APPROVED"}

\* Mutant: an approval may skip the tests.
MutLegal == [DRAFT       |-> {"TESTING", "APPROVED", "RETIRED"},
             TESTING     |-> {"APPROVED", "DRAFT", "RETIRED"},
             APPROVED    |-> {"PRODUCTION", "RETIRED"},
             PRODUCTION  |-> {"RETIRED", "ROLLED_BACK"},
             RETIRED     |-> {},
             ROLLED_BACK |-> {}]

\* _AGENT_VERSION_TRANSITIONS
Legal == [DRAFT       |-> {"TESTING", "RETIRED"},
          TESTING     |-> {"APPROVED", "DRAFT", "RETIRED"},
          APPROVED    |-> {"PRODUCTION", "RETIRED"},
          PRODUCTION  |-> {"RETIRED", "ROLLED_BACK"},
          RETIRED     |-> {},
          ROLLED_BACK |-> {}]

Ids == 1 .. MaxVersions

\* A row's configuration: its model, and whether it overrides the prompt (a
\* prompt is named by its version).  `been` collects the statuses it has had.
VersionRows == [status : Statuses, model : Models \cup {NoModel},
                prompted : BOOLEAN, been : SUBSET Statuses]

ModelRows == [name : Models, status : ModelStatuses]

Draft(m, p) == [status |-> "DRAFT", model |-> m, prompted |-> p,
                been |-> {"DRAFT"}]

\* `v`, `to` and `prior` are a transition's row, target and the PRODUCTION
\* rows it read; `found` the row apply_production_agent_version read (0: none).
\* `stale` says that another transition committed since this one read its row.
Idle == [step |-> "idle", v |-> 0, to |-> "DRAFT", prior |-> {}, found |-> 0,
         stale |-> FALSE]
Steps == {"idle", "seed_read", "seed_insert", "look", "draft", "read", "model",
          "prior", "commit", "production", "apply", "audit"}
JobRecords == [step : Steps, v : 0 .. MaxVersions, to : Statuses,
               prior : SUBSET Ids, found : 0 .. MaxVersions, stale : BOOLEAN]

Fresh == [prompt |-> 0, model |-> DefaultModel]

TypeOK ==
    /\ version \in Seq(VersionRows) /\ Len(version) <= MaxVersions
    /\ modelRow \in Seq(ModelRows)
    /\ vetted \subseteq Models
    /\ process \in [Processes -> {"down", "booting", "up"}]
    /\ live \in [Processes -> [prompt : 0 .. MaxVersions, model : Models]]
    /\ job \in [Jobs -> JobRecords]
    /\ audit \subseteq (0 .. MaxVersions) \X Statuses
    /\ failed \in BOOLEAN
    /\ boots \in 0 .. MaxBoots
    /\ requests \in 0 .. MaxRequests
    /\ faults \in 0 .. MaxFaults

Init ==
    /\ version = <<>>
    /\ modelRow = <<>>
    /\ vetted = {}
    /\ process = [p \in Processes |-> "down"]
    /\ live = [p \in Processes |-> Fresh]
    /\ job = [k \in Jobs |-> Idle]
    /\ audit = {}
    /\ failed = FALSE
    /\ boots = 0
    /\ requests = 0
    /\ faults = 0

ProcessOf(k) == IF k \in Handlers THEN Api ELSE k

\* Mutant: an approved version already counts.
MutProduction ==
    {i \in DOMAIN version : version[i].status \in {"APPROVED", "PRODUCTION"}}

\* The rows `status == "PRODUCTION"` selects.
Production == {i \in DOMAIN version : version[i].status = "PRODUCTION"}

RowsNamed(m) == {i \in DOMAIN modelRow : modelRow[i].name = m}

\* A request arrives while the API serves (version drafts are not counted).
AdminRequest ==
    /\ process[Api] = "up" /\ requests < MaxRequests
    /\ requests' = requests + 1
    /\ UNCHANGED <<boots, faults>>

Step(k, s) == job' = [job EXCEPT ![k].step = s]

----------------------------------------------------------------------------
(* How a job ends.                                                         *)

\* An exception: the request answers 4xx or 500, the booting process exits.
End(k) ==
    /\ job' = [job EXCEPT ![k] = Idle]
    /\ process' = IF k \in Processes
                    THEN [process EXCEPT ![k] = "down"] ELSE process
    /\ failed' = (failed \/ job[k].step \in {"production", "apply", "audit"})

\* A call of a request raises (one of a boot is a crash of its process).
CallFails(h) ==
    /\ job[h].step # "idle" /\ faults < MaxFaults
    /\ End(h)
    /\ faults' = faults + 1
    /\ UNCHANGED <<version, modelRow, vetted, live, audit, boots, requests>>

Crash(p) ==
    /\ process[p] # "down" /\ faults < MaxFaults
    /\ faults' = faults + 1
    /\ process' = [process EXCEPT ![p] = "down"]
    /\ job' = [k \in Jobs |-> IF ProcessOf(k) = p THEN Idle ELSE job[k]]
    /\ failed' = (failed \/ \E k \in Jobs :
                    /\ ProcessOf(k) = p
                    /\ job[k].step \in {"production", "apply", "audit"})
    /\ live' = [live EXCEPT ![p] = Fresh]
    /\ UNCHANGED <<version, modelRow, vetted, audit, boots, requests>>

----------------------------------------------------------------------------
(* AppState.seed, for one agent.                                           *)

Boot(p) ==
    /\ process[p] = "down" /\ boots < MaxBoots
    /\ process' = [process EXCEPT ![p] = "booting"]
    /\ Step(p, "seed_read")
    /\ boots' = boots + 1
    /\ UNCHANGED <<version, modelRow, vetted, live, audit, failed, requests,
                   faults>>

\* seed_model_definitions: the default model gets a row unless it has one.
SeedRead(p) ==
    /\ job[p].step = "seed_read"
    /\ Step(p, IF RowsNamed(DefaultModel) = {} THEN "seed_insert" ELSE "look")
    /\ UNCHANGED <<version, modelRow, vetted, process, live, audit, failed,
                   counts>>

SeedInsert(p) ==
    /\ job[p].step = "seed_insert" /\ Len(modelRow) < MaxModelRows
    /\ modelRow' = Append(modelRow, [name |-> DefaultModel,
                                     status |-> "APPROVED"])
    /\ vetted' = vetted \cup {DefaultModel}
    /\ Step(p, "look")
    /\ UNCHANGED <<version, process, live, audit, failed, counts>>

\* _seed_initial_agent_versions: only for an agent without PRODUCTION version.
LookForProduction(p) ==
    /\ job[p].step = "look"
    /\ IF Cardinality(Production) > 1
         THEN End(p)
         ELSE /\ Step(p, IF Production = {} THEN "draft" ELSE "production")
              /\ UNCHANGED <<process, failed>>
    /\ UNCHANGED <<version, modelRow, vetted, live, audit, counts>>

SeedDraft(p) ==
    /\ job[p].step = "draft" /\ Len(version) < MaxVersions
    /\ version' = Append(version, Draft(DefaultModel, FALSE))
    /\ job' = [job EXCEPT ![p] = [Idle EXCEPT !.step = "read",
                                  !.v = Len(version) + 1, !.to = "TESTING"]]
    /\ UNCHANGED <<modelRow, vetted, process, live, audit, failed, counts>>

----------------------------------------------------------------------------
(* transition_agent_version_status, as a request or from the boot.         *)

\* The check of the model definition comes first, where one is required.
NextRead(s, m) ==
    IF s \in {"APPROVED", "PRODUCTION"} /\ m # NoModel THEN "model"
    ELSE IF s = "PRODUCTION" THEN "prior" ELSE "commit"

ReadRow(k, v, s) ==
    /\ s \in Legal[version[v].status]
    /\ job' = [job EXCEPT ![k] = [Idle EXCEPT !.v = v, !.to = s,
                                  !.step = NextRead(s, version[v].model)]]

\* An illegal transition is answered 400 and changes nothing.
RequestTransition(h, v, s) ==
    /\ AdminRequest /\ job[h].step = "idle"
    /\ ReadRow(h, v, s)
    /\ UNCHANGED <<version, modelRow, vetted, process, live, audit, failed>>

SeedTransition(p) ==
    /\ job[p].step = "read"
    /\ LET v == job[p].v  s == job[p].to IN
         \/ ReadRow(p, v, s) /\ UNCHANGED <<process, failed>>
         \/ s \notin Legal[version[v].status] /\ End(p)
    /\ UNCHANGED <<version, modelRow, vetted, live, audit, counts>>

\* scalar_one_or_none() raises for two rows of one name.
ModelApproved(m) ==
    \E i \in RowsNamed(m) : RowsNamed(m) = {i} /\ modelRow[i].status = "APPROVED"

ReadModel(k) ==
    /\ job[k].step = "model"
    /\ IF ModelApproved(version[job[k].v].model)
         THEN /\ Step(k, IF job[k].to = "PRODUCTION" THEN "prior" ELSE "commit")
              /\ UNCHANGED <<process, failed>>
         ELSE End(k)
    /\ UNCHANGED <<version, modelRow, vetted, live, audit, counts>>

ReadPrior(k) ==
    /\ job[k].step = "prior"
    /\ job' = [job EXCEPT ![k].step = "commit", ![k].prior = Production]
    /\ UNCHANGED <<version, modelRow, vetted, process, live, audit, failed,
                   counts>>

\* Mutant: the prior rows are left as they are.
MutWritten(k) ==
    [version EXCEPT ![job[k].v].status = job[k].to,
                    ![job[k].v].been = @ \cup {job[k].to}]

\* One transaction writes the row and the prior rows by their id, whatever
\* status they have by now.
Written(k) ==
    [i \in DOMAIN version |->
        LET to == IF i = job[k].v THEN job[k].to ELSE "RETIRED" IN
        IF i = job[k].v \/ i \in job[k].prior
          THEN [version[i] EXCEPT !.status = to, !.been = @ \cup {to}]
          ELSE version[i]]

\* Mutant: a rollback ends with its commit.
MutAfterCommit(k) ==
    IF job[k].to = "PRODUCTION"
      THEN [job[k] EXCEPT !.step = "production", !.prior = {}]
    ELSE IF k \in Handlers THEN Idle
    ELSE [job[k] EXCEPT !.step = "read",
            !.to = IF @ = "TESTING" THEN "APPROVED" ELSE "PRODUCTION"]

\* Where a job goes after its commit: the boot walks its draft through to
\* PRODUCTION; a promotion or a rollback is applied to the live agent.
AfterCommit(k) ==
    IF job[k].to \in {"PRODUCTION", "ROLLED_BACK"}
      THEN [job[k] EXCEPT !.step = "production", !.prior = {}]
    ELSE IF k \in Handlers THEN Idle
    ELSE [job[k] EXCEPT !.step = "read",
            !.to = IF @ = "TESTING" THEN "APPROVED" ELSE "PRODUCTION"]

Commit(k) ==
    /\ job[k].step = "commit"
    /\ version' = Written(k)
    /\ job' = [j \in Jobs |->
                 IF j = k THEN AfterCommit(k)
                 ELSE IF job[j].step \in {"model", "prior", "commit"}
                   THEN [job[j] EXCEPT !.stale = TRUE]
                 ELSE job[j]]
    /\ UNCHANGED <<modelRow, vetted, process, live, audit, failed, counts>>

----------------------------------------------------------------------------
(* apply_production_agent_version, and the audit event after it.           *)

ReadProduction(k) ==
    /\ job[k].step = "production"
    /\ IF Cardinality(Production) > 1
         THEN End(k)
         ELSE /\ job' = [job EXCEPT ![k].step = "apply", ![k].found =
                           IF Production = {} THEN 0
                           ELSE CHOOSE i \in Production : TRUE]
              /\ UNCHANGED <<process, failed>>
    /\ UNCHANGED <<version, modelRow, vetted, live, audit, counts>>

\* No prompt resets the prompt; no model leaves the model as it is.
Configured(agent, v) ==
    [prompt |-> IF v # 0 /\ version[v].prompted THEN v ELSE 0,
     model  |-> IF v # 0 /\ version[v].model # NoModel
                  THEN version[v].model ELSE agent.model]

Apply(k) ==
    /\ job[k].step = "apply"
    /\ live' = [live EXCEPT ![ProcessOf(k)] = Configured(@, job[k].found)]
    /\ IF k \in Handlers
         THEN Step(k, "audit") /\ UNCHANGED process
         ELSE /\ job' = [job EXCEPT ![k] = Idle]
              /\ process' = [process EXCEPT ![k] = "up"]
    /\ UNCHANGED <<version, modelRow, vetted, audit, failed, counts>>

RecordAudit(h) ==
    /\ job[h].step = "audit"
    /\ audit' = audit \cup {<<job[h].v, job[h].to>>}
    /\ job' = [job EXCEPT ![h] = Idle]
    /\ UNCHANGED <<version, modelRow, vetted, process, live, failed, counts>>

----------------------------------------------------------------------------
(* The requests of a single commit.                                        *)

CreateVersion(m, prompted) ==
    /\ process[Api] = "up" /\ Len(version) < MaxVersions
    /\ version' = Append(version, Draft(m, prompted))
    /\ UNCHANGED <<modelRow, vetted, process, live, job, audit, failed, counts>>

CreateModel(m) ==
    /\ AdminRequest /\ Len(modelRow) < MaxModelRows
    /\ modelRow' = Append(modelRow, [name |-> m, status |-> "AVAILABLE"])
    /\ UNCHANGED <<version, vetted, process, live, job, audit, failed>>

\* update_model_definition_status: any status may follow any other.
SetModelStatus(i, s) ==
    /\ AdminRequest
    /\ modelRow' = [modelRow EXCEPT ![i].status = s]
    /\ vetted' = IF s = "APPROVED" THEN vetted \cup {modelRow[i].name}
                                   ELSE vetted
    /\ UNCHANGED <<version, process, live, job, audit, failed>>

----------------------------------------------------------------------------
Next ==
    \/ \E p \in Processes :
         \/ Boot(p) \/ Crash(p) \/ SeedRead(p) \/ SeedInsert(p)
         \/ LookForProduction(p) \/ SeedDraft(p) \/ SeedTransition(p)
    \/ \E k \in Jobs :
         \/ ReadModel(k) \/ ReadPrior(k) \/ Commit(k) \/ ReadProduction(k)
         \/ Apply(k)
    \/ \E h \in Handlers :
         \/ RecordAudit(h) \/ CallFails(h)
         \/ \E v \in DOMAIN version, s \in Statuses : RequestTransition(h, v, s)
    \/ \E m \in Models \cup {NoModel}, p \in PromptChoices : CreateVersion(m, p)
    \/ \E m \in Models : CreateModel(m)
    \/ \E i \in DOMAIN modelRow, s \in ModelStatuses : SetModelStatus(i, s)

Spec == Init /\ [][Next]_vars
----------------------------------------------------------------------------
(* Properties                                                              *)

\* "No prompt change may automatically bypass evaluation": whatever stale reads
\* two transitions commit from, a version that was APPROVED was in TESTING, one
\* that reached PRODUCTION was APPROVED, one ROLLED_BACK was in PRODUCTION, and
\* the model it pins has been approved.
EvaluationNeverBypassed ==
    \A i \in DOMAIN version :
        LET row == version[i] IN
        /\ "APPROVED" \in row.been =>
             "TESTING" \in row.been /\ row.model \in vetted \cup {NoModel}
        /\ "PRODUCTION" \in row.been => "APPROVED" \in row.been
        /\ "ROLLED_BACK" \in row.been => "PRODUCTION" \in row.been

\* What an agent runs with was evaluated, in every process: its prompt is that
\* of a version that went through TESTING, APPROVED and PRODUCTION, its model
\* one that has been approved or the one the process was started with.
OnlyEvaluatedGoesLive ==
    \A p \in Processes :
        /\ live[p].model \in vetted \cup {DefaultModel}
        /\ live[p].prompt # 0 =>
             /\ live[p].prompt \in DOMAIN version
             /\ {"TESTING", "APPROVED", "PRODUCTION"}
                  \subseteq version[live[p].prompt].been

\* What makes the two inductive: a version has had the status it has, a job
\* between its read and its commit goes where a read status led and, past the
\* check of the model, pins an approved one; and what it is about to apply has
\* been in PRODUCTION.
Earned(row, s) ==
    /\ s = "APPROVED" => "TESTING" \in row.been
    /\ s = "PRODUCTION" => "APPROVED" \in row.been
    /\ s = "ROLLED_BACK" => "PRODUCTION" \in row.been

JobReady(j) ==
    /\ j.prior \subseteq DOMAIN version
    /\ j.step \in {"read", "model", "prior", "commit"} => j.v \in DOMAIN version
    /\ j.step \in {"model", "prior", "commit"} => Earned(version[j.v], j.to)
    /\ j.step \in {"prior", "commit"} /\ j.to = "APPROVED" =>
         version[j.v].model \in vetted \cup {NoModel}
    /\ j.step = "apply" /\ j.found # 0 =>
         j.found \in DOMAIN version /\ "PRODUCTION" \in version[j.found].been

Inductive ==
    /\ TypeOK
    /\ \A i \in DOMAIN version : version[i].status \in version[i].been
    /\ \A i \in DOMAIN modelRow :
         modelRow[i].status = "APPROVED" => modelRow[i].name \in vetted
    /\ \A k \in Jobs : JobReady(job[k])
    /\ EvaluationNeverBypassed
    /\ OnlyEvaluatedGoesLive

\* A promotion that no other commit overtakes leaves exactly one PRODUCTION row,
\* even where a race of earlier ones had left two.
PromotionLeavesOne ==
    [][\A k \in Jobs :
         (job[k].to = "PRODUCTION" /\ ~job[k].stale /\ Commit(k))
           => Production' = {job[k].v}]_vars

\* A rollback is audited once its request is over, unless a request or process
\* ended between a commit and its audit event.
RollbackIsAudited ==
    \/ failed
    \/ \A i \in DOMAIN version : "ROLLED_BACK" \in version[i].been =>
         \/ <<i, "ROLLED_BACK">> \in audit
         \/ \E h \in Handlers :
              /\ job[h].v = i /\ job[h].to = "ROLLED_BACK"
              /\ job[h].step \in {"production", "apply", "audit"}

\* What models.py:491 says ("at most one PRODUCTION version per agent_type
\* exists at a time"), which two promotions that overlap, or the first boots of
\* API and worker, break.
AtMostOneProduction == Cardinality(Production) <= 1

\* What apply_production_agent_version says ("the live agents always match
\* whatever is currently recorded as PRODUCTION"), for an API that is up with
\* nothing in flight.
LiveFollowsProduction ==
    process[Api] = "up" /\ (\A k \in Jobs : job[k].step = "idle")
      => IF Production = {} THEN live[Api].prompt = 0
         ELSE \E i \in Production :
                live[Api].prompt = IF version[i].prompted THEN i ELSE 0
=============================================================================
