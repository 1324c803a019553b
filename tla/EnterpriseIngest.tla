-------------------------- MODULE EnterpriseIngest --------------------------
(***************************************************************************)
(* One enterprise data source and its datasets: an external system pushes  *)
(* rows that are staged, or the connector pulls them; an administrator's   *)
(* ingest drains or fetches, saves the records, re-reads the schema and    *)
(* updates the dataset's row count, each in a transaction of its own. Two  *)
(* administrators may ingest at once; a call may fail or the process die   *)
(* between any two of them, and a purge for retention may delete records.  *)
(*                                                                         *)
(* Sources: apps/api/api_app/routers/admin_enterprise_data.py,             *)
(* enterprise_webhooks.py, services/enterprise_data/.../connector.py and   *)
(* packages/db/db/repository.py.                                           *)
(***************************************************************************)
EXTENDS Naturals, FiniteSets

CONSTANTS
    Admins,      \* concurrent ingest requests
    Datasets,    \* the datasets of the source
    Types,       \* the connector types that the source may have
    MaxRow, MaxPulls, MaxIngestFaults   \* bounds

ASSUME RowsAssumption == MaxRow \in Nat

\* A row is a number; row 1 is an empty object, which every connector rejects.
IngestRows == 1 .. MaxRow
Empty == {1}

\* MANUAL_UPLOAD takes the rows of the request, WEBHOOK the staged ones, the
\* others (REST_API, DATABASE, S3, SFTP) fetch them.
ConnectorTypes == {"MANUAL_UPLOAD", "WEBHOOK", "REST_API", "DATABASE", "S3", "SFTP"}
Pulls(type) == type \notin {"MANUAL_UPLOAD", "WEBHOOK"}

VARIABLES
    source,       \* its connector type, and whether its configuration resolves
    pushed,       \* the rows pushed or handed in so far: 1 .. pushed
    staged,       \* enterprise_webhook_staged_rows
    datasets,     \* per dataset: unregistered, or its row_count
    stored,       \* enterprise_records: per dataset its rows, each with a number for its copy
    purged,       \* history: the records that a purge deleted
    request,      \* per administrator: the ingest in progress
    pulls, ingestFaults,
    ingestOverlapped    \* history: an ingest began while another was in progress

tables == <<staged, datasets, stored, purged>>
ingestVars == <<source, pushed, tables, request, pulls, ingestFaults, ingestOverlapped>>

NoIngest == [step |-> "idle"]
Requests == {NoIngest} \cup
    [step : {"rows", "delete", "save", "schema", "sync"}, dataset : Datasets,
     count : Nat, rows : SUBSET IngestRows]

IngestTypeOK ==
    /\ source \in [type : Types, configured : BOOLEAN]
    /\ pushed \in 0 .. MaxRow
    /\ staged \subseteq IngestRows
    /\ datasets \in [Datasets -> [registered : BOOLEAN, row_count : Nat]]
    /\ stored \in [Datasets -> SUBSET (IngestRows \X Nat)]
    /\ purged \in [Datasets -> SUBSET (IngestRows \X Nat)]
    /\ request \in [Admins -> Requests]
    /\ pulls \in Nat /\ ingestFaults \in Nat
    /\ ingestOverlapped \in BOOLEAN

IngestInit ==
    /\ source \in [type : Types, configured : BOOLEAN]
    /\ pushed = 0
    /\ staged = {}
    /\ datasets = [d \in Datasets |-> [registered |-> FALSE, row_count |-> 0]]
    /\ stored = [d \in Datasets |-> {}]
    /\ purged = [d \in Datasets |-> {}]
    /\ request = [a \in Admins |-> NoIngest]
    /\ pulls = 0 /\ ingestFaults = 0
    /\ ingestOverlapped = FALSE

-----------------------------------------------------------------------------
(* The registry *)

\* PATCH /sources/{id}: connection_config may name another secret or address.
UpdateSource ==
    /\ source.type # "MANUAL_UPLOAD"
    /\ source' = [source EXCEPT !.configured = ~@]
    /\ UNCHANGED <<pushed, tables, request, pulls, ingestFaults, ingestOverlapped>>

\* POST /sources/{id}/datasets: with the schema of a peek, or with none.
CreateDataset(d) ==
    /\ ~datasets[d].registered
    /\ datasets' = [datasets EXCEPT ![d].registered = TRUE]
    /\ UNCHANGED <<source, pushed, staged, stored, purged, request, pulls, ingestFaults, ingestOverlapped>>

-----------------------------------------------------------------------------
(* POST /webhooks/enterprise-data/{source_id} *)

\* A verified push of n rows, committed before it is answered. A source that
\* cannot verify a push, or is no WEBHOOK, refuses it.
ReceiveWebhook(n) ==
    /\ source.type = "WEBHOOK" /\ source.configured
    /\ pushed + n <= MaxRow
    /\ pushed' = pushed + n
    /\ staged' = staged \cup (pushed + 1 .. pushed + n)
    /\ UNCHANGED <<source, datasets, stored, purged, request, pulls, ingestFaults, ingestOverlapped>>

-----------------------------------------------------------------------------
(* POST /datasets/{dataset_id}/ingest *)

\* The dataset is read, its row_count with it, and then the source. The rows of
\* a manual upload arrive with the request.
BeginIngest(a, d, n) ==
    /\ request[a] = NoIngest
    /\ datasets[d].registered
    /\ IF source.type = "MANUAL_UPLOAD" THEN pushed + n <= MaxRow ELSE n = 0
    /\ pushed' = pushed + n
    /\ request' = [request EXCEPT ![a] =
         [step |-> IF source.type = "MANUAL_UPLOAD" THEN "save" ELSE "rows",
          dataset |-> d, count |-> datasets[d].row_count,
          rows |-> pushed + 1 .. pushed + n]]
    /\ ingestOverlapped' = (ingestOverlapped \/ \E b \in Admins : request[b] # NoIngest)
    /\ UNCHANGED <<source, tables, pulls, ingestFaults>>

\* drain_enterprise_webhook_rows: the rows are selected ...
DrainSelect(a) ==
    /\ request[a].step = "rows" /\ source.type = "WEBHOOK"
    /\ request' = [request EXCEPT ![a].step = "delete", ![a].rows = staged]
    /\ UNCHANGED <<source, pushed, tables, pulls, ingestFaults, ingestOverlapped>>

\* Mutant: everything that is staged by now is deleted.
MutDrainDelete(a) ==
    /\ request[a].step = "delete"
    /\ staged' = {}
    /\ request' = [request EXCEPT ![a].step = "save"]
    /\ UNCHANGED <<source, pushed, datasets, stored, purged, pulls, ingestFaults, ingestOverlapped>>

\* ... and deleted one by one; one that is gone already is no error.
DrainDelete(a) ==
    /\ request[a].step = "delete"
    /\ staged' = staged \ request[a].rows
    /\ request' = [request EXCEPT ![a].step = "save"]
    /\ UNCHANGED <<source, pushed, datasets, stored, purged, pulls, ingestFaults, ingestOverlapped>>

\* The fetch of a pull connector answers; what it brings is new each time.
FetchRows(a, n) ==
    /\ request[a].step = "rows" /\ Pulls(source.type) /\ source.configured
    /\ pulls < MaxPulls
    /\ pushed + n <= MaxRow
    /\ pulls' = pulls + 1
    /\ pushed' = pushed + n
    /\ request' = [request EXCEPT ![a].step = "save",
                                  ![a].rows = pushed + 1 .. pushed + n]
    /\ UNCHANGED <<source, tables, ingestFaults, ingestOverlapped>>

\* It is not configured, or does not answer: an error event and a 400, or a 500.
\* Only a pull connector can refuse, so nothing is held that could be lost.
Refused(a) ==
    /\ request[a].step \in {"rows", "schema"} /\ Pulls(source.type)
    /\ request' = [request EXCEPT ![a] = NoIngest]
    /\ UNCHANGED <<source, pushed, tables, pulls, ingestFaults, ingestOverlapped>>

\* ingest: the rows that are non-empty objects.
Accepted(rows) == rows \ Empty

\* The records that each dataset ever had, and those of dataset d that held row r.
Saved == [d \in Datasets |-> stored[d] \cup purged[d]]
Copies(d, r) == {x \in Saved[d] : x[1] = r}

\* save_enterprise_records: one transaction, and a new record for each row.
SaveRecords(a) ==
    /\ request[a].step = "save"
    /\ stored' = [stored EXCEPT ![request[a].dataset] =
         @ \cup {<<r, Cardinality(Copies(request[a].dataset, r))>> : r \in Accepted(request[a].rows)}]
    /\ request' = [request EXCEPT ![a].step = "schema"]
    /\ UNCHANGED <<source, pushed, staged, datasets, purged, pulls, ingestFaults, ingestOverlapped>>

\* discover_schema: a pull connector fetches once more, the others look at the rows.
DiscoverSchema(a) ==
    /\ request[a].step = "schema"
    /\ Pulls(source.type) => source.configured
    /\ request' = [request EXCEPT ![a].step = "sync"]
    /\ UNCHANGED <<source, pushed, tables, pulls, ingestFaults, ingestOverlapped>>

\* Mutant: rejected rows are counted too.
MutUpdateSync(a) ==
    /\ request[a].step = "sync"
    /\ datasets' = [datasets EXCEPT ![request[a].dataset].row_count =
         request[a].count + Cardinality(request[a].rows)]
    /\ request' = [request EXCEPT ![a] = NoIngest]
    /\ UNCHANGED <<source, pushed, staged, stored, purged, pulls, ingestFaults, ingestOverlapped>>

\* update_enterprise_dataset_sync: the count that was read at the start plus what
\* was ingested. The event that follows is a log.
UpdateSync(a) ==
    /\ request[a].step = "sync"
    /\ datasets' = [datasets EXCEPT ![request[a].dataset].row_count =
         request[a].count + Cardinality(Accepted(request[a].rows))]
    /\ request' = [request EXCEPT ![a] = NoIngest]
    /\ UNCHANGED <<source, pushed, staged, stored, purged, pulls, ingestFaults, ingestOverlapped>>

\* purge_enterprise_records_for_retention: some records are older than the cutoff (which
\* of them is DataRetention's concern), and go in one transaction; the row count stays.
PurgeRecords(d) ==
    /\ \E old \in SUBSET stored[d] \ {{}} :
         /\ stored' = [stored EXCEPT ![d] = @ \ old]
         /\ purged' = [purged EXCEPT ![d] = @ \cup old]
    /\ UNCHANGED <<source, pushed, staged, datasets, request, pulls, ingestFaults,
                   ingestOverlapped>>

\* A call raises or the process dies: whatever the request held is gone.
IngestFails(a) ==
    /\ ingestFaults < MaxIngestFaults
    /\ request[a] # NoIngest
    /\ ingestFaults' = ingestFaults + 1
    /\ request' = [request EXCEPT ![a] = NoIngest]
    /\ UNCHANGED <<source, pushed, tables, pulls, ingestOverlapped>>

IngestNext ==
    \/ UpdateSource
    \/ \E d \in Datasets : CreateDataset(d) \/ PurgeRecords(d)
    \/ \E n \in 1 .. 2 : ReceiveWebhook(n)
    \/ \E a \in Admins, d \in Datasets, n \in 0 .. 2 : BeginIngest(a, d, n)
    \/ \E a \in Admins, n \in 0 .. 2 : FetchRows(a, n)
    \/ \E a \in Admins :
         \/ DrainSelect(a) \/ DrainDelete(a) \/ Refused(a) \/ SaveRecords(a)
         \/ DiscoverSchema(a) \/ UpdateSync(a) \/ IngestFails(a)

IngestSpec == IngestInit /\ [][IngestNext]_ingestVars

-----------------------------------------------------------------------------
(* What the code guarantees *)

\* Where row r is: staged, taken by an ingest that has not saved it, or saved,
\* once for each record; one that retention has purged was saved as well.
Places(r) ==
    {x \in {"staged"} : r \in staged}
    \cup {a \in Admins : /\ request[a] # NoIngest
                        /\ request[a].step = "save" /\ r \in request[a].rows}
    \cup UNION {{<<d, x>> : x \in Copies(d, r)} : d \in Datasets}

(***************************************************************************)
(* Between the staging buffer, the ingest in progress and the records no   *)
(* valid row gets lost without a fault, a push in the middle of a drain    *)
(* included, before it was saved (then it is up to retention); and as long *)
(* as ingests do not overlap no row is in two places, nor comes back after *)
(* a purge, whatever fails ("staged rows are durable ... a row is ingested *)
(* at most once": drain_enterprise_webhook_rows, ingest_dataset).          *)
(***************************************************************************)
RowsAreConserved ==
    \A r \in 1 .. pushed :
      /\ ingestFaults = 0 /\ r \notin Empty => Places(r) # {}
      /\ ~ingestOverlapped => \A p, q \in Places(r) : p = q

(***************************************************************************)
(* The row count of a dataset, which two ingests may read before either    *)
(* writes it and which no purge takes back, never says more than what was  *)
(* ever saved; after ingests one by one of a connector that does not       *)
(* fetch, and without a fault, it says exactly that, so that what it is    *)
(* ahead of the table are the purged records (ingest_dataset,              *)
(* update_enterprise_dataset_sync, purge_enterprise_records_for_retention).*)
(***************************************************************************)
RowCountIsSound ==
    \A d \in Datasets :
      /\ datasets[d].row_count <= Cardinality(Saved[d])
      /\ ~ingestOverlapped /\ ingestFaults = 0 /\ ~Pulls(source.type)
           /\ (\A a \in Admins : request[a] = NoIngest)
         => datasets[d].row_count = Cardinality(Saved[d])

\* Both, which is what an administrator who looks at the data source sees.
RowsAreAccountedFor == RowsAreConserved /\ RowCountIsSound

-----------------------------------------------------------------------------
(* What a comment says and the code does not do *)

(***************************************************************************)
(* "Pops every staged webhook row ..., deleting them so a row is ingested  *)
(* at most once" (drain_enterprise_webhook_rows).                          *)
(***************************************************************************)
IngestedAtMostOnce ==
    \A d, e \in Datasets : \A x \in stored[d], y \in stored[e] :
      x[1] = y[1] => d = e /\ x = y
=============================================================================
