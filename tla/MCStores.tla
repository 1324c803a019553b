------------------------------ MODULE MCStores ------------------------------
(***************************************************************************)
(* Three stores, each checked on its own: the first state says which of    *)
(* them runs, the others stay as they began.  Two share a table, the       *)
(* enterprise records, and neither reads it before it writes: to the       *)
(* ingest a purge is PurgeRecords, to retention an ingest is NewRecord.    *)
(***************************************************************************)
EXTENDS ObservationHistory, EnterpriseIngest, DataRetention

CONSTANTS api, worker, o1, o2, c1, c2

VARIABLES part       \* which store runs

\* Every version gets the next number, or all get the schema's default.
MCNumberings == {[v \in 0 .. MaxVersion |-> v], [v \in 0 .. MaxVersion |-> 0]}

\* An organization with a period for each class, one with none, platform defaults.
MCPairs == <<[org |-> o1, class |-> c1], [org |-> o2, class |-> c2]>>
MCDatasets == {MCPairs[1], MCPairs[2]}
Governs(org, class, days) == [org |-> org, class |-> class, days |-> days]
MCPolicies == {Governs(o1, c1, 0), Governs(o1, c1, Forever), Governs(o1, c2, 0),
               Governs(Platform, c1, 0), Governs(Platform, c2, 0)}

mcVars == <<part, vars, ingestVars, retentionVars>>

MCInit ==
    /\ part \in {"observations", "ingest", "retention"}
    /\ Init /\ IngestInit /\ RetentionInit
    /\ part # "observations" => numbering = [v \in 0 .. MaxVersion |-> v]
    /\ part # "ingest" => source = [type |-> "WEBHOOK", configured |-> TRUE]

Observe ==
    /\ part = "observations"
    /\ Next
    /\ UNCHANGED <<part, ingestVars, retentionVars>>

Receive ==
    /\ part = "ingest"
    /\ IngestNext
    /\ UNCHANGED <<part, vars, retentionVars>>

Retain ==
    /\ part = "retention"
    /\ RetentionNext
    /\ UNCHANGED <<part, vars, ingestVars>>

MCNext == Observe \/ Receive \/ Retain

\* The worker's loop, as in DataRetention.
WorkerPurges ==
    /\ part = "retention"
    /\ BeginCycle \/ PurgeStep("worker")
    /\ UNCHANGED <<part, vars, ingestVars>>

MCSpec == MCInit /\ [][MCNext]_mcVars /\ WF_mcVars(WorkerPurges)
=============================================================================
