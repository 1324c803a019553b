--------------------------- MODULE DataRetention ---------------------------
(***************************************************************************)
(* The retention of enterprise records: policies of organizations and of   *)
(* the platform, which administrators add and delete, and the purges that  *)
(* they order or that the worker's cycle runs for every pair of            *)
(* organization and classification that has a dataset. A purge resolves    *)
(* its policy in one await, lists the datasets in another and deletes      *)
(* dataset by dataset; records arrive and age meanwhile. A row of the      *)
(* table has no age limit of its own: the newest policy that fits counts.  *)
(*                                                                         *)
(* Sources: AppState.apply_retention_policy*, retention.py, worker.py,     *)
(* routers/admin_data_governance.py and packages/db/db/repository.py.      *)
(***************************************************************************)
EXTENDS Integers, Sequences, FiniteSets, SequencesExt

CONSTANTS
    Orgs, Classes,   \* organizations and data classifications
    OwnedDatasets,   \* each dataset's organization and classification:
                     \* a set of records [org, class]
    Days,            \* the retention periods; Forever is one of them
    Forever,         \* retention_days = None
    Platform,        \* organization_id = None
    PolicyChoices,   \* the policies that administrators may add
    Pairs,           \* the same in the order of sorted()
    MaxClock, MaxPolicies, MaxEdits, MaxOrders, MaxPurgeFaults   \* bounds

ASSUME RetentionAssumption ==
    /\ OwnedDatasets \subseteq [org : Orgs, class : Classes]
    /\ Pairs \in Seq(OwnedDatasets)
    /\ Forever \in Days /\ Days \ {Forever} \subseteq Int
    /\ PolicyChoices \subseteq [org : Orgs \cup {Platform}, class : Classes, days : Days]
    /\ MaxClock \in Nat

VARIABLES
    today,      \* the clock, in days
    records,    \* enterprise_records: dataset and day of ingestion
    policies,   \* retention_policies, newest first
    purge,      \* per purger: the administrator's request and the worker's cycle
    cycle,      \* the pairs that the worker's cycle still has to apply
    edits, orders, purgeFaults

retentionVars == <<today, records, policies, purge, cycle, edits, orders, purgeFaults>>

Purgers == {"admin", "worker"}
Records == [dataset : OwnedDatasets, day : 0 .. MaxClock]
Policies == [org : Orgs \cup {Platform}, class : Classes, days : Days]
NoPurge == [step |-> "idle"]

\* `promised` is history: what governed each dataset when the purge looked.
Jobs == {NoPurge}
    \cup [step : {"resolve"}, org : Orgs \cup {Platform}, class : Classes]
    \cup [step : {"list", "purge"}, org : Orgs \cup {Platform}, class : Classes,
          cutoff : Int, todo : SUBSET OwnedDatasets, promised : [OwnedDatasets -> Days]]

RetentionInit ==
    /\ today = 0
    /\ records = {}
    /\ policies = <<>>
    /\ purge = [p \in Purgers |-> NoPurge]
    /\ cycle = <<>>
    /\ edits = 0 /\ orders = 0 /\ purgeFaults = 0

Tick ==
    /\ today < MaxClock
    /\ today' = today + 1
    /\ UNCHANGED <<records, policies, purge, cycle, edits, orders, purgeFaults>>

\* An ingest into dataset d.
NewRecord(d) ==
    /\ records' = records \cup {[dataset |-> d, day |-> today]}
    /\ records' # records
    /\ UNCHANGED <<today, policies, purge, cycle, edits, orders, purgeFaults>>

-----------------------------------------------------------------------------
(* The policies *)

\* POST /admin/retention-policies: another row, not a replacement.
CreatePolicy(policy) ==
    /\ edits < MaxEdits /\ Len(policies) < MaxPolicies
    /\ edits' = edits + 1
    /\ policies' = <<policy>> \o policies
    /\ UNCHANGED <<today, records, purge, cycle, orders, purgeFaults>>

\* DELETE /admin/retention-policies/{id}: an older one may fit again.
DeletePolicy(i) ==
    /\ edits < MaxEdits
    /\ edits' = edits + 1
    /\ policies' = RemoveAt(policies, i)
    /\ UNCHANGED <<today, records, purge, cycle, orders, purgeFaults>>

\* list_retention_policies: the organization's and the platform's, newest first.
Visible(org) == {i \in DOMAIN policies : policies[i].org \in {org, Platform}}

\* The policies of `org` for `class` in a list, and the first of some.
Fitting(list, org, class) ==
    {i \in list : policies[i].org = org /\ policies[i].class = class}
First(list) == CHOOSE i \in list : \A j \in list : i <= j

\* Mutant: the newest policy wins, whoever's it is.
MutResolve(org, class) ==
    LET fits == {i \in Visible(org) : policies[i].class = class}
    IN  IF fits = {} THEN Forever ELSE policies[First(fits)].days

\* resolve_retention_days: the organization's policy, "keep forever" included,
\* before the platform's; without one nothing is purged.
Resolve(org, class) ==
    LET own == Fitting(Visible(org), org, class)
        platform == Fitting(Visible(org), Platform, class)
    IN  IF own # {} THEN policies[First(own)].days
        ELSE IF platform # {} THEN policies[First(platform)].days
        ELSE Forever

-----------------------------------------------------------------------------
(* apply_retention_policy *)

Order(p, org, class) ==
    purge' = [purge EXCEPT ![p] = [step |-> "resolve", org |-> org, class |-> class]]

\* POST /admin/retention-policies/apply, for an organization or the platform.
OrderPurge(org, class) ==
    /\ orders < MaxOrders
    /\ purge["admin"] = NoPurge
    /\ orders' = orders + 1
    /\ Order("admin", org, class)
    /\ UNCHANGED <<today, records, policies, cycle, edits, purgeFaults>>

\* apply_retention_policies_for_all_organizations: every pair that has a dataset.
BeginCycle ==
    /\ purge["worker"] = NoPurge /\ cycle = <<>> /\ Pairs # <<>>
    /\ cycle' = Pairs
    /\ Order("worker", Pairs[1].org, Pairs[1].class)
    /\ UNCHANGED <<today, records, policies, edits, orders, purgeFaults>>

\* Mutant: the cycle ends with its first pair.
MutDone(p) ==
    /\ cycle' = IF p = "worker" THEN <<>> ELSE cycle
    /\ purge' = [purge EXCEPT ![p] = NoPurge]

\* Purger p is done with its pair; the worker goes on to the next one.
Done(p) ==
    IF p = "worker" /\ Len(cycle) > 1
    THEN /\ cycle' = Tail(cycle)
         /\ Order("worker", cycle[2].org, cycle[2].class)
    ELSE /\ cycle' = IF p = "worker" THEN <<>> ELSE cycle
         /\ purge' = [purge EXCEPT ![p] = NoPurge]

\* Policy i comes before j for dataset d: the organization's before the platform's,
\* and of two of the same the newer one.
Outranks(i, j, d) ==
    \/ policies[i].org = d.org /\ policies[j].org # d.org
    \/ policies[i].org = policies[j].org /\ i < j

\* What governs a dataset, said without the code's search: the period of the policy
\* that no other one outranks.
Governing(d) ==
    LET fit == {i \in DOMAIN policies :
                  policies[i].org \in {d.org, Platform} /\ policies[i].class = d.class}
        best == {i \in fit : \A j \in fit : ~Outranks(j, i, d)}
    IN  IF best = {} THEN Forever ELSE policies[CHOOSE i \in best : TRUE].days

\* The policies are read and the cutoff is computed; no policy, no purge.
ResolvePolicy(p) ==
    /\ purge[p].step = "resolve"
    /\ LET days == Resolve(purge[p].org, purge[p].class)
       IN  IF days = Forever THEN Done(p)
           ELSE /\ purge' = [purge EXCEPT ![p] =
                     [step |-> "list", org |-> @.org, class |-> @.class,
                      cutoff |-> today - days, todo |-> {},
                      promised |-> [d \in OwnedDatasets |-> Governing(d)]]]
                /\ UNCHANGED cycle
    /\ UNCHANGED <<today, records, policies, edits, orders, purgeFaults>>

\* list_enterprise_datasets, which without an organization lists all of them.
Matching(org, class) ==
    {d \in OwnedDatasets : org \in {d.org, Platform} /\ d.class = class}

ListDatasets(p) ==
    /\ purge[p].step = "list"
    /\ LET todo == Matching(purge[p].org, purge[p].class)
       IN  IF todo = {} THEN Done(p)
           ELSE /\ purge' = [purge EXCEPT ![p].step = "purge", ![p].todo = todo]
                /\ UNCHANGED cycle
    /\ UNCHANGED <<today, records, policies, edits, orders, purgeFaults>>

Expired(d, cutoff) == {r \in records : r.dataset = d /\ r.day < cutoff}

\* purge_enterprise_records_for_retention, one dataset after the other.
Purge(p) ==
    /\ purge[p].step = "purge"
    /\ \E d \in purge[p].todo :
         /\ records' = records \ Expired(d, purge[p].cutoff)
         /\ IF purge[p].todo = {d} THEN Done(p)
            ELSE purge' = [purge EXCEPT ![p].todo = @ \ {d}] /\ UNCHANGED cycle
    /\ UNCHANGED <<today, policies, edits, orders, purgeFaults>>

\* A call raises, or the publish at the end: the worker's cycle ends with it.
PurgeFails(p) ==
    /\ purgeFaults < MaxPurgeFaults
    /\ purge[p] # NoPurge
    /\ purgeFaults' = purgeFaults + 1
    /\ purge' = [purge EXCEPT ![p] = NoPurge]
    /\ cycle' = IF p = "worker" THEN <<>> ELSE cycle
    /\ UNCHANGED <<today, records, policies, edits, orders>>

PurgeStep(p) == ResolvePolicy(p) \/ ListDatasets(p) \/ Purge(p)

RetentionNext ==
    \/ Tick
    \/ \E d \in OwnedDatasets : NewRecord(d)
    \/ \E policy \in PolicyChoices : CreatePolicy(policy)
    \/ \E i \in DOMAIN policies : DeletePolicy(i)
    \/ \E org \in Orgs \cup {Platform}, class \in Classes : OrderPurge(org, class)
    \/ BeginCycle
    \/ \E p \in Purgers : PurgeStep(p) \/ PurgeFails(p)

RetentionSpec == RetentionInit /\ [][RetentionNext]_retentionVars

\* The worker's loop starts a cycle every research interval, and every exception
\* is caught in the loop.
RetentionFairSpec == RetentionSpec /\ WF_retentionVars(BeginCycle \/ PurgeStep("worker"))

-----------------------------------------------------------------------------
(* What the code guarantees *)

RetentionTypeOK ==
    /\ today \in 0 .. MaxClock
    /\ records \subseteq Records
    /\ policies \in Seq(Policies)
    /\ purge \in [Purgers -> Jobs]
    /\ cycle \in Seq(OwnedDatasets)

\* Purger p, working for `orgs`, may delete record r.
MayDelete(p, orgs, r) ==
    /\ purge[p].step = "purge" /\ purge[p].org \in orgs
    /\ purge[p].promised[r.dataset] # Forever
    /\ r.day + purge[p].promised[r.dataset] < today

(***************************************************************************)
(* A purge for an organization deletes only records that have outlived     *)
(* what governed their dataset when the purge looked: the organization's   *)
(* newest policy, or else the platform's newest, of the dataset's own      *)
(* classification; without one, "data is never silently deleted"           *)
(* (resolve_retention_days). Policies, the worker's cycle and a second     *)
(* purge may change everything meanwhile.                                  *)
(***************************************************************************)
PurgeFollowsPolicy ==
    [][(\A p \in Purgers : purge[p].step = "purge" => purge[p].org # Platform)
       => \A r \in records \ records' : \E p \in Purgers : MayDelete(p, Orgs, r)]_retentionVars

(***************************************************************************)
(* A record that stays expired under what governs its dataset is purged by *)
(* the worker, however cycles fail, and whatever administrators order      *)
(* meanwhile (apply_retention_policies_for_all_organizations).             *)
(***************************************************************************)
ExpiredIsPurged ==
    \A d \in OwnedDatasets, n \in Days \ {Forever} :
      <>[](Governing(d) = n) => <>[](\A r \in records : r.dataset = d => r.day + n >= today)

-----------------------------------------------------------------------------
(* What a comment says and the code does not do *)

(***************************************************************************)
(* "organization override winning over the platform default"               *)
(* (apply_retention_policy), also in a purge ordered for the platform.     *)
(***************************************************************************)
OverrideSurvivesPlatformPurge ==
    [][\A r \in records \ records' :
         \E p \in Purgers : MayDelete(p, Orgs \cup {Platform}, r)]_retentionVars
=============================================================================
