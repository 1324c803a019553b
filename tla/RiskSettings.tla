---------------------------- MODULE RiskSettings ----------------------------
(***************************************************************************)
(* The risk limits: AppState.risk_limits, the effective-dated risk_limits  *)
(* table it is written through to and hydrated from, the two requests that *)
(* change it (PUT /risk/limits of the trading desk, which takes            *)
(* effective_from from its body, and PUT /admin/risk-settings, which       *)
(* stamps it), and the audit trail of the second.                          *)
(*                                                                         *)
(* Sources: apps/api/api_app/routers/risk.py, routers/admin_governance.py, *)
(* audit.py, state.py and packages/db/db/repository.py.                    *)
(***************************************************************************)
EXTENDS Naturals, FiniteSets

CONSTANTS
    DeskRequests,   \* PUT /risk/limits requests, each with an id of its own
    AdminRequests,  \* PUT /admin/risk-settings requests
    Values,         \* the limits a request carries
    DefaultValue,   \* default_risk_limits()
    Nobody,
    MaxAhead,       \* bound: how far a body's stamp is ahead of the clock
    MaxCrashes,     \* bound: process restarts
    MaxAborts       \* bound: awaited calls that raise

Requests == DeskRequests \cup AdminRequests

ASSUME RequestAssumption == DeskRequests \cap AdminRequests = {}
ASSUME ValueAssumption == DefaultValue \in Values
ASSUME NobodyAssumption == Nobody \notin Requests
ASSUME BoundAssumption == MaxAhead \in Nat /\ MaxCrashes \in Nat /\ MaxAborts \in Nat

VARIABLES
    clock,      \* the last time stamp taken
    limits,     \* AppState.risk_limits
    table,      \* the rows of risk_limits
    pc,         \* per request: "new", the call it awaits, "done" or "failed"
    sent,       \* per request: the limits it set
    before,     \* per request: the limits it replaced
    after,      \* per request: the limits it found when its row was saved
    audits,     \* audit_events of risk_settings.update
    crashes, aborts

request == <<pc, sent, before, after>>
faults == <<crashes, aborts>>
vars == <<clock, limits, table, request, audits, faults>>

\* `stamp` remembers where effective_from came from: the clock, or a body that
\* named a moment that had passed or one that was still to come.
Limits == [value : Values, effective : Nat, by : Requests \cup {Nobody},
           stamp : {"clock", "past", "ahead"}]

Defaults == [value |-> DefaultValue, effective |-> 0, by |-> Nobody,
             stamp |-> "clock"]

Steps == {"new", "save_limits", "save_settings", "save_audit", "done", "failed"}

Audits == [by : Requests, before : Limits, after : Limits]

TypeOK ==
    /\ clock \in Nat
    /\ limits \in Limits
    /\ table \in SUBSET Limits
    /\ pc \in [Requests -> Steps]
    /\ sent \in [Requests -> Limits]
    /\ before \in [Requests -> Limits]
    /\ after \in [Requests -> Limits]
    /\ audits \in SUBSET Audits
    /\ crashes \in Nat
    /\ aborts \in Nat

Init ==
    /\ clock = 0
    /\ limits = Defaults
    /\ table = {}
    /\ pc = [r \in Requests |-> "new"]
    /\ sent = [r \in Requests |-> Defaults]
    /\ before = [r \in Requests |-> Defaults]
    /\ after = [r \in Requests |-> Defaults]
    /\ audits = {}
    /\ crashes = 0
    /\ aborts = 0

-----------------------------------------------------------------------------
\* AppState.set_risk_limits up to its await: memory changes first.
Set(r, value, effective, stamp, save) ==
    /\ pc[r] = "new"
    /\ pc' = [pc EXCEPT ![r] = save]
    /\ limits' = [value |-> value, effective |-> effective, by |-> r,
                  stamp |-> stamp]
    /\ sent' = [sent EXCEPT ![r] = limits']
    /\ before' = [before EXCEPT ![r] = limits]
    /\ UNCHANGED <<after, table, audits, faults>>

\* PUT /risk/limits, effective_from left to its default: the time of the call.
PutLimits(r, value) ==
    /\ clock' = clock + 1
    /\ Set(r, value, clock', "clock", "save_limits")

\* PUT /risk/limits with effective_from in its body, which nothing checks: an
\* answer of GET /risk/limits, edited, or a moment of the caller's own.
PutEditedLimits(r, value) ==
    /\ \E moment \in 0 .. clock + MaxAhead :
         Set(r, value, moment, IF moment > clock THEN "ahead" ELSE "past", "save_limits")
    /\ UNCHANGED clock

\* PUT /admin/risk-settings
PutSettings(r, value) ==
    /\ clock' = clock + 1
    /\ Set(r, value, clock', "clock", "save_settings")

LimitsSaved(r) ==
    /\ pc[r] = "save_limits"
    /\ pc' = [pc EXCEPT ![r] = "done"]
    /\ table' = table \cup {sent[r]}
    /\ UNCHANGED <<clock, limits, sent, before, after, audits, faults>>

\* Mutant: the audit event is recorded before the limits are durable.
MutSettingsSaved(r) ==
    /\ pc[r] = "save_settings"
    /\ pc' = [pc EXCEPT ![r] = "done"]
    /\ audits' = audits \cup
         {[by |-> r, before |-> before[r], after |-> limits]}
    /\ UNCHANGED <<clock, limits, table, sent, before, after, faults>>

\* The row is durable; the handler reads risk_limits again for the audit.
SettingsSaved(r) ==
    /\ pc[r] = "save_settings"
    /\ pc' = [pc EXCEPT ![r] = "save_audit"]
    /\ table' = table \cup {sent[r]}
    /\ after' = [after EXCEPT ![r] = limits]
    /\ UNCHANGED <<clock, limits, sent, before, audits, faults>>

AuditSaved(r) ==
    /\ pc[r] = "save_audit"
    /\ pc' = [pc EXCEPT ![r] = "done"]
    /\ audits' = audits \cup
         {[by |-> r, before |-> before[r], after |-> after[r]]}
    /\ UNCHANGED <<clock, limits, table, sent, before, after, faults>>

InFlight == {r \in Requests : pc[r] \in {"save_limits", "save_settings", "save_audit"}}

\* The awaited call raises.
Abort(r) ==
    /\ aborts < MaxAborts
    /\ r \in InFlight
    /\ pc' = [pc EXCEPT ![r] = "failed"]
    /\ aborts' = aborts + 1
    /\ UNCHANGED <<clock, limits, table, sent, before, after, audits, crashes>>

\* Mutant: ordered by effective_from ascending.
MutNewest(rows) ==
    IF rows = {} THEN {Defaults}
    ELSE {r \in rows : \A s \in rows : r.effective <= s.effective}

\* The rows that ORDER BY effective_from DESC may put first.
Newest(rows) ==
    IF rows = {} THEN {Defaults}
    ELSE {r \in rows : \A s \in rows : s.effective <= r.effective}

Restart ==
    /\ crashes < MaxCrashes
    /\ crashes' = crashes + 1
    /\ limits' \in Newest(table)
    /\ pc' = [r \in Requests |-> IF r \in InFlight THEN "failed" ELSE pc[r]]
    /\ UNCHANGED <<clock, table, sent, before, after, audits, aborts>>

Next ==
    \/ \E r \in DeskRequests, v \in Values : PutLimits(r, v)
    \/ \E r \in DeskRequests, v \in Values : PutEditedLimits(r, v)
    \/ \E r \in AdminRequests, v \in Values : PutSettings(r, v)
    \/ \E r \in Requests : LimitsSaved(r)
    \/ \E r \in Requests : SettingsSaved(r)
    \/ \E r \in Requests : AuditSaved(r)
    \/ \E r \in Requests : Abort(r)
    \/ Restart

Spec == Init /\ [][Next]_vars

-----------------------------------------------------------------------------
(* What the code guarantees *)

(***************************************************************************)
(* Limits are hidden by older ones only if a caller's own stamp says so:   *)
(* of the limits in force, that they have passed, or of the durable ones,  *)
(* that they are still to come.  Neither an insert that commits late nor a *)
(* crash between two inserts puts old limits into force by itself          *)
(* (set_risk_limits; hydrate: order by effective_from descending).         *)
(***************************************************************************)
LimitsNeverRegress ==
    \A row \in table :
        row.effective > limits.effective => limits.stamp = "past" \/ row.stamp = "ahead"

Durable(r) == \E row \in table : row.by = r

(***************************************************************************)
(* A change that is audited is durable, wherever a crash or a failed call  *)
(* falls (update_risk_settings awaits the row before it records the event).*)
(***************************************************************************)
AuditedChangesAreDurable == \A a \in audits : Durable(a.by)
=============================================================================
