---------------------------- MODULE FeedSchedule ----------------------------
(***************************************************************************)
(* Per-feed polling: the data_feed_configs rows, the worker's tick         *)
(* (feed_scheduler.poll_due_feeds), the admin page's edits and manual      *)
(* refreshes in the API process. The ingestion log is left out: no         *)
(* decision reads it.                                                      *)
(*                                                                         *)
(* Time is kept as ages that stop at Cap: a row's `age` is the time since  *)
(* its last_polled_at, `lag` the time since the `now` a tick decides with. *)
(* An age of Cap stands for "at least Cap" and for a NULL, which is_due    *)
(* treats alike because no interval exceeds Cap.                           *)
(*                                                                         *)
(* Sources: apps/api/api_app/feed_scheduler.py, worker.py,                 *)
(* routers/admin_data_feeds.py and packages/db/db/repository.py.           *)
(***************************************************************************)
EXTENDS Naturals, Sequences, FiniteSets

CONSTANTS
    FeedOrder,    \* the provider ids in the order of the configuration rows
    Default,      \* DEFAULT_POLL_SECONDS; 0 for a provider that has none
    Frequencies,  \* the polling_frequency_seconds an admin may enter
    Cap,          \* bound: ages are counted up to here
    MaxPatches, MaxReloads, MaxFaults,  \* bounds
    NoFeed

Feeds == {FeedOrder[i] : i \in DOMAIN FeedOrder}

ASSUME FeedAssumption == FeedOrder \in Seq(Feeds) /\ NoFeed \notin Feeds
ASSUME CapAssumption ==
    /\ Cap \in Nat
    /\ Default \in [Feeds -> 0 .. Cap]
    /\ Frequencies \subseteq 0 .. Cap
ASSUME BoundAssumption == {MaxPatches, MaxReloads, MaxFaults} \subseteq Nat

VARIABLES
    rows,        \* data_feed_configs
    registered,  \* the worker's ProviderRegistry
    queue,       \* the due feeds of this tick that are still to be polled: a set, since
                 \* they are polled in the order of the rows
    step,        \* what the worker awaits
    lag,         \* time since the `now` of the tick
    request,     \* the feed whose manual refresh awaits its stamp
    patches, reloads, faults,
    attempt,     \* history: time since the `now` of the last scheduled fetch
    excused      \* history: a fault kept that fetch from being stamped, or the
                 \* row was edited in the middle of a tick

worker == <<queue, step, lag>>
history == <<attempt, excused>>
bounds == <<patches, reloads, faults>>
vars == <<rows, registered, worker, request, bounds, history>>

Ages == 0 .. Cap
Later(age) == IF age < Cap THEN age + 1 ELSE Cap
Rows == [enabled : BOOLEAN, paused : BOOLEAN, frequency : {0} \cup Frequencies,
         age : Ages]

TypeOK ==
    /\ rows \in [Feeds -> Rows]
    /\ registered \subseteq Feeds
    /\ queue \subseteq Feeds
    /\ step \in {"sleep", "fetch", "stamp", "record"}
    /\ lag \in Ages
    /\ request \in Feeds \cup {NoFeed}
    /\ patches \in Nat /\ reloads \in Nat /\ faults \in Nat
    /\ attempt \in [Feeds -> Ages]
    /\ excused \in [Feeds -> BOOLEAN]

\* seed_data_feed_configs: one default row for every registered provider.
NewRow == [enabled |-> TRUE, paused |-> FALSE, frequency |-> 0, age |-> Cap]

Init ==
    /\ rows = [p \in Feeds |-> NewRow]
    /\ registered \in SUBSET Feeds
    /\ queue = {} /\ step = "sleep" /\ lag = 0
    /\ request = NoFeed
    /\ patches = 0 /\ reloads = 0 /\ faults = 0
    /\ attempt = [p \in Feeds |-> Cap]
    /\ excused = [p \in Feeds |-> FALSE]

-----------------------------------------------------------------------------
(* Which feeds are due *)

\* The interval in force; 0 means that the feed is not scheduled.
EffectiveInterval(p, row) ==
    IF row.frequency > 0 THEN row.frequency ELSE Default[p]

IsDue(p, row) ==
    /\ row.enabled /\ ~row.paused
    /\ EffectiveInterval(p, row) > 0
    /\ row.age >= EffectiveInterval(p, row)

TimePasses ==
    /\ rows' = [p \in Feeds |-> [rows[p] EXCEPT !.age = Later(@)]]
    /\ attempt' = [p \in Feeds |-> Later(attempt[p])]
    /\ lag' = IF step = "sleep" THEN 0 ELSE Later(lag)
    /\ UNCHANGED <<registered, queue, step, request, bounds, excused>>

-----------------------------------------------------------------------------
(* The worker *)

\* The one of `q` that comes first in the configuration.
First(q) ==
    FeedOrder[CHOOSE i \in DOMAIN FeedOrder :
                /\ FeedOrder[i] \in q
                /\ \A j \in 1 .. i - 1 : FeedOrder[j] \notin q]

\* The fetch of the first feed of `q` starts, in a tick whose `now` is `ago` old.
StartFetch(q, ago) ==
    /\ queue' = q
    /\ step' = IF q = {} THEN "sleep" ELSE "fetch"
    /\ attempt' = IF q = {} THEN attempt ELSE [attempt EXCEPT ![First(q)] = ago]
    /\ excused' = IF q = {} THEN excused ELSE [excused EXCEPT ![First(q)] = FALSE]

\* The rows are read once for a tick; neither they nor the registry is looked
\* at again before the tick ends.
BeginTick ==
    /\ step = "sleep"
    /\ lag' = 0
    /\ StartFetch({p \in registered : IsDue(p, rows[p])}, 0)
    /\ UNCHANGED <<rows, registered, request, bounds>>

\* ingest_from_provider never raises: what it reports decides only what is logged.
Ingested ==
    /\ step = "fetch"
    /\ step' = "stamp"
    /\ UNCHANGED <<rows, registered, queue, lag, request, bounds,
                   attempt, excused>>

\* Mutant: the stamp is the one the row already has.
MutStamped ==
    /\ step = "stamp"
    /\ step' = "record"
    /\ rows' = [rows EXCEPT ![First(queue)].age = @]
    /\ UNCHANGED <<registered, queue, lag, request, bounds, history>>

\* mark_data_feed_polled(provider_id, now): whatever the fetch brought, and
\* with the `now` of the tick.
Stamped ==
    /\ step = "stamp"
    /\ step' = "record"
    /\ rows' = [rows EXCEPT ![First(queue)].age = lag]
    /\ UNCHANGED <<registered, queue, lag, request, bounds, history>>

\* The stamp cannot be written; the tick goes on.
StampLost ==
    /\ faults < MaxFaults
    /\ step = "stamp"
    /\ faults' = faults + 1
    /\ step' = "record"
    /\ excused' = [excused EXCEPT ![First(queue)] = TRUE]
    /\ UNCHANGED <<rows, registered, queue, lag, request, patches, reloads, attempt>>

\* Mutant: the tick ends after the first feed that it polled.
MutRecorded ==
    /\ step = "record"
    /\ StartFetch({}, lag)
    /\ lag' = 0
    /\ UNCHANGED <<rows, registered, request, bounds>>

\* A scheduled_poll event, written if it can be; nothing reads it back.
Recorded ==
    /\ step = "record"
    /\ StartFetch(queue \ {First(queue)}, lag)
    /\ lag' = IF step' = "sleep" THEN 0 ELSE lag
    /\ UNCHANGED <<rows, registered, request, bounds>>

\* The worker dies, whatever it awaits, and is started again.
Crash ==
    /\ faults < MaxFaults
    /\ step # "sleep"
    /\ faults' = faults + 1
    /\ queue' = {} /\ step' = "sleep" /\ lag' = 0
    /\ excused' = IF step = "record" THEN excused
                  ELSE [excused EXCEPT ![First(queue)] = TRUE]
    /\ UNCHANGED <<rows, registered, request, patches, reloads, attempt>>

\* reload_runtime builds another registry, between two ticks.
Reload ==
    /\ reloads < MaxReloads
    /\ step = "sleep"
    /\ reloads' = reloads + 1
    /\ registered' \in SUBSET Feeds
    /\ UNCHANGED <<rows, worker, request, patches, faults, history>>

-----------------------------------------------------------------------------
(* The admin page *)

\* PATCH /admin/data-feeds/{provider_id}: a field that is absent is left alone,
\* so a frequency can be replaced but not unset.
Patch(p) ==
    /\ patches < MaxPatches
    /\ patches' = patches + 1
    /\ \E on, off \in BOOLEAN, f \in Frequencies \cup {rows[p].frequency} :
         rows' = [rows EXCEPT ![p].enabled = on, ![p].paused = off,
                              ![p].frequency = f]
    /\ excused' = [excused EXCEPT ![p] = @ \/ step # "sleep"]
    /\ UNCHANGED <<registered, worker, request, reloads, faults, attempt>>

\* POST /admin/data-feeds/{provider_id}/refresh whose ingestion succeeds; one
\* that fails is only logged.
ManualRefresh(p) ==
    /\ request = NoFeed
    /\ request' = p
    /\ UNCHANGED <<rows, registered, worker, bounds, history>>

\* mark_data_feed_polled(provider_id): with the time of the call.
ManualStamped ==
    /\ request # NoFeed
    /\ request' = NoFeed
    /\ rows' = [rows EXCEPT ![request].age = 0]
    /\ UNCHANGED <<registered, worker, bounds, history>>

ManualFails ==
    /\ faults < MaxFaults
    /\ request # NoFeed
    /\ faults' = faults + 1
    /\ request' = NoFeed
    /\ UNCHANGED <<rows, registered, worker, patches, reloads, history>>

Next ==
    \/ TimePasses
    \/ BeginTick \/ Ingested \/ Stamped \/ StampLost \/ Recorded \/ Crash \/ Reload
    \/ \E p \in Feeds : Patch(p) \/ ManualRefresh(p)
    \/ ManualStamped \/ ManualFails

Spec == Init /\ [][Next]_vars

\* The clock runs, the worker's loop resumes when its awaited call has answered
\* (calls have timeouts), and so does a request.
FairSpec ==
    /\ Spec
    /\ WF_vars(TimePasses)
    /\ WF_vars(BeginTick)
    /\ WF_vars(Ingested \/ Stamped \/ Recorded)
    /\ WF_vars(ManualStamped)

-----------------------------------------------------------------------------
(* What the code guarantees *)

(***************************************************************************)
(* A feed is not fetched by the schedule again before its interval has     *)
(* elapsed since the tick that fetched it last, however it answered then   *)
(* and whoever refreshed, paused or reconfigured it meanwhile, unless a    *)
(* fault kept that tick from leaving its stamp (poll_due_feeds: "a feed    *)
(* whose upstream is down must not be retried on every single tick"). An   *)
(* edit in the middle of a tick counts from the next one.                  *)
(***************************************************************************)
PollsAreSpaced ==
    [][\A p \in Feeds :
         /\ step' = "fetch" /\ First(queue') = p
         /\ step # "fetch"
         /\ ~excused[p]
         => attempt[p] >= EffectiveInterval(p, rows[p])]_vars

\* The worker, a manual refresh or the boot is bringing p's data.
Fetching(p) ==
    \/ step = "fetch" /\ First(queue) = p
    \/ request = p

Active(p) ==
    /\ rows[p].enabled /\ ~rows[p].paused
    /\ EffectiveInterval(p, rows[p]) > 0
    /\ p \in registered

(***************************************************************************)
(* A feed that stays enabled, unpaused, registered and has an interval is  *)
(* fetched again and again: other feeds that fail, hang until their        *)
(* timeout or come first do not starve it, nor do crashes and lost stamps  *)
(* (poll_due_feeds: "one failing upstream must never stop the others").    *)
(***************************************************************************)
ActiveFeedKeepsPolling ==
    \A p \in Feeds : <>[]Active(p) => []<>Fetching(p)

=============================================================================
