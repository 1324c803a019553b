----------------------------- MODULE MarketData -----------------------------
(***************************************************************************)
(* The Henry Hub curve in two processes that share only the database: the  *)
(* worker fetches it from the provider its configuration selects, keeps it *)
(* in memory and persists it row by row; the API fetches at boot, on       *)
(* Reload and on a manual refresh, and otherwise reads the worker's rows   *)
(* back in a loop. The configuration overlay (app_config -> os.environ ->  *)
(* provider registry) is part of the model, because a curve is only as     *)
(* good as the process's idea of which source is real.                     *)
(*                                                                         *)
(* A coroutine's record says what it awaits. Each fetch takes the next     *)
(* tick of the clock as its observation time, when it starts.              *)
(*                                                                         *)
(* Sources: apps/api/api_app/state.py, config_store.py, main.py,           *)
(* worker.py, routers/admin_config.py, packages/db/db/repository.py.       *)
(***************************************************************************)
EXTENDS Naturals, Sequences, FiniteSets

CONSTANTS
    Months,         \* the number of contracts of a full curve
    ScanLimit,      \* rows that latest_observation_per_series looks at
    DotEnv,         \* the source that the environment selects by itself
    Settings,       \* the values an admin may save; "unset" deletes the row
    ResearchEvery,  \* ticks of the worker between two research cycles
    MaxFetches,     \* bound: the fetches that are answered
    MaxEvents       \* bound: the edits, manual requests and faults together

Sources == {"mock", "live"}
Processes == {"api", "worker"}
Jobs == {"api", "worker", "request"}
ProcessOf(j) == IF j = "worker" THEN "worker" ELSE "api"

ASSUME SizeAssumption == Months \in Nat \ {0} /\ ScanLimit \in Nat \ {0}
ASSUME SourceAssumption ==
    DotEnv \in Sources /\ Settings \subseteq Sources \cup {"unset"}
ASSUME BoundAssumption ==
    {ResearchEvery, MaxFetches, MaxEvents} \subseteq Nat

VARIABLES
    stored,       \* the row of app_config, "unset" when there is none
    env,          \* per process: the source its settings and registry select
    fingerprint,  \* the worker's config_fingerprint, "none" when it is ""
    current,      \* the fingerprint that the worker's check has just read
    curve,        \* per process: AppState.market_curve
    table,        \* alpha_market_observations: the rows of NG.FUT.*
    job,          \* per coroutine: what it awaits and what it holds
    since,        \* the worker's since_research
    clock,        \* the number of answered fetches
    events,       \* the number of edits, manual requests and faults
    missed        \* history: an edit, or a failed start, that the worker's next
                  \* check cannot notice; until it reloads or restarts

config == <<stored, env, fingerprint, current, missed>>
market == <<curve, table, clock>>
vars == <<config, market, job, since, events>>

Points == [month : 1 .. Months, source : Sources, time : 1 .. MaxFetches]

\* One coroutine. `drafts` is what it fetched or read and has not yet used up;
\* `then` is where it goes on after a refresh.
Steps == {"idle", "start", "reload", "fingerprint", "poll", "check", "reapply",
          "full", "fetch", "persist", "serve", "apply"}
JobStates == [step : Steps, full : BOOLEAN, source : Sources, time : 0 .. MaxFetches,
              drafts : Seq(Points), then : Steps]

TypeOK ==
    /\ stored \in Sources \cup {"unset"}
    /\ env \in [Processes -> Sources]
    /\ {fingerprint, current} \subseteq Sources \cup {"unset", "none"}
    /\ curve \in [Processes -> Seq(Points)]
    /\ table \subseteq Points
    /\ job \in [Jobs -> JobStates]
    /\ since \in 0 .. ResearchEvery
    /\ clock \in 0 .. MaxFetches
    /\ events \in Nat
    /\ missed \in BOOLEAN

At(step) == [step |-> step, full |-> TRUE, source |-> DotEnv, time |-> 0,
             drafts |-> <<>>, then |-> "idle"]

Init ==
    /\ stored = "unset"
    /\ env = [p \in Processes |-> DotEnv]
    /\ fingerprint = "none" /\ current = "none"
    /\ curve = [p \in Processes |-> <<>>]
    /\ table = {}
    /\ job = [j \in Jobs |-> At(IF j = "request" THEN "idle" ELSE "start")]
    /\ since = ResearchEvery
    /\ clock = 0 /\ events = 0
    /\ missed = FALSE

Goto(j, step) == job' = [job EXCEPT ![j] = At(step)]

\* One more edit, manual request or fault.
Event == events < MaxEvents /\ events' = events + 1

-----------------------------------------------------------------------------
(* The overlay *)

\* apply_overlay and build_default_registry: a stored value replaces the
\* environment's, a missing one leaves what was there.
Overlay(p) == env' = [env EXCEPT ![p] = IF stored = "unset" THEN @ ELSE stored]

\* The worker uses what is stored; a deleted value stays in force till a restart.
WorkerUpToDate == stored = "unset" \/ env["worker"] = stored

\* The worker is between the overlay and the fingerprint of its start.
Starting == "fingerprint" \in {job["worker"].step, job["worker"].then}

\* PUT /admin/config/{key}; an empty value deletes the row.
SetConfig(value) ==
    /\ Event
    /\ stored # value
    /\ stored' = value
    /\ missed' = \/ missed \/ Starting
                 \/ (value = fingerprint /\ env["worker"] # value)
    /\ UNCHANGED <<env, fingerprint, current, market, job, since>>

-----------------------------------------------------------------------------
(* Fetching: refresh_market_data and ingest_from_provider *)

\* Coroutine j asks the provider that its process's settings select. Whether
\* there will be an answer is chosen here: only then does the fetch need a time.
StartFetch(j, full, then, source) ==
    \E answers \in BOOLEAN :
      /\ answers => clock < MaxFetches
      /\ clock' = IF answers THEN clock + 1 ELSE clock
      /\ job' = [job EXCEPT ![j] =
           IF answers
           THEN [step |-> "fetch", full |-> full, source |-> source,
                 time |-> clock', drafts |-> <<>>, then |-> then]
           ELSE [At("fetch") EXCEPT !.then = then]]

\* The contracts that answered: months `first` to the last one asked for. A
\* later one that fails carries the price before it, so only the first few
\* can be missing.
Answer(j, first) ==
    LET n == IF job[j].full THEN Months ELSE 1
    IN  [i \in 1 .. n + 1 - first |-> [month |-> i + first - 1,
           source |-> job[j].source, time |-> job[j].time]]

\* Mutant: an empty answer replaces the curve.
MutFetchEmpty(j) ==
    /\ job[j].step = "fetch" /\ job[j].time = 0
    /\ Goto(j, job[j].then)
    /\ curve' = [curve EXCEPT ![ProcessOf(j)] = <<>>]
    /\ UNCHANGED <<config, table, clock, since, events>>

\* The upstream failed or had nothing: the last good curve stays.
FetchEmpty(j) ==
    /\ job[j].step = "fetch" /\ job[j].time = 0
    /\ Goto(j, job[j].then)
    /\ UNCHANGED <<config, market, since, events>>

\* A full answer becomes the curve; a front month is spliced into the curve
\* that is there by now. What was taken is then persisted.
FetchAnswered(j) ==
    /\ job[j].step = "fetch" /\ job[j].time > 0
    /\ \E first \in 1 .. IF job[j].full THEN Months ELSE 1 :
         LET p == ProcessOf(j)
             drafts == Answer(j, first)
             whole == job[j].full \/ curve[p] = <<>>
         IN  /\ curve' = [curve EXCEPT ![p] =
                  IF whole THEN drafts ELSE <<drafts[1]>> \o Tail(@)]
             /\ job' = [job EXCEPT ![j].step = "persist", ![j].drafts = drafts]
    /\ UNCHANGED <<config, table, clock, since, events>>

\* save_market_observation: a transaction for each row. A price carries the time
\* of its fetch, so it supersedes nothing.
Persist(j) ==
    /\ job[j].step = "persist"
    /\ table' = table \cup {Head(job[j].drafts)}
    /\ IF Len(job[j].drafts) = 1 THEN Goto(j, job[j].then)
       ELSE job' = [job EXCEPT ![j].drafts = Tail(@)]
    /\ UNCHANGED <<config, curve, clock, since, events>>

\* A save raises: the rest of the drafts is not persisted, nobody is told.
PersistFails(j) ==
    /\ Event
    /\ job[j].step = "persist"
    /\ Goto(j, job[j].then)
    /\ UNCHANGED <<config, market, since>>

-----------------------------------------------------------------------------
(* Starting a process *)

\* get_app_state: the overlay, or none when it fails, then seed's own fetch.
Start(p) ==
    /\ job[p].step = "start"
    /\ \/ Overlay(p) /\ UNCHANGED events
       \/ Event /\ UNCHANGED env                \* the table cannot be read
    /\ StartFetch(p, TRUE, "reload", env'[p])
    /\ UNCHANGED <<stored, fingerprint, current, missed, curve, table, since>>

AfterBoot(p) == IF p = "api" THEN "serve" ELSE "fingerprint"

\* reload_runtime of the lifespan or of run_forever.
BootReload(p) ==
    /\ job[p].step = "reload"
    /\ Overlay(p)
    /\ StartFetch(p, TRUE, AfterBoot(p), env'[p])
    /\ UNCHANGED <<stored, fingerprint, current, missed, curve, table, since, events>>

\* Its overlay raises, so there is no refresh either: both processes go on
\* with the environment they have, the worker to its fingerprint.
BootReloadFails(p) ==
    /\ job[p].step = "reload"
    /\ Event
    /\ missed' = (missed \/ (p = "worker" /\ ~WorkerUpToDate))
    /\ Goto(p, AfterBoot(p))
    /\ UNCHANGED <<stored, env, fingerprint, current, market, since>>

\* A process dies and starts again with what .env says and an empty curve.
Crash(p) ==
    /\ Event
    /\ env' = [env EXCEPT ![p] = DotEnv]
    /\ curve' = [curve EXCEPT ![p] = <<>>]
    /\ job' = [j \in Jobs |-> IF ProcessOf(j) # p THEN job[j]
                              ELSE At(IF j = "request" THEN "idle" ELSE "start")]
    /\ IF p = "worker"
       THEN /\ fingerprint' = "none" /\ current' = "none" /\ missed' = FALSE
            /\ since' = ResearchEvery
       ELSE UNCHANGED <<fingerprint, current, missed, since>>
    /\ UNCHANGED <<stored, table, clock>>

-----------------------------------------------------------------------------
(* The worker's loop: run_forever *)

\* _config_fingerprint: of the table as it is by now, "" if it cannot be read.
FingerprintIs(read) ==
    \/ read = stored /\ UNCHANGED events
    \/ read = "none" /\ Event

ReadFingerprint ==
    /\ job["worker"].step = "fingerprint"
    /\ \E read \in {stored, "none"} : FingerprintIs(read) /\ fingerprint' = read
    /\ Goto("worker", "poll")
    /\ UNCHANGED <<stored, env, current, missed, market, since>>

\* poll_due_feeds, as far as the curve goes: its front month, when it is due.
\* The research cycle follows once its interval has elapsed.
Poll ==
    /\ job["worker"].step = "poll"
    /\ LET next == IF since < ResearchEvery THEN "poll" ELSE "check"
       IN  /\ since' = IF since < ResearchEvery THEN since + 1 ELSE 0
           /\ \/ StartFetch("worker", FALSE, next, env["worker"])
              \/ Goto("worker", next) /\ UNCHANGED clock
    /\ UNCHANGED <<config, curve, table, events>>

\* The fingerprint is read first, then the values: a change in between is
\* reloaded twice, unless it is taken back by the next check.
CheckConfig ==
    /\ job["worker"].step = "check"
    /\ \E read \in {stored, "none"} :
         /\ FingerprintIs(read)
         /\ IF read = fingerprint
            THEN Goto("worker", "full") /\ UNCHANGED current
            ELSE Goto("worker", "reapply") /\ current' = read
    /\ UNCHANGED <<stored, env, fingerprint, missed, market, since>>

\* Only this coroutine reads config_fingerprint, so that it is set here rather
\* than after the refresh makes no difference.
Reapply ==
    /\ job["worker"].step = "reapply"
    /\ Overlay("worker")
    /\ fingerprint' = current /\ current' = "none"
    /\ missed' = FALSE
    /\ StartFetch("worker", TRUE, "full", env'["worker"])
    /\ UNCHANGED <<stored, curve, table, since, events>>

\* Mutant: the new fingerprint is remembered before the reload, which fails.
MutReapplyFails ==
    /\ job["worker"].step = "reapply"
    /\ Event
    /\ fingerprint' = current /\ current' = "none"
    /\ Goto("worker", "full")
    /\ UNCHANGED <<stored, env, missed, market, since>>

\* The overlay raises: the old fingerprint stays, so the next check tries again.
ReapplyFails ==
    /\ job["worker"].step = "reapply"
    /\ Event
    /\ current' = "none"
    /\ Goto("worker", "full")
    /\ UNCHANGED <<stored, env, fingerprint, missed, market, since>>

\* refresh_market_data(full=True) of the research cycle.
FullRefresh ==
    /\ job["worker"].step = "full"
    /\ StartFetch("worker", TRUE, "poll", env["worker"])
    /\ UNCHANGED <<config, curve, table, since, events>>

-----------------------------------------------------------------------------
(* The API process *)

\* The newest ScanLimit rows; which of those with the same time is open.
Scanned(rows) ==
    IF Cardinality(rows) <= ScanLimit THEN {rows}
    ELSE {s \in SUBSET rows :
            /\ Cardinality(s) = ScanLimit
            /\ \A r \in s, q \in rows \ s : q.time <= r.time}

\* Contract months in ascending order, as the rows of a curve are sorted.
InOrder(months) ==
    [i \in 1 .. Cardinality(months) |->
       CHOOSE m \in months : Cardinality({k \in months : k <= m}) = i]

\* Mutant: the first observation of a series is taken, not the last.
MutLatestPerSeries(scan) ==
    LET Oldest(m) == CHOOSE r \in scan :
          r.month = m /\ \A q \in scan : q.month = m => r.time <= q.time
        months == InOrder({r.month : r \in scan})
    IN  [i \in DOMAIN months |-> Oldest(months[i])]

\* latest_observation_per_series, sorted by curve_position.
LatestPerSeries(scan) ==
    LET Newest(m) == CHOOSE r \in scan :
          r.month = m /\ \A q \in scan : q.month = m => q.time <= r.time
        months == InOrder({r.month : r \in scan})
    IN  [i \in DOMAIN months |-> Newest(months[i])]

\* Mutant: sources are spliced into one curve.
MutOneSource(drafts) == drafts

\* The contiguous run that shares the front month's source.
OneSource(drafts) ==
    SubSeq(drafts, 1,
           CHOOSE n \in 0 .. Len(drafts) :
             /\ \A i \in 1 .. n : drafts[i].source = drafts[1].source
             /\ n < Len(drafts) => drafts[n + 1].source # drafts[1].source)

\* rehydrate_market_from_db: the rows are read ...
RehydrateRead ==
    /\ job["api"].step = "serve"
    /\ \E scan \in Scanned(table) :
         job' = [job EXCEPT !["api"].step = "apply",
                            !["api"].drafts = LatestPerSeries(scan)]
    /\ UNCHANGED <<config, market, since, events>>

\* ... and replace the curve, whatever it has become meanwhile.
RehydrateApply ==
    /\ job["api"].step = "apply"
    /\ curve' = [curve EXCEPT !["api"] =
         IF job["api"].drafts = <<>> THEN @ ELSE OneSource(job["api"].drafts)]
    /\ Goto("api", "serve")
    /\ UNCHANGED <<config, table, clock, since, events>>

\* POST /admin/data-feeds/{id}/refresh, or POST /admin/config/reload.
Request ==
    /\ Event
    /\ job["api"].step \in {"serve", "apply"}
    /\ job["request"].step = "idle"
    /\ Overlay("api") \/ UNCHANGED env
    /\ StartFetch("request", TRUE, "idle", env'["api"])
    /\ UNCHANGED <<stored, fingerprint, current, missed, curve, table, since>>

Refresh(j) == FetchEmpty(j) \/ FetchAnswered(j) \/ Persist(j)

WorkerStep ==
    \/ Start("worker") \/ BootReload("worker") \/ BootReloadFails("worker")
    \/ ReadFingerprint \/ Poll \/ CheckConfig \/ Reapply \/ ReapplyFails
    \/ FullRefresh \/ Refresh("worker")

ApiStep ==
    \/ Start("api") \/ BootReload("api") \/ BootReloadFails("api")
    \/ RehydrateRead \/ RehydrateApply \/ Refresh("api")

Next ==
    \/ WorkerStep \/ ApiStep \/ Request \/ Refresh("request")
    \/ \E value \in Settings : SetConfig(value)
    \/ \E j \in Jobs : PersistFails(j)
    \/ \E p \in Processes : Crash(p)

Spec == Init /\ [][Next]_vars

\* Both loops go on for ever: every awaited call answers or raises, and every
\* exception is caught in the loop.
FairSpec == Spec /\ WF_vars(WorkerStep) /\ WF_vars(ApiStep)

-----------------------------------------------------------------------------
(* What the code guarantees *)

\* Never mix sources into one curve.
Unmixed(points) == \A i \in DOMAIN points : points[i].source = points[1].source

(***************************************************************************)
(* The curve that the API serves, marks positions with and checks risk     *)
(* against never joins simulated and real prices, though the store holds   *)
(* rows of both and rows of interrupted refreshes                          *)
(* (rehydrate_market_from_db, refresh_market_data).                        *)
(***************************************************************************)
ServedCurveHasOneSource == Unmixed(curve["api"])

(***************************************************************************)
(* No process that has a curve loses it, except by dying: neither an       *)
(* upstream that answers nothing nor an empty store blanks it              *)
(* (ingest_from_provider: "never overwrite good state with nothing").      *)
(***************************************************************************)
CurveIsNeverBlanked ==
    [][\A p \in Processes :
         curve[p] # <<>> /\ job'[p].step # "start" => curve'[p] # <<>>]_vars

(***************************************************************************)
(* A front-month price that reached the store reaches the API's curve, or  *)
(* a newer one does, although a request's refresh and an older read of the *)
(* store may overwrite it in between (_rehydrate_market_loop).             *)
(***************************************************************************)
ApiCatchesUp ==
    []<>(\A r \in table : r.month = 1 =>
           curve["api"] # <<>> /\ curve["api"][1].time >= r.time)

(***************************************************************************)
(* A saved setting comes into force in the worker without a restart,       *)
(* through failing reloads, unreadable fingerprints, empty answers and     *)
(* crashes, unless it is `missed` for good: saved while the worker is      *)
(* between the overlay and the fingerprint of its start, stored when the   *)
(* reload of its start fails, or put back to the value fingerprinted after *)
(* a reload saw the one in between. The next change that a check notices,  *)
(* or a restart, ends that (run_forever, worker.py:69-121).                *)
(***************************************************************************)
SettingReachesWorker ==
    []<>(missed \/ WorkerUpToDate)

\* Both of these: what one process stores reaches the other (_rehydrate_market_loop,
\* run_forever).
ProcessesCatchUp == ApiCatchesUp /\ SettingReachesWorker

-----------------------------------------------------------------------------
(* What the comments say and the code does not do *)

(***************************************************************************)
(* "NEVER mix sources into one curve": the worker's own curve. The front   *)
(* month of the new source is spliced onto the curve of the old one when   *)
(* the full refresh of a reload answered nothing.                          *)
(***************************************************************************)
CurvesHaveOneSource == \A p \in Processes : Unmixed(curve[p])

(***************************************************************************)
(* "A change saved in the Configuration page reaches the worker without a  *)
(* restart": a `missed` one is in the fingerprint and not in the           *)
(* environment.                                                            *)
(***************************************************************************)
SavedSettingReachesWorker == []<>WorkerUpToDate
=============================================================================
