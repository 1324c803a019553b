--------------------------- MODULE TradeLifecycle ---------------------------
(***************************************************************************)
(* The life of a trade idea in one API process: submission through the     *)
(* committee and the Risk Governor, the human approval workflow, paper     *)
(* execution, closing, and the write-through store that a restart          *)
(* hydrates from.                                                          *)
(*                                                                         *)
(* The process is one asyncio event loop.  A request handler (or the       *)
(* research cycle) is a coroutine in a slot of Handlers; it runs without   *)
(* interruption from one await to the next, so an action below is: the     *)
(* awaited call takes effect, then the code up to the next await that can  *)
(* suspend.  pc[h] names the call that h is waiting for.                   *)
(*                                                                         *)
(* Sources: apps/api/api_app/state.py, routers/approvals.py,               *)
(* routers/trading.py, routers/risk.py, packages/db/db/repository.py and   *)
(* services/paper-execution.                                               *)
(***************************************************************************)
EXTENDS RiskRules, FiniteSets

CONSTANTS
    Trades,             \* trade ids; a submission uses a fresh one
    Instruments,
    Idea,               \* what the strategy proposes under each trade id
    Handlers,           \* coroutines that may be in progress at a time
    HumanActions,       \* the approval actions that requests carry
    OrderQuantities,    \* quantities that an APPROVE payload carries
    RefusedQuantities,  \* TRUE: some payloads carry a quantity that is no number
    LimitChoices,       \* risk limits a process can have in force
    DefaultLimits,      \* default_risk_limits()
    NoTrade,
    MaxActions,         \* bound: actions on one approval
    MaxCrashes,         \* bound: process restarts
    MaxAborts           \* bound: awaited calls that raise

ApprovalActions ==
    {"APPROVE", "REJECT", "MODIFY", "CHALLENGE", "REQUEST_MORE_ANALYSIS",
     "REDUCE_POSITION", "CHANGE_INVALIDATION_CONDITION"}

ApprovalStates ==
    {"DRAFT", "AI_REVIEW", "RISK_REVIEW", "HUMAN_REVIEW",
     "APPROVED_FOR_PAPER_TRADING", "REJECTED", "EXPIRED",
     "EXECUTED_SIMULATION", "CLOSED"}

Ideas == [instrument : Instruments, direction : {"LONG", "SHORT", "SPREAD"},
          confidence : Nat, entry : Nat, stop : Nat]

RiskLimits == [max_position_size : Nat, max_risk_per_trade : Nat,
               max_daily_loss : Nat, max_drawdown : Nat]

ASSUME IdeaAssumption == Idea \in [Trades -> Ideas]
ASSUME ActionAssumption == HumanActions \subseteq ApprovalActions
ASSUME QuantityAssumption ==
    OrderQuantities \subseteq Nat /\ RefusedQuantities \in BOOLEAN
ASSUME LimitAssumption ==
    LimitChoices \subseteq RiskLimits /\ DefaultLimits \in LimitChoices
ASSUME NoTradeAssumption == NoTrade \notin Trades
ASSUME BoundAssumption ==
    /\ MaxActions \in Nat
    /\ MaxCrashes \in Nat
    /\ MaxAborts \in Nat

VARIABLES
    mem,            \* AppState's dicts, one row per trade id
    db,             \* the tables they are written through to
    memories,       \* memory_records, which no process reads back
    pc, on, snap,   \* per handler: awaited call, its trade, the row it writes
    position,       \* the paper portfolio: signed quantity per instrument
    halted,         \* AppState.trading_halted
    limits,         \* AppState.risk_limits; its table is RiskSettings' part
    crashes, aborts \* how often a crash and a failed call happened

book == <<position, halted>>
faults == <<crashes, aborts>>
handlerVars == <<pc, on, snap>>
vars == <<mem, db, memories, handlerVars, book, limits, faults>>

-----------------------------------------------------------------------------
(* Types *)

NoApproval == "NONE"
NoVerdict == "NONE"

Rows == [trade     : BOOLEAN,                       \* trade_ideas
         decided   : BOOLEAN,                       \* committee_decisions
         verdict   : Verdicts \cup {NoVerdict},     \* risk_checks
         state     : ApprovalStates \cup {NoApproval},
         actions   : Seq(ApprovalActions),
         analysed  : BOOLEAN,                       \* post_trade_analyses
         journal   : Nat]                           \* decision_journal entries

EmptyRow == [trade |-> FALSE, decided |-> FALSE, verdict |-> NoVerdict,
             state |-> NoApproval, actions |-> << >>, analysed |-> FALSE,
             journal |-> 0]

\* The arguments of a save_approval call in flight.
Snapshots == [state : ApprovalStates \cup {NoApproval},
              actions : Seq(ApprovalActions)]

NoSnapshot == [state |-> NoApproval, actions |-> << >>]

SubmissionCalls == {"save_trade", "deliberate", "save_decision", "save_check",
                    "consult_cia", "save_routing", "journal_submission"}
CloseCalls == {"publish_close", "save_analysis", "save_close",
               "journal_close", "save_memory"}
Calls == SubmissionCalls \cup CloseCalls \cup {"save_action"}

TypeOK ==
    /\ mem \in [Trades -> Rows]
    /\ db \in [Trades -> Rows]
    /\ memories \in SUBSET Trades
    /\ pc \in [Handlers -> Calls \cup {"idle"}]
    /\ on \in [Handlers -> Trades \cup {NoTrade}]
    /\ snap \in [Handlers -> Snapshots]
    /\ \A h \in Handlers : pc[h] # "idle" => on[h] \in Trades
    /\ position \in [Instruments -> Int]
    /\ halted \in BOOLEAN
    /\ limits \in LimitChoices
    /\ crashes \in Nat
    /\ aborts \in Nat

Init ==
    /\ mem = [t \in Trades |-> EmptyRow]
    /\ db = [t \in Trades |-> EmptyRow]
    /\ memories = {}
    /\ pc = [h \in Handlers |-> "idle"]
    /\ on = [h \in Handlers |-> NoTrade]
    /\ snap = [h \in Handlers |-> NoSnapshot]
    /\ position = [i \in Instruments |-> 0]
    /\ halted = FALSE
    /\ limits = DefaultLimits
    /\ crashes = 0
    /\ aborts = 0

-----------------------------------------------------------------------------
(* Coroutines *)

Begin(h, t, call) ==
    /\ pc[h] = "idle"
    /\ pc' = [pc EXCEPT ![h] = call]
    /\ on' = [on EXCEPT ![h] = t]

Await(h, from, to) ==
    /\ pc[h] = from
    /\ pc' = [pc EXCEPT ![h] = to]
    /\ UNCHANGED on

Finish(h, from) ==
    /\ pc[h] = from
    /\ pc' = [pc EXCEPT ![h] = "idle"]
    /\ on' = [on EXCEPT ![h] = NoTrade]
    /\ snap' = [snap EXCEPT ![h] = NoSnapshot]

Snapshot(row) == [state |-> row.state, actions |-> row.actions]

\* Mutant: the merge misses the action log.
MutWithSnapshot(row, s) == [row EXCEPT !.state = s.state]

WithSnapshot(row, s) == [row EXCEPT !.state = s.state, !.actions = s.actions]

-----------------------------------------------------------------------------
(* AppState.submit_trade_idea *)

\* Corroboration is done; the idea enters memory and save_trade_idea starts.
Submit(h, t) ==
    /\ mem[t] = EmptyRow /\ db[t] = EmptyRow
    /\ \A g \in Handlers : on[g] # t
    /\ Begin(h, t, "save_trade")
    /\ mem' = [mem EXCEPT ![t].trade = TRUE]
    /\ UNCHANGED <<db, snap, book, limits, memories, faults>>

TradeSaved(h) ==
    /\ Await(h, "save_trade", "deliberate")
    /\ db' = [db EXCEPT ![on[h]].trade = TRUE]
    /\ UNCHANGED <<mem, snap, book, limits, memories, faults>>

Deliberated(h) ==
    /\ Await(h, "deliberate", "save_decision")
    /\ mem' = [mem EXCEPT ![on[h]].decided = TRUE]
    /\ UNCHANGED <<db, snap, book, limits, memories, faults>>

\* The facts submit_trade_idea puts in the RiskContext: it never fills in
\* freshness, provider health, strategy approval or volatility.
SubmissionContext(t) ==
    [trading_halted    |-> halted,
     data_fresh        |-> TRUE,
     provider_up       |-> TRUE,
     on_provider_down  |-> "BLOCK",
     size              |-> 100,
     entry             |-> Idea[t].entry,
     stop              |-> Idea[t].stop,
     limits            |-> limits,
     daily_loss        |-> 0,
     drawdown          |-> 0,
     strategy_approved |-> TRUE,
     model             |-> "chief_trading_agent",
     approved_models   |-> {"chief_trading_agent"},
     confidence        |-> Idea[t].confidence,
     min_confidence    |-> 55,
     zscore            |-> 0,
     max_zscore        |-> 3]

\* The decision is durable; the governor runs on the state of this moment.
DecisionSaved(h) ==
    /\ Await(h, "save_decision", "save_check")
    /\ db' = [db EXCEPT ![on[h]].decided = TRUE]
    /\ mem' = [mem EXCEPT ![on[h]].verdict = Verdict(SubmissionContext(on[h]))]
    /\ UNCHANGED <<snap, book, limits, memories, faults>>

\* Mutant: the handler does not wait for the risk check to be stored.
MutCheckSaved(h) ==
    /\ Await(h, "save_check", "consult_cia")
    /\ UNCHANGED <<mem, db, snap, book, limits, memories, faults>>

CheckSaved(h) ==
    /\ Await(h, "save_check", "consult_cia")
    /\ db' = [db EXCEPT ![on[h]].verdict = mem[on[h]].verdict]
    /\ UNCHANGED <<mem, snap, book, limits, memories, faults>>

\* Mutant: the last branch is forgotten.
MutInitialState(verdict, forward) ==
    IF verdict # "ALLOW" THEN "RISK_REVIEW"
    ELSE IF forward THEN "HUMAN_REVIEW" ELSE NoApproval

InitialState(verdict, forward) ==
    IF verdict # "ALLOW" THEN "RISK_REVIEW"
    ELSE IF forward THEN "HUMAN_REVIEW" ELSE "REJECTED"

\* The Chief Investment Agent answered, or was disabled (forward = FALSE).
Routed(h) ==
    /\ Await(h, "consult_cia", "save_routing")
    /\ \E forward \in BOOLEAN :
         LET s == InitialState(mem[on[h]].verdict, forward) IN
         /\ mem' = [mem EXCEPT ![on[h]].state = s]
         /\ snap' = [snap EXCEPT ![h] = [state |-> s, actions |-> << >>]]
    /\ UNCHANGED <<db, book, limits, memories, faults>>

RoutingSaved(h) ==
    /\ Await(h, "save_routing", "journal_submission")
    /\ db' = [db EXCEPT ![on[h]] = WithSnapshot(@, snap[h])]
    /\ mem' = [mem EXCEPT ![on[h]].journal = @ + 1]
    /\ UNCHANGED <<snap, book, limits, memories, faults>>

SubmissionJournaled(h) ==
    /\ Finish(h, "journal_submission")
    /\ db' = [db EXCEPT ![on[h]].journal = @ + 1]
    /\ UNCHANGED <<mem, book, limits, memories, faults>>

-----------------------------------------------------------------------------
(* POST /approvals/{id}/action *)

\* Mutant: CLOSED is missing from the early return.
MutTerminal == {"REJECTED", "EXPIRED"}

Terminal == {"REJECTED", "EXPIRED", "CLOSED"}

\* _TRANSITIONS, for the actions other than APPROVE.
Target(action) ==
    IF action = "REJECT" THEN "REJECTED"
    ELSE IF action = "REQUEST_MORE_ANALYSIS" THEN "AI_REVIEW"
    ELSE "HUMAN_REVIEW"

\* What a market order for q may fill: all of it, or 60% to 99%.
Fills(q) == {q} \cup {f \in 0 .. q : 60 * q <= 100 * f /\ 100 * f <= 99 * q}

Signed(t, q) == IF Idea[t].direction = "LONG" THEN q ELSE -q

\* The request is not answered with 404 or 409.
Actionable(t, action) ==
    /\ mem[t].state \notin Terminal \cup {NoApproval}
    /\ ~(action = "APPROVE" /\ mem[t].state = "RISK_REVIEW")
    /\ Len(mem[t].actions) < MaxActions

Logged(t, action, state) ==
    [mem[t] EXCEPT !.actions = Append(@, action), !.state = state]

ActOnApproval(h, t, action) ==
    /\ action # "APPROVE"
    /\ Actionable(t, action)
    /\ Begin(h, t, "save_action")
    /\ mem' = [mem EXCEPT ![t] = Logged(t, action, Target(action))]
    /\ snap' = [snap EXCEPT ![h] = Snapshot(mem'[t])]
    /\ UNCHANGED <<db, book, limits, memories, faults>>

\* submit_order does not suspend: the fill and EXECUTED_SIMULATION are one step.
Approve(h, t) ==
    /\ "APPROVE" \in HumanActions
    /\ Actionable(t, "APPROVE")
    /\ Begin(h, t, "save_action")
    /\ \E q \in OrderQuantities : \E f \in Fills(q) :
         position' = [position EXCEPT ![Idea[t].instrument] = @ + Signed(t, f)]
    /\ mem' = [mem EXCEPT ![t] = Logged(t, "APPROVE", "EXECUTED_SIMULATION")]
    /\ snap' = [snap EXCEPT ![h] = Snapshot(mem'[t])]
    /\ UNCHANGED <<db, halted, limits, memories, faults>>

\* PaperOrder refuses the payload's quantity: the handler raises after it
\* changed the approval and before it saved it.
ApproveRefused(t) ==
    /\ RefusedQuantities
    /\ "APPROVE" \in HumanActions
    /\ Actionable(t, "APPROVE")
    /\ mem' = [mem EXCEPT ![t] =
                 Logged(t, "APPROVE", "APPROVED_FOR_PAPER_TRADING")]
    /\ UNCHANGED <<db, handlerVars, book, limits, memories, faults>>

ActionSaved(h) ==
    /\ Finish(h, "save_action")
    /\ db' = [db EXCEPT ![on[h]] = WithSnapshot(@, snap[h])]
    /\ UNCHANGED <<mem, book, limits, memories, faults>>

-----------------------------------------------------------------------------
(* AppState.close_trade *)

\* Mutant: the closing order is always a SELL.
MutReduced(p, f) == p - f

\* The position after an opposite order of its whole size filled f.
Reduced(p, f) == IF p > 0 THEN p - f ELSE p + f

Close(h, t) ==
    LET i == Idea[t].instrument IN
    /\ mem[t].state = "EXECUTED_SIMULATION"
    /\ position[i] # 0
    /\ Begin(h, t, "publish_close")
    /\ \E f \in Fills(Magnitude(position[i])) :
         position' = [position EXCEPT ![i] = Reduced(@, f)]
    /\ UNCHANGED <<mem, db, snap, halted, limits, memories, faults>>

\* Indexes committee_decisions and risk_checks: see RecordsInOrder.
ClosePublished(h) ==
    /\ Await(h, "publish_close", "save_analysis")
    /\ mem' = [mem EXCEPT ![on[h]].analysed = TRUE]
    /\ UNCHANGED <<db, snap, book, limits, memories, faults>>

\* Mutant: the approval is persisted before it is set CLOSED.
MutAnalysisSaved(h) ==
    /\ Await(h, "save_analysis", "save_close")
    /\ db' = [db EXCEPT ![on[h]].analysed = TRUE]
    /\ mem' = [mem EXCEPT ![on[h]].state = "CLOSED"]
    /\ snap' = [snap EXCEPT ![h] = Snapshot(mem[on[h]])]
    /\ UNCHANGED <<book, limits, memories, faults>>

\* The approval looked up before the awaits is set CLOSED, whatever it is now.
AnalysisSaved(h) ==
    /\ Await(h, "save_analysis", "save_close")
    /\ db' = [db EXCEPT ![on[h]].analysed = TRUE]
    /\ mem' = [mem EXCEPT ![on[h]].state = "CLOSED"]
    /\ snap' = [snap EXCEPT ![h] = Snapshot(mem'[on[h]])]
    /\ UNCHANGED <<book, limits, memories, faults>>

CloseSaved(h) ==
    /\ Await(h, "save_close", "journal_close")
    /\ db' = [db EXCEPT ![on[h]] = WithSnapshot(@, snap[h])]
    /\ mem' = [mem EXCEPT ![on[h]].journal = @ + 1]
    /\ UNCHANGED <<snap, book, limits, memories, faults>>

CloseJournaled(h) ==
    /\ Await(h, "journal_close", "save_memory")
    /\ db' = [db EXCEPT ![on[h]].journal = @ + 1]
    /\ UNCHANGED <<mem, snap, book, limits, memories, faults>>

MemorySaved(h) ==
    /\ Finish(h, "save_memory")
    /\ memories' = memories \cup {on[h]}
    /\ UNCHANGED <<mem, db, book, limits, faults>>

-----------------------------------------------------------------------------
(* Risk controls: POST /risk/halt, POST /risk/resume, PUT /risk/limits *)

SetHalted(value) ==
    /\ halted # value
    /\ halted' = value
    /\ UNCHANGED <<mem, db, handlerVars, position, limits, memories, faults>>

\* set_risk_limits changes memory before it waits for the table.
SetRiskLimits(value) ==
    /\ limits # value
    /\ limits' = value
    /\ UNCHANGED <<mem, db, handlerVars, book, memories, faults>>

-----------------------------------------------------------------------------
(* Failures *)

\* The awaited call raises and the handler is abandoned where it stands.
Abort(h) ==
    /\ aborts < MaxAborts
    /\ pc[h] # "idle"
    /\ Finish(h, pc[h])
    /\ aborts' = aborts + 1
    /\ UNCHANGED <<mem, db, book, limits, memories, crashes>>

\* The process dies; the next one hydrates from the store.  The portfolio,
\* the halt flag and every coroutine start afresh; which limits it finds is
\* RiskSettings' part.
Restart ==
    /\ crashes < MaxCrashes
    /\ crashes' = crashes + 1
    /\ mem' = db
    /\ pc' = [h \in Handlers |-> "idle"]
    /\ on' = [h \in Handlers |-> NoTrade]
    /\ snap' = [h \in Handlers |-> NoSnapshot]
    /\ position' = [i \in Instruments |-> 0]
    /\ halted' = FALSE
    /\ limits' \in LimitChoices
    /\ UNCHANGED <<db, memories, aborts>>

-----------------------------------------------------------------------------
\* The steps of a handler already started.
Progress(h) ==
    \/ TradeSaved(h)
    \/ Deliberated(h)
    \/ DecisionSaved(h)
    \/ CheckSaved(h)
    \/ Routed(h)
    \/ RoutingSaved(h)
    \/ SubmissionJournaled(h)
    \/ ActionSaved(h)
    \/ ClosePublished(h)
    \/ AnalysisSaved(h)
    \/ CloseSaved(h)
    \/ CloseJournaled(h)
    \/ MemorySaved(h)

Request(h, t) ==
    \/ Submit(h, t)
    \/ \E a \in HumanActions : ActOnApproval(h, t, a)
    \/ Approve(h, t)
    \/ Close(h, t)

Next ==
    \/ \E h \in Handlers : Progress(h)
    \/ \E h \in Handlers, t \in Trades : Request(h, t)
    \/ \E t \in Trades : ApproveRefused(t)
    \/ \E v \in BOOLEAN : SetHalted(v)
    \/ \E l \in LimitChoices : SetRiskLimits(l)
    \/ \E h \in Handlers : Abort(h)
    \/ Restart

Spec == Init /\ [][Next]_vars

(***************************************************************************)
(* The event loop resumes every coroutine whose awaited call has answered. *)
(* Nothing is assumed about when people send requests.                     *)
(***************************************************************************)
FairSpec == Spec /\ \A h \in Handlers : WF_vars(Progress(h))

-----------------------------------------------------------------------------
(* What the code guarantees *)

\* Human actions that move an approval without deciding it.
Rework == ApprovalActions \ {"APPROVE", "REJECT"}

Reworked(actions) == \E n \in 1 .. Len(actions) : actions[n] \in Rework

\* The states from which an APPROVE is not refused.
InPlay(state) == state \notin Terminal \cup {"RISK_REVIEW", NoApproval}

(***************************************************************************)
(* A trade the Risk Governor did not allow leaves RISK_REVIEW only after a *)
(* person modified, challenged or sent it back, and the record of that     *)
(* action survives wherever the approval is in play: in memory, in the     *)
(* store, and in the store a crash leaves behind (approvals.py: an APPROVE *)
(* in RISK_REVIEW is refused; state.py: any verdict but ALLOW is routed to *)
(* RISK_REVIEW).                                                           *)
(***************************************************************************)
VetoedTradeNeedsRework ==
    \A t \in Trades : \A row \in {mem[t], db[t]} :
        InPlay(row.state) /\ row.verdict # "ALLOW" => Reworked(row.actions)

InOrder(row) ==
    /\ row.state # NoApproval => row.verdict # NoVerdict
    /\ row.verdict # NoVerdict => row.decided
    /\ row.decided => row.trade
    /\ row.state = "CLOSED" => row.analysed

(***************************************************************************)
(* However handlers interleave and wherever a crash or a failed call       *)
(* falls, neither memory nor the store holds a record without the ones it  *)
(* refers to: an approval has its risk check, a check its committee        *)
(* decision, a decision its trade, a CLOSED approval its analysis (the     *)
(* order of the awaited saves in submit_trade_idea and close_trade;        *)
(* close_trade indexes committee_decisions and risk_checks without looking *)
(* whether the entries exist).                                             *)
(***************************************************************************)
RecordsInOrder == \A t \in Trades : InOrder(mem[t]) /\ InOrder(db[t])

(***************************************************************************)
(* close_trade never turns a position around or lets it grow: the order    *)
(* takes side and size from the position it finds, also when the trades on *)
(* one instrument point both ways and fills are partial.                   *)
(***************************************************************************)
CloseOnlyReduces ==
    [][\A h \in Handlers :
         (pc[h] = "idle" /\ pc'[h] = "publish_close") =>
            LET i == Idea[on'[h]].instrument IN
            /\ Magnitude(position'[i]) < Magnitude(position[i])
            /\ position'[i] # 0 => (position'[i] > 0 <=> position[i] > 0)]_vars

(***************************************************************************)
(* Within one process lifetime no request reopens a CLOSED trade, however  *)
(* many were in flight when it closed (approvals.py answers 409; a second  *)
(* close finds the state or the position gone).                            *)
(***************************************************************************)
ClosedIsFinal ==
    [][crashes' = crashes =>
         \A t \in Trades : mem[t].state = "CLOSED" => mem'[t].state = "CLOSED"]_vars

(***************************************************************************)
(* When no call is in flight and none has failed, the store holds exactly  *)
(* the approvals that memory serves (persist_approval: "only the durable   *)
(* copy needs updating here"), and every closed trade has its analysis,    *)
(* both journal entries and its memory record.                             *)
(***************************************************************************)
Quiet == (\A h \in Handlers : pc[h] = "idle") /\ aborts = 0

QuietStoreMatchesMemory ==
    Quiet => /\ \A t \in Trades : db[t] = mem[t]
             /\ crashes = 0 => \A t \in Trades :
                  mem[t].state = "CLOSED" => mem[t].journal >= 2 /\ t \in memories

(***************************************************************************)
(* A trade that enters the pipeline gets an approval, unless the process   *)
(* died or an awaited call raised: no verdict, disabled agent or committee *)
(* answer leaves it undecided (submit_trade_idea).                         *)
(***************************************************************************)
SubmissionSettles ==
    \A t \in Trades :
        (mem[t].trade /\ mem[t].state = NoApproval) ~>
            (mem[t].state # NoApproval \/ crashes + aborts > 0)

-----------------------------------------------------------------------------
(* Why it does: the inductive invariant behind RecordsInOrder and          *)
(* VetoedTradeNeedsRework                                                  *)

\* A record is in memory before it is in the store, and never differs; an
\* approval exists only once its risk check is durable.
Follows(stored, row) ==
    /\ stored.trade => row.trade
    /\ stored.decided => row.decided
    /\ stored.analysed => row.analysed
    /\ stored.verdict \in {NoVerdict, row.verdict}
    /\ row.state # NoApproval => stored.verdict # NoVerdict

StoreFollowsMemory == \A t \in Trades : Follows(db[t], mem[t])

BeforeVerdict == {"save_trade", "deliberate", "save_decision"}
BeforeApproval == BeforeVerdict \cup {"save_check", "consult_cia"}

\* Until it has an approval, a trade belongs to the coroutine submitting it.
SubmitterIsAlone ==
    \A h \in Handlers : pc[h] \in BeforeApproval =>
        /\ mem[on[h]].state = NoApproval
        /\ \A g \in Handlers : g # h => on[g] # on[h]

\* What a submission waiting for `call` has recorded in memory and stored.
Submitted(call, row, stored) ==
    /\ call \in BeforeApproval => row.trade
    /\ call \in BeforeApproval \ {"save_trade"} => stored.trade
    /\ call \in {"save_decision", "save_check"} => row.decided
    /\ call \in BeforeVerdict => row.verdict = NoVerdict
    /\ call \in BeforeVerdict \cup {"save_check"} => stored.verdict = NoVerdict
    /\ call = "save_check" => stored.decided /\ row.verdict # NoVerdict
    /\ call = "consult_cia" => stored.verdict # NoVerdict

SubmissionSoFar ==
    \A h \in Handlers : Submitted(pc[h], mem[on[h]], db[on[h]])

\* What a closing has already recorded when it waits for pc[h].
ClosingSoFar ==
    \A h \in Handlers : LET t == on[h] IN
        /\ pc[h] \in {"publish_close", "save_analysis"} => mem[t].state # NoApproval
        /\ pc[h] = "save_analysis" => mem[t].analysed

\* An approval on its way to the store may overwrite the one there, whenever
\* it arrives.
SnapshotsAreSafe ==
    \A h \in Handlers : LET t == on[h] IN
        pc[h] \in {"save_routing", "save_action", "save_close"} =>
            /\ snap[h].state # NoApproval
            /\ db[t].verdict # NoVerdict
            /\ InPlay(snap[h].state) /\ mem[t].verdict # "ALLOW"
                 => Reworked(snap[h].actions)
            /\ snap[h].state = "CLOSED" => db[t].analysed

Inductive ==
    /\ TypeOK
    /\ RecordsInOrder
    /\ VetoedTradeNeedsRework
    /\ StoreFollowsMemory
    /\ SubmitterIsAlone
    /\ SubmissionSoFar
    /\ ClosingSoFar
    /\ SnapshotsAreSafe

-----------------------------------------------------------------------------
(* Why the store catches up: the inductive invariant behind                *)
(* QuietStoreMatchesMemory                                                 *)

Waiting(t, calls) == {h \in Handlers : on[h] = t /\ pc[h] \in calls}
Awaited(t, calls) == Waiting(t, calls) # {}

ApprovalSaves == {"save_routing", "save_action", "save_close"}
JournalSaves == {"journal_submission", "journal_close"}

\* No two requests are saving the approval of one trade at the same time:
\* save_approval writes the arguments it was called with, so that the older
\* of two overlapping saves may commit last.
OneSavePerApproval ==
    \A t \in Trades : \A g, h \in Waiting(t, ApprovalSaves) : g = h

\* What the store lacks of a trade is what a handler is about to write.
RecordsArePending ==
    \A t \in Trades :
        /\ db[t].trade = mem[t].trade \/ Awaited(t, {"save_trade"})
        /\ db[t].decided = mem[t].decided \/ Awaited(t, {"save_decision"})
        /\ db[t].verdict = mem[t].verdict \/ Awaited(t, {"save_check"})
        /\ db[t].analysed = mem[t].analysed \/ Awaited(t, {"save_analysis"})

\* Each journal entry that the store lacks is about to be written.
JournalIsPending ==
    \A t \in Trades :
        LET writers == Waiting(t, JournalSaves) IN
        /\ IsFiniteSet(writers)
        /\ mem[t].journal = db[t].journal + Cardinality(writers)

\* A settled trade has the journal entry of its submission, a closed one also
\* that of its closing and a memory record, or a handler is about to get there.
ClosingOf(t) ==
    LET entries == mem[t].journal
        settling == Awaited(t, {"save_routing"})
        closing == Awaited(t, {"save_close"})
    IN
    /\ mem[t].state # NoApproval => entries >= 1 \/ settling
    /\ mem[t].state = "CLOSED" =>
         /\ \/ entries >= 2
            \/ entries >= 1 /\ (settling \/ closing)
            \/ settling /\ closing
         /\ \/ t \in memories
            \/ Awaited(t, {"save_close", "journal_close", "save_memory"})

ClosingIsPending == \A t \in Trades : ClosingOf(t)

\* There is no action on what is not yet an approval.
UndecidedIsUnlogged ==
    \A t \in Trades : \A row \in {mem[t], db[t]} :
        row.state = NoApproval => row.actions = << >>

\* An approval that differs from the stored one is being saved as it is.
ApprovalIsPending ==
    \A t \in Trades :
        /\ Snapshot(db[t]) = Snapshot(mem[t]) \/ Awaited(t, ApprovalSaves)
        /\ \A h \in Waiting(t, ApprovalSaves) : snap[h] = Snapshot(mem[t])

\* All this as long as no awaited call failed.
CatchingUp ==
    aborts = 0 => /\ RecordsArePending
                  /\ JournalIsPending
                  /\ crashes = 0 => ClosingIsPending

-----------------------------------------------------------------------------
(* What the documents say of it and the code does not do *)

(***************************************************************************)
(* docs/risk-framework.md section 1: the approvals state machine cannot    *)
(* transition into APPROVED_FOR_PAPER_TRADING without a matching check     *)
(* whose verdict is ALLOW (or a cleared REQUIRE_HUMAN).                    *)
(***************************************************************************)
VetoIsAbsolute ==
    \A t \in Trades :
        mem[t].state \in {"APPROVED_FOR_PAPER_TRADING", "EXECUTED_SIMULATION"}
            => mem[t].verdict \in {"ALLOW", "REQUIRE_HUMAN"}

(***************************************************************************)
(* docs/risk-framework.md section 6 and approvals.py call REJECTED         *)
(* terminal: it is never left.                                             *)
(***************************************************************************)
RejectedIsFinal ==
    [][crashes' = crashes =>
         \A t \in Trades : mem[t].state = "REJECTED" => mem'[t].state = "REJECTED"]_vars

(***************************************************************************)
(* close_trade flattens "the paper position tied to trade_id", and the     *)
(* portfolio's docstring says positions are persisted: an executed trade   *)
(* that nobody is closing has a position to close.                         *)
(***************************************************************************)
ExecutedTradeHasPosition ==
    \A t \in Trades :
        (mem[t].state = "EXECUTED_SIMULATION" /\ \A h \in Handlers : on[h] # t)
            => position[Idea[t].instrument] # 0
=============================================================================
