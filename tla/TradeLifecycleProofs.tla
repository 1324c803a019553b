------------------------ MODULE TradeLifecycleProofs ------------------------
(***************************************************************************)
(* Theorems about TradeLifecycle, for any trades, handlers, limits and     *)
(* bounds, and that it implements ApprovalPromise, for any number of       *)
(* trades, handlers, crashes and failed calls.                             *)
(***************************************************************************)
EXTENDS TradeRefinement, FiniteSetTheorems, TLAPS

(***************************************************************************)
(* The governor answers every submission with one of its verdicts.         *)
(***************************************************************************)
LEMMA SubmissionVerdict ==
    ASSUME NEW t PROVE Verdict(SubmissionContext(t)) \in Verdicts
<1> DEFINE c == SubmissionContext(t)
<1>1. /\ c.data_fresh /\ c.provider_up /\ c.on_provider_down = "BLOCK"
      /\ c.daily_loss = 0 /\ c.drawdown = 0 /\ c.strategy_approved
      /\ c.model = "chief_trading_agent" /\ c.approved_models = {"chief_trading_agent"}
  BY DEF SubmissionContext
<1> HIDE DEF c
<1>2. \A n \in Positions : FailureVerdict(n, c) \in Verdicts
  BY <1>1 DEF FailureVerdict, Positions, Verdicts
<1>3. ASSUME ~AllPass(c)
      PROVE  \E n \in Positions : FirstFailure(n, c)
  <2>1. \A n \in Positions : Fails(n, c) => n \in {1, 4, 5, 6, 9}
    BY <1>1 DEF Fails, Positions, UnapprovedModel, Magnitude, SubmissionContext, c
  <2>2. ASSUME NEW n \in Positions, Fails(n, c),
               \A m \in {1, 4, 5, 6, 9} : m < n => ~Fails(m, c)
        PROVE  FirstFailure(n, c)
    <3>1. \A m \in 1 .. (n - 1) : m \in Positions /\ m < n
      BY DEF Positions
    <3> QED
      BY <2>1, <2>2, <3>1 DEF FirstFailure
  <2>3. \E n \in {1, 4, 5, 6, 9} : Fails(n, c)
    BY <1>3, <2>1 DEF AllPass
  <2>4. /\ {1, 4, 5, 6, 9} \subseteq Positions
        /\ \E n \in {1, 4, 5, 6, 9} : /\ Fails(n, c)
                                      /\ \A m \in {1, 4, 5, 6, 9} : m < n => ~Fails(m, c)
    <3>1. {1, 4, 5, 6, 9} \subseteq Positions
      BY DEF Positions
    <3>2. \/ Fails(1, c)
          \/ Fails(4, c) /\ ~Fails(1, c)
          \/ Fails(5, c) /\ ~Fails(1, c) /\ ~Fails(4, c)
          \/ Fails(6, c) /\ ~Fails(1, c) /\ ~Fails(4, c) /\ ~Fails(5, c)
          \/ Fails(9, c) /\ ~Fails(1, c) /\ ~Fails(4, c) /\ ~Fails(5, c) /\ ~Fails(6, c)
      BY <2>3
    <3> QED
      BY <3>1, <3>2
  <2>5. PICK n \in {1, 4, 5, 6, 9} : /\ Fails(n, c)
                                     /\ \A m \in {1, 4, 5, 6, 9} : m < n => ~Fails(m, c)
    BY <2>4
  <2>6. n \in Positions
    BY <2>4
  <2>7. FirstFailure(n, c)
    BY <2>2, <2>5, <2>6
  <2> QED
    BY <2>6, <2>7
<1>4. Verdict(c) \in Verdicts
  <2>1. CASE AllPass(c)
    BY <2>1 DEF Verdict, Verdicts
  <2>2. CASE ~AllPass(c)
    <3> DEFINE first == CHOOSE n \in Positions : FirstFailure(n, c)
    <3>1. first \in Positions
      BY <1>3, <2>2
    <3>2. Verdict(c) = FailureVerdict(first, c)
      BY <2>2 DEF Verdict
    <3> HIDE DEF first
    <3> QED
      BY <1>2, <3>1, <3>2
  <2> QED
    BY <2>1, <2>2
<1> QED
  BY <1>4 DEF c

(***************************************************************************)
(* Every action of the approval workflow leads to a state, and so does     *)
(* every routing of a submission (_TRANSITIONS, submit_trade_idea).        *)
(***************************************************************************)
LEMMA TransitionTypes ==
    /\ \A a : Target(a) \in ApprovalStates
    /\ \A v, forward : InitialState(v, forward) \in ApprovalStates
  BY DEF Target, InitialState, ApprovalStates

(***************************************************************************)
(* The updates the actions make to a row leave it a row.                   *)
(***************************************************************************)
LEMMA RowUpdates ==
    ASSUME NEW r \in Rows
    PROVE  /\ [r EXCEPT !.trade = TRUE] \in Rows
           /\ [r EXCEPT !.decided = TRUE] \in Rows
           /\ [r EXCEPT !.analysed = TRUE] \in Rows
           /\ [r EXCEPT !.journal = @ + 1] \in Rows
           /\ \A v \in Verdicts \cup {NoVerdict} : [r EXCEPT !.verdict = v] \in Rows
           /\ \A s \in ApprovalStates : [r EXCEPT !.state = s] \in Rows
           /\ \A s \in Snapshots : WithSnapshot(r, s) \in Rows
           /\ Snapshot(r) \in Snapshots
<1>1. [r EXCEPT !.trade = TRUE] \in Rows
  BY DEF Rows
<1>2. [r EXCEPT !.decided = TRUE] \in Rows
  BY DEF Rows
<1>3. [r EXCEPT !.analysed = TRUE] \in Rows
  BY DEF Rows
<1>4. [r EXCEPT !.journal = @ + 1] \in Rows
  BY DEF Rows
<1>5. \A v \in Verdicts \cup {NoVerdict} : [r EXCEPT !.verdict = v] \in Rows
  BY DEF Rows
<1>6. \A s \in ApprovalStates : [r EXCEPT !.state = s] \in Rows
  BY DEF Rows
<1>7. \A s \in Snapshots : WithSnapshot(r, s) \in Rows
  BY DEF Rows, Snapshots, WithSnapshot
<1>8. Snapshot(r) \in Snapshots
  BY DEF Rows, Snapshots, Snapshot
<1> QED
  BY <1>1, <1>2, <1>3, <1>4, <1>5, <1>6, <1>7, <1>8

(***************************************************************************)
(* An approval with an action appended to its log is still a well-formed   *)
(* row (act_on_approval).                                                  *)
(***************************************************************************)
LEMMA LoggedType ==
    ASSUME NEW t \in Trades, mem \in [Trades -> Rows],
           NEW a \in ApprovalActions, NEW s \in ApprovalStates
    PROVE  Logged(t, a, s) \in Rows
<1> DEFINE log == Append(mem[t].actions, a)
<1>1. mem[t] \in Rows
  OBVIOUS
<1>2. log \in Seq(ApprovalActions)
  BY <1>1 DEF Rows
<1>3. \A l \in Seq(ApprovalActions) :
         [mem[t] EXCEPT !.actions = l, !.state = s] \in Rows
  BY <1>1 DEF Rows
<1>4. Logged(t, a, s) = [mem[t] EXCEPT !.actions = log, !.state = s]
  BY DEF Logged
<1> QED
  BY <1>2, <1>3, <1>4

(***************************************************************************)
(* Type correctness of every state the handlers, crashes and failed calls  *)
(* reach.                                                                  *)
(***************************************************************************)
LEMMA TypeInit == Init => TypeOK
<1> SUFFICES ASSUME Init PROVE TypeOK
  OBVIOUS
<1>1. EmptyRow \in Rows
  BY DEF EmptyRow, Rows
<1>2. NoSnapshot \in Snapshots
  BY DEF NoSnapshot, Snapshots
<1>4. limits \in LimitChoices
  BY LimitAssumption DEF Init
<1>5. mem \in [Trades -> Rows] /\ db \in [Trades -> Rows]
  BY <1>1 DEF Init
<1>6. pc \in [Handlers -> Calls \cup {"idle"}] /\ \A h \in Handlers : pc[h] = "idle"
  BY DEF Init
<1>7. on \in [Handlers -> Trades \cup {NoTrade}] /\ snap \in [Handlers -> Snapshots]
  BY <1>2 DEF Init
<1>8. position \in [Instruments -> Int]
  BY DEF Init
<1> QED
  BY <1>4, <1>5, <1>6, <1>7, <1>8 DEF Init, TypeOK
(***************************************************************************)
(* No step of a handler, a person, a crash or a failed call leaves the     *)
(* types.                                                                  *)
(***************************************************************************)
LEMMA TypeNext ==
    ASSUME TypeOK, [Next]_vars
    PROVE  TypeOK'
<1> USE DEF TypeOK, book, faults, handlerVars
<1>0. NoSnapshot \in Snapshots
  BY DEF NoSnapshot, Snapshots
<1>1. ASSUME NEW h \in Handlers, NEW t \in Trades, Submit(h, t)
      PROVE  TypeOK'
  BY <1>1, RowUpdates DEF Submit, Begin, Calls, SubmissionCalls
<1>2. ASSUME NEW h \in Handlers, TradeSaved(h)
      PROVE  TypeOK'
  BY <1>2, RowUpdates DEF TradeSaved, Await, Calls, SubmissionCalls
<1>3. ASSUME NEW h \in Handlers, Deliberated(h)
      PROVE  TypeOK'
  BY <1>3, RowUpdates DEF Deliberated, Await, Calls, SubmissionCalls
<1>4. ASSUME NEW h \in Handlers, DecisionSaved(h)
      PROVE  TypeOK'
  BY <1>4, RowUpdates, SubmissionVerdict DEF DecisionSaved, Await, Calls, SubmissionCalls
<1>5. ASSUME NEW h \in Handlers, CheckSaved(h)
      PROVE  TypeOK'
  <2>1. on[h] \in Trades
    BY <1>5 DEF CheckSaved, Await
  <2>2. mem[on[h]].verdict \in Verdicts \cup {NoVerdict}
    BY <2>1 DEF Rows
  <2>3. db' \in [Trades -> Rows]
    BY <1>5, <2>1, <2>2, RowUpdates DEF CheckSaved
  <2> QED
    BY <1>5, <2>3 DEF CheckSaved, Await, Calls, SubmissionCalls
<1>6. ASSUME NEW h \in Handlers, Routed(h)
      PROVE  TypeOK'
  <2>1. on[h] \in Trades
    BY <1>6 DEF Routed, Await
  <2>2. PICK forward \in BOOLEAN :
          LET s == InitialState(mem[on[h]].verdict, forward) IN
          /\ mem' = [mem EXCEPT ![on[h]].state = s]
          /\ snap' = [snap EXCEPT ![h] = [state |-> s, actions |-> << >>]]
    BY <1>6 DEF Routed
  <2> DEFINE s == InitialState(mem[on[h]].verdict, forward)
  <2>3. s \in ApprovalStates
    BY TransitionTypes
  <2>4. [state |-> s, actions |-> << >>] \in Snapshots
    BY <2>3 DEF Snapshots
  <2>5. mem' \in [Trades -> Rows]
    BY <2>1, <2>2, <2>3, RowUpdates
  <2> QED
    BY <1>6, <2>2, <2>4, <2>5 DEF Routed, Await, Calls, SubmissionCalls
<1>7. ASSUME NEW h \in Handlers, RoutingSaved(h)
      PROVE  TypeOK'
  BY <1>7, RowUpdates DEF RoutingSaved, Await, Calls, SubmissionCalls
<1>8. ASSUME NEW h \in Handlers, SubmissionJournaled(h)
      PROVE  TypeOK'
  <2>1. on[h] \in Trades
    BY <1>8 DEF SubmissionJournaled, Finish
  <2>2. db' \in [Trades -> Rows]
    BY <1>8, <2>1, RowUpdates DEF SubmissionJournaled
  <2> QED
    BY <1>0, <1>8, <2>2 DEF SubmissionJournaled, Finish
<1>9. ASSUME NEW h \in Handlers, NEW t \in Trades, NEW a \in HumanActions,
             ActOnApproval(h, t, a)
      PROVE  TypeOK'
  <2>1. Logged(t, a, Target(a)) \in Rows
    BY LoggedType, TransitionTypes, ActionAssumption
  <2>2. mem' \in [Trades -> Rows] /\ mem'[t] \in Rows
    BY <1>9, <2>1 DEF ActOnApproval
  <2>3. Snapshot(mem'[t]) \in Snapshots
    BY <2>2, RowUpdates
  <2> QED
    BY <1>9, <2>2, <2>3 DEF ActOnApproval, Begin, Calls
<1>10. ASSUME NEW h \in Handlers, NEW t \in Trades, Approve(h, t)
       PROVE  TypeOK'
  <2>1. Logged(t, "APPROVE", "EXECUTED_SIMULATION") \in Rows
    BY LoggedType DEF ApprovalActions, ApprovalStates
  <2>2. mem' \in [Trades -> Rows] /\ mem'[t] \in Rows
    BY <1>10, <2>1 DEF Approve
  <2>3. Snapshot(mem'[t]) \in Snapshots
    BY <2>2, RowUpdates
  <2>4. position' \in [Instruments -> Int]
    <3>1. Idea[t].instrument \in Instruments
      BY IdeaAssumption DEF Ideas
    <3>2. PICK q \in OrderQuantities : \E f \in Fills(q) :
            position' = [position EXCEPT ![Idea[t].instrument] = @ + Signed(t, f)]
      BY <1>10 DEF Approve
    <3>3. q \in Nat
      BY QuantityAssumption
    <3>4. PICK f \in Fills(q) :
            position' = [position EXCEPT ![Idea[t].instrument] = @ + Signed(t, f)]
      BY <3>2
    <3>5. Signed(t, f) \in Int
      BY <3>3 DEF Fills, Signed
    <3> QED
      BY <3>1, <3>4, <3>5
  <2> QED
    BY <1>10, <2>2, <2>3, <2>4 DEF Approve, Begin, Calls
<1>11. ASSUME NEW t \in Trades, ApproveRefused(t)
       PROVE  TypeOK'
  <2>1. Logged(t, "APPROVE", "APPROVED_FOR_PAPER_TRADING") \in Rows
    BY LoggedType DEF ApprovalActions, ApprovalStates
  <2> QED
    BY <1>11, <2>1 DEF ApproveRefused
<1>12. ASSUME NEW h \in Handlers, ActionSaved(h)
       PROVE  TypeOK'
  <2>1. on[h] \in Trades
    BY <1>12 DEF ActionSaved, Finish
  <2>2. db' \in [Trades -> Rows]
    BY <1>12, <2>1, RowUpdates DEF ActionSaved
  <2> QED
    BY <1>0, <1>12, <2>2 DEF ActionSaved, Finish
<1>13. ASSUME NEW h \in Handlers, NEW t \in Trades, Close(h, t)
       PROVE  TypeOK'
  <2>1. position' \in [Instruments -> Int]
    <3>1. Idea[t].instrument \in Instruments
      BY IdeaAssumption DEF Ideas
    <3>2. PICK f \in Fills(Magnitude(position[Idea[t].instrument])) :
            position' = [position EXCEPT ![Idea[t].instrument] = Reduced(@, f)]
      BY <1>13 DEF Close
    <3>3. f \in Int
      BY <3>1 DEF Fills, Magnitude
    <3>4. Reduced(position[Idea[t].instrument], f) \in Int
      BY <3>1, <3>3 DEF Reduced
    <3> QED
      BY <3>1, <3>2, <3>4
  <2> QED
    BY <1>13, <2>1 DEF Close, Begin, Calls, CloseCalls
<1>14. ASSUME NEW h \in Handlers, ClosePublished(h)
       PROVE  TypeOK'
  BY <1>14, RowUpdates DEF ClosePublished, Await, Calls, CloseCalls
<1>15. ASSUME NEW h \in Handlers, AnalysisSaved(h)
       PROVE  TypeOK'
  <2>1. on[h] \in Trades /\ "CLOSED" \in ApprovalStates
    BY <1>15 DEF AnalysisSaved, Await, ApprovalStates
  <2>2. mem' \in [Trades -> Rows] /\ db' \in [Trades -> Rows]
    BY <1>15, <2>1, RowUpdates DEF AnalysisSaved
  <2>3. Snapshot(mem'[on[h]]) \in Snapshots
    BY <2>1, <2>2, RowUpdates
  <2> QED
    BY <1>15, <2>2, <2>3 DEF AnalysisSaved, Await, Calls, CloseCalls
<1>16. ASSUME NEW h \in Handlers, CloseSaved(h)
       PROVE  TypeOK'
  BY <1>16, RowUpdates DEF CloseSaved, Await, Calls, CloseCalls
<1>17. ASSUME NEW h \in Handlers, CloseJournaled(h)
       PROVE  TypeOK'
  BY <1>17, RowUpdates DEF CloseJournaled, Await, Calls, CloseCalls
<1>18. ASSUME NEW h \in Handlers, MemorySaved(h)
       PROVE  TypeOK'
  BY <1>0, <1>18 DEF MemorySaved, Finish
<1>19. ASSUME NEW v \in BOOLEAN, SetHalted(v)
       PROVE  TypeOK'
  BY <1>19 DEF SetHalted
<1>20. ASSUME NEW l \in LimitChoices, SetRiskLimits(l)
       PROVE  TypeOK'
  BY <1>20 DEF SetRiskLimits
<1>22. ASSUME NEW h \in Handlers, Abort(h)
       PROVE  TypeOK'
  BY <1>0, <1>22 DEF Abort, Finish
<1>23. ASSUME Restart
       PROVE  TypeOK'
  <2>1. limits' \in LimitChoices
    BY <1>23 DEF Restart
  <2>2. /\ pc' \in [Handlers -> Calls \cup {"idle"}]
        /\ \A h \in Handlers : pc'[h] = "idle"
    BY <1>23 DEF Restart
  <2>3. /\ on' \in [Handlers -> Trades \cup {NoTrade}]
        /\ snap' \in [Handlers -> Snapshots]
        /\ position' \in [Instruments -> Int]
    BY <1>0, <1>23 DEF Restart
  <2>4. /\ mem' \in [Trades -> Rows] /\ db' \in [Trades -> Rows]
        /\ memories' \in SUBSET Trades
    BY <1>23 DEF Restart
  <2>5. halted' \in BOOLEAN
    BY <1>23, Zenon DEF Restart
  <2>6. crashes' \in Nat /\ aborts' \in Nat
    BY <1>23 DEF Restart
  <2> HIDE DEF TypeOK
  <2> QED
    BY <2>1, <2>2, <2>3, <2>4, <2>5, <2>6 DEF TypeOK
<1>24. CASE UNCHANGED vars
  BY <1>24 DEF vars
<1> QED
  BY <1>1, <1>2, <1>3, <1>4, <1>5, <1>6, <1>7, <1>8, <1>9, <1>10, <1>11, <1>12,
     <1>13, <1>14, <1>15, <1>16, <1>17, <1>18, <1>19, <1>20, <1>22,
     <1>23, <1>24 DEF Next, Progress, Request

(***************************************************************************)
(* Every variable keeps its type.                                          *)
(***************************************************************************)
THEOREM TypeCorrect == Spec => []TypeOK
<1>1. Init => TypeOK
  BY TypeInit
<1>2. TypeOK /\ [Next]_vars => TypeOK'
  BY TypeNext
<1> QED
  BY <1>1, <1>2, PTL DEF Spec
-----------------------------------------------------------------------------
(***************************************************************************)
(* Safety: Inductive is an inductive invariant, so RecordsInOrder and      *)
(* VetoedTradeNeedsRework hold in every reachable state; and no step but a *)
(* restart reopens a closed trade.  Each lemma below takes the steps with  *)
(* the same effect on the records and on the coroutines together.          *)
(***************************************************************************)
USE DEF BeforeApproval, BeforeVerdict, book, faults, handlerVars

\* Two rows that agree in everything the invariant looks at.
Agree(r, s) ==
    /\ s.trade = r.trade
    /\ s.decided = r.decided
    /\ s.verdict = r.verdict
    /\ s.state = r.state
    /\ s.actions = r.actions
    /\ s.analysed = r.analysed

\* The calls about which the invariant says nothing.
Unburdened == {"idle", "journal_submission", "journal_close", "save_memory"}

(***************************************************************************)
(* Every trade starts with an empty row and every slot idle.               *)
(***************************************************************************)
LEMMA InductiveInit == Init => Inductive
<1> SUFFICES ASSUME Init PROVE Inductive
  OBVIOUS
<1>1. \A t \in Trades : mem[t] = EmptyRow /\ db[t] = EmptyRow
  BY DEF Init
<1>2. \A h \in Handlers : pc[h] = "idle"
  BY DEF Init
<1>3. TypeOK
  BY TypeInit
<1>4. RecordsInOrder /\ StoreFollowsMemory
  BY <1>1 DEF RecordsInOrder, InOrder, StoreFollowsMemory, Follows, EmptyRow, NoApproval, NoVerdict
<1>5. VetoedTradeNeedsRework
  BY <1>1 DEF VetoedTradeNeedsRework, EmptyRow, InPlay, NoApproval
<1>6. SubmitterIsAlone /\ SubmissionSoFar /\ ClosingSoFar /\ SnapshotsAreSafe
  BY <1>2 DEF SubmitterIsAlone, SubmissionSoFar, Submitted, ClosingSoFar, SnapshotsAreSafe
<1> QED
  BY <1>3, <1>4, <1>5, <1>6 DEF Inductive

(***************************************************************************)
(* Steps that change no record the invariant looks at and that leave each  *)
(* coroutine where it is or past its last obligation: journal entries,     *)
(* memory records, the risk controls, a call that raises.                  *)
(***************************************************************************)
LEMMA HarmlessStep ==
    ASSUME Inductive, TypeOK',
           \A t \in Trades : Agree(mem[t], mem'[t]) /\ Agree(db[t], db'[t]),
           \A h \in Handlers :
              \/ pc'[h] = pc[h] /\ on'[h] = on[h] /\ snap'[h] = snap[h]
              \/ pc'[h] \in Unburdened /\ on'[h] \in {on[h], NoTrade}
    PROVE  Inductive'
<1> USE DEF Inductive, Agree, Unburdened
<1>1. RecordsInOrder' /\ StoreFollowsMemory'
  BY DEF RecordsInOrder, InOrder, StoreFollowsMemory, Follows
<1>2. VetoedTradeNeedsRework'
  BY DEF VetoedTradeNeedsRework
<1>3. SubmitterIsAlone'
  BY NoTradeAssumption DEF SubmitterIsAlone, TypeOK
<1>4. SubmissionSoFar'
  BY DEF SubmissionSoFar, Submitted, TypeOK
<1>5. ClosingSoFar'
  BY DEF ClosingSoFar, TypeOK
<1>6. SnapshotsAreSafe'
  BY DEF SnapshotsAreSafe, TypeOK
<1> QED
  BY <1>1, <1>2, <1>3, <1>4, <1>5, <1>6

(***************************************************************************)
(* A save_approval call arrives: the row it was given replaces the stored  *)
(* one, however stale it is by now.                                        *)
(***************************************************************************)
LEMMA SnapshotStep ==
    ASSUME Inductive, TypeOK',
           NEW h \in Handlers,
           pc[h] \in {"save_routing", "save_action", "save_close"},
           db' = [db EXCEPT ![on[h]] = WithSnapshot(@, snap[h])],
           \A t \in Trades : Agree(mem[t], mem'[t]),
           pc'[h] \in Unburdened, on'[h] \in {on[h], NoTrade},
           \A g \in Handlers : g # h =>
              pc'[g] = pc[g] /\ on'[g] = on[g] /\ snap'[g] = snap[g]
    PROVE  Inductive'
<1> USE DEF Inductive
<1> DEFINE t0 == on[h]
<1>1. t0 \in Trades
  BY DEF TypeOK
<1>2. /\ db'[t0].trade = db[t0].trade
      /\ db'[t0].decided = db[t0].decided
      /\ db'[t0].verdict = db[t0].verdict
      /\ db'[t0].analysed = db[t0].analysed
      /\ db'[t0].state = snap[h].state
      /\ db'[t0].actions = snap[h].actions
      /\ \A t \in Trades : t # t0 => db'[t] = db[t]
  BY <1>1 DEF TypeOK, Rows, WithSnapshot
<1>3. /\ snap[h].state # NoApproval
      /\ db[t0].verdict # NoVerdict
      /\ InPlay(snap[h].state) /\ mem[t0].verdict # "ALLOW" => Reworked(snap[h].actions)
      /\ snap[h].state = "CLOSED" => db[t0].analysed
  BY DEF SnapshotsAreSafe
<1>4. db[t0].verdict = mem[t0].verdict
  BY <1>1, <1>3 DEF StoreFollowsMemory, Follows
<1> HIDE DEF t0
<1>5. RecordsInOrder'
  BY <1>1, <1>2, <1>3 DEF RecordsInOrder, InOrder, Agree
<1>6. VetoedTradeNeedsRework'
  BY <1>1, <1>2, <1>3, <1>4 DEF VetoedTradeNeedsRework, Agree
<1>7. StoreFollowsMemory'
  BY <1>1, <1>2 DEF StoreFollowsMemory, Follows, Agree
<1>8. SubmitterIsAlone'
  BY NoTradeAssumption DEF SubmitterIsAlone, TypeOK, Unburdened, Agree
<1>9. SubmissionSoFar'
  BY <1>1, <1>2 DEF SubmissionSoFar, Submitted, TypeOK, Unburdened, Agree
<1>10. ClosingSoFar'
  BY DEF ClosingSoFar, TypeOK, Unburdened, Agree
<1>11. SnapshotsAreSafe'
  BY <1>1, <1>2 DEF SnapshotsAreSafe, TypeOK, Unburdened, Agree
<1> QED
  BY <1>5, <1>6, <1>7, <1>8, <1>9, <1>10, <1>11

(***************************************************************************)
(* A log that records rework still does after another action.              *)
(***************************************************************************)
LEMMA ReworkedAppend ==
    ASSUME NEW log \in Seq(ApprovalActions), NEW a \in ApprovalActions,
           Reworked(log) \/ a \in Rework
    PROVE  Reworked(Append(log, a))
<1> DEFINE longer == Append(log, a)
<1>1. /\ Len(longer) = Len(log) + 1 /\ Len(log) \in Nat
      /\ longer[Len(log) + 1] = a
      /\ \A n \in 1 .. Len(log) : longer[n] = log[n]
  OBVIOUS
<1>2. CASE Reworked(log)
  <2>1. PICK n \in 1 .. Len(log) : log[n] \in Rework
    BY <1>2 DEF Reworked
  <2>2. n \in 1 .. Len(longer) /\ longer[n] \in Rework
    BY <1>1, <2>1
  <2> QED
    BY <2>2 DEF Reworked
<1>3. CASE a \in Rework
  <2>1. Len(longer) \in 1 .. Len(longer) /\ longer[Len(longer)] \in Rework
    BY <1>1, <1>3
  <2> QED
    BY <2>1 DEF Reworked
<1> QED
  BY <1>2, <1>3

(***************************************************************************)
(* A person acts on an approval: the action is logged, the approval takes  *)
(* a new state s, and either a save of it starts or (the refused quantity) *)
(* no coroutine changes.                                                   *)
(***************************************************************************)
LEMMA ActionStep ==
    ASSUME Inductive, TypeOK',
           NEW t0 \in Trades, NEW a \in ApprovalActions, NEW s \in ApprovalStates,
           Actionable(t0, a), s # "CLOSED",
           InPlay(s) => a \in Rework \/ a = "APPROVE",
           mem' = [mem EXCEPT ![t0] = Logged(t0, a, s)], db' = db,
           \A g \in Handlers :
              \/ pc'[g] = pc[g] /\ on'[g] = on[g] /\ snap'[g] = snap[g]
              \/ /\ pc[g] = "idle"
                 /\ pc'[g] = "save_action"
                 /\ on'[g] = t0
                 /\ snap'[g] = Snapshot(mem'[t0])
    PROVE  Inductive'
<1> USE DEF Inductive
<1>1. /\ mem'[t0].trade = mem[t0].trade
      /\ mem'[t0].decided = mem[t0].decided
      /\ mem'[t0].verdict = mem[t0].verdict
      /\ mem'[t0].analysed = mem[t0].analysed
      /\ mem'[t0].state = s
      /\ mem'[t0].actions = Append(mem[t0].actions, a)
      /\ \A t \in Trades : t # t0 => mem'[t] = mem[t]
  BY DEF TypeOK, Rows, Logged
<1>2. mem[t0].state # NoApproval /\ s # NoApproval
  BY DEF Actionable, ApprovalStates, NoApproval
<1>3. db[t0].verdict # NoVerdict /\ db[t0].verdict = mem[t0].verdict
  BY <1>2 DEF StoreFollowsMemory, Follows
<1>4. InPlay(s) /\ mem[t0].verdict # "ALLOW" => Reworked(mem'[t0].actions)
  <2> SUFFICES ASSUME InPlay(s), mem[t0].verdict # "ALLOW"
               PROVE  Reworked(Append(mem[t0].actions, a))
    BY <1>1
  <2>1. mem[t0].actions \in Seq(ApprovalActions)
    BY DEF TypeOK, Rows
  <2>2. CASE a \in Rework
    BY <2>1, <2>2, ReworkedAppend
  <2>3. CASE a = "APPROVE"
    <3>1. InPlay(mem[t0].state)
      BY <2>3 DEF Actionable, InPlay
    <3>2. Reworked(mem[t0].actions)
      BY <3>1 DEF VetoedTradeNeedsRework
    <3> QED
      BY <2>1, <3>2, ReworkedAppend
  <2> QED
    BY <2>2, <2>3
<1>5. Snapshot(mem'[t0]).state = s /\ Snapshot(mem'[t0]).actions = mem'[t0].actions
  BY <1>1 DEF Snapshot
<1>6. RecordsInOrder'
  BY <1>1, <1>2 DEF RecordsInOrder, InOrder
<1>7. VetoedTradeNeedsRework'
  BY <1>1, <1>4 DEF VetoedTradeNeedsRework
<1>8. StoreFollowsMemory'
  BY <1>1, <1>3 DEF StoreFollowsMemory, Follows
<1>9. SubmitterIsAlone'
  BY <1>1, <1>2 DEF SubmitterIsAlone, TypeOK
<1>10. SubmissionSoFar'
  BY <1>1 DEF SubmissionSoFar, Submitted, TypeOK
<1>11. ClosingSoFar'
  BY <1>1, <1>2 DEF ClosingSoFar, TypeOK
<1>12. SnapshotsAreSafe'
  <2> SUFFICES ASSUME NEW g \in Handlers,
                      pc'[g] \in {"save_routing", "save_action", "save_close"}
               PROVE  /\ snap'[g].state # NoApproval
                      /\ db[on'[g]].verdict # NoVerdict
                      /\ InPlay(snap'[g].state) /\ mem'[on'[g]].verdict # "ALLOW"
                           => Reworked(snap'[g].actions)
                      /\ snap'[g].state = "CLOSED" => db[on'[g]].analysed
    BY DEF SnapshotsAreSafe
  <2>1. \A t \in Trades : mem'[t].verdict = mem[t].verdict
    BY <1>1
  <2>2. CASE pc'[g] = pc[g] /\ on'[g] = on[g] /\ snap'[g] = snap[g]
    <3>1. on[g] \in Trades
      BY <2>2 DEF TypeOK
    <3> QED
      BY <2>1, <2>2, <3>1 DEF SnapshotsAreSafe
  <2>3. CASE on'[g] = t0 /\ snap'[g] = Snapshot(mem'[t0])
    BY <1>1, <1>2, <1>3, <1>4, <1>5, <2>3
  <2> QED
    BY <2>2, <2>3
<1> QED
  BY <1>6, <1>7, <1>8, <1>9, <1>10, <1>11, <1>12

(***************************************************************************)
(* The steps of a submission.                                              *)
(***************************************************************************)
LEMMA SubmitStep ==
    ASSUME Inductive, TypeOK', NEW h \in Handlers, NEW t0 \in Trades, Submit(h, t0)
    PROVE  Inductive'
<1> USE DEF Inductive
<1>1. /\ pc[h] = "idle" /\ on'[h] = t0 /\ pc'[h] = "save_trade"
      /\ \A g \in Handlers : on[g] # t0
      /\ \A g \in Handlers : g # h => on'[g] = on[g] /\ pc'[g] = pc[g]
      /\ db' = db /\ snap' = snap
      /\ \A t \in Trades : t # t0 => mem'[t] = mem[t]
  BY DEF Submit, Begin, TypeOK
<1>2. mem'[t0] = [EmptyRow EXCEPT !.trade = TRUE] /\ db[t0] = EmptyRow
  BY DEF Submit, TypeOK
<1>3. /\ mem'[t0].trade = TRUE /\ mem'[t0].decided = FALSE
      /\ mem'[t0].analysed = FALSE /\ mem'[t0].verdict = NoVerdict
      /\ mem'[t0].state = NoApproval
  BY <1>2 DEF EmptyRow
<1>4. /\ db[t0].trade = FALSE /\ db[t0].decided = FALSE
      /\ db[t0].analysed = FALSE /\ db[t0].verdict = NoVerdict
      /\ db[t0].state = NoApproval
  BY <1>2 DEF EmptyRow
<1>5. RecordsInOrder'
  <2>1. InOrder(mem'[t0]) /\ InOrder(db[t0])
    BY <1>3, <1>4 DEF InOrder, NoApproval
  <2> QED
    BY <1>1, <2>1 DEF RecordsInOrder, InOrder
<1>6. VetoedTradeNeedsRework'
  BY <1>1, <1>3, <1>4 DEF VetoedTradeNeedsRework, InPlay
<1>7. StoreFollowsMemory'
  BY <1>1, <1>3, <1>4 DEF StoreFollowsMemory, Follows
<1>8. SubmitterIsAlone'
  BY <1>1, <1>3 DEF SubmitterIsAlone, TypeOK
<1>9. SubmissionSoFar'
  BY <1>1, <1>3, <1>4 DEF SubmissionSoFar, Submitted, TypeOK
<1>10. ClosingSoFar'
  BY <1>1, <1>2 DEF ClosingSoFar, TypeOK
<1>11. SnapshotsAreSafe'
  BY <1>1, <1>2 DEF SnapshotsAreSafe, TypeOK
<1> QED
  BY <1>5, <1>6, <1>7, <1>8, <1>9, <1>10, <1>11

(***************************************************************************)
(* The trade becomes durable.                                              *)
(***************************************************************************)
LEMMA TradeSavedStep ==
    ASSUME Inductive, TypeOK', NEW h \in Handlers, NEW t0 \in Trades,
           on[h] = t0, TradeSaved(h)
    PROVE  Inductive'
<1> USE DEF Inductive
<1>1. /\ pc[h] = "save_trade" /\ pc'[h] = "deliberate"
      /\ \A g \in Handlers : g # h => pc'[g] = pc[g]
      /\ on' = on /\ mem' = mem /\ snap' = snap
  BY DEF TradeSaved, Await, TypeOK
<1>2. /\ db'[t0].trade
      /\ db'[t0].decided = db[t0].decided
      /\ db'[t0].verdict = db[t0].verdict
      /\ db'[t0].state = db[t0].state
      /\ db'[t0].actions = db[t0].actions
      /\ db'[t0].analysed = db[t0].analysed
      /\ \A t \in Trades : t # t0 => db'[t] = db[t]
  BY <1>1 DEF TradeSaved, TypeOK, Rows
<1>3. /\ mem[t0].trade /\ mem[t0].state = NoApproval
      /\ \A g \in Handlers : g # h => on[g] # t0
  BY <1>1 DEF SubmissionSoFar, Submitted, SubmitterIsAlone
<1>4. RecordsInOrder'
  <2>1. InOrder(mem'[t0]) /\ InOrder(db'[t0])
    BY <1>1, <1>2, <1>3 DEF RecordsInOrder, InOrder
  <2>2. \A t \in Trades : t # t0 => mem'[t] = mem[t] /\ db'[t] = db[t]
    BY <1>1, <1>2, <1>3
  <2> QED
    BY <2>1, <2>2 DEF RecordsInOrder
<1>5. VetoedTradeNeedsRework'
  BY <1>1, <1>2, <1>3 DEF VetoedTradeNeedsRework
<1>6. StoreFollowsMemory'
  <2>1. Follows(db'[t0], mem'[t0])
    BY <1>1, <1>2, <1>3 DEF StoreFollowsMemory, Follows
  <2>2. \A t \in Trades : t # t0 => mem'[t] = mem[t] /\ db'[t] = db[t]
    BY <1>1, <1>2, <1>3
  <2> QED
    BY <2>1, <2>2 DEF StoreFollowsMemory
<1>7. SubmitterIsAlone'
  BY <1>1, <1>2, <1>3 DEF SubmitterIsAlone, TypeOK
<1>8. SubmissionSoFar'
  <2>1. Submitted(pc'[h], mem'[t0], db'[t0])
    BY <1>1, <1>2, <1>3 DEF SubmissionSoFar, Submitted
  <2>2. ASSUME NEW g \in Handlers, g # h
        PROVE  Submitted(pc'[g], mem'[on'[g]], db'[on'[g]])
    <3>1. CASE on[g] = t0
      BY <1>1, <1>2, <1>3, <2>2, <3>1 DEF SubmissionSoFar, Submitted
    <3>2. CASE on[g] \in Trades /\ on[g] # t0
      BY <1>1, <1>2, <1>3, <2>2, <3>2 DEF SubmissionSoFar
    <3>3. CASE on[g] \notin Trades
      BY <1>1, <1>2, <1>3, <2>2, <3>3 DEF Submitted, TypeOK
    <3> QED
      BY <3>1, <3>2, <3>3
  <2> QED
    BY <1>1, <2>1, <2>2 DEF SubmissionSoFar
<1>9. ClosingSoFar'
  BY <1>1, <1>2, <1>3 DEF ClosingSoFar, TypeOK
<1>10. SnapshotsAreSafe'
  BY <1>1, <1>2, <1>3 DEF SnapshotsAreSafe, TypeOK
<1> QED
  BY <1>4, <1>5, <1>6, <1>7, <1>8, <1>9, <1>10

(***************************************************************************)
(* The committee answers: the decision enters memory, its trade being      *)
(* durable.                                                                *)
(***************************************************************************)
LEMMA DeliberatedStep ==
    ASSUME Inductive, TypeOK', NEW h \in Handlers, NEW t0 \in Trades,
           on[h] = t0, Deliberated(h)
    PROVE  Inductive'
<1> USE DEF Inductive
<1>1. /\ pc[h] = "deliberate" /\ pc'[h] = "save_decision"
      /\ \A g \in Handlers : g # h => pc'[g] = pc[g]
      /\ on' = on /\ db' = db /\ snap' = snap
  BY DEF Deliberated, Await, TypeOK
<1>2. /\ mem'[t0].decided
      /\ mem'[t0].trade = mem[t0].trade
      /\ mem'[t0].verdict = mem[t0].verdict
      /\ mem'[t0].state = mem[t0].state
      /\ mem'[t0].actions = mem[t0].actions
      /\ mem'[t0].analysed = mem[t0].analysed
      /\ \A t \in Trades : t # t0 => mem'[t] = mem[t]
  BY <1>1 DEF Deliberated, TypeOK, Rows
<1>3. /\ mem[t0].trade /\ mem[t0].state = NoApproval
      /\ \A g \in Handlers : g # h => on[g] # t0
  BY <1>1 DEF SubmissionSoFar, Submitted, SubmitterIsAlone
<1>4. RecordsInOrder'
  <2>1. InOrder(mem'[t0]) /\ InOrder(db'[t0])
    BY <1>1, <1>2, <1>3 DEF RecordsInOrder, InOrder
  <2>2. \A t \in Trades : t # t0 => mem'[t] = mem[t] /\ db'[t] = db[t]
    BY <1>1, <1>2, <1>3
  <2> QED
    BY <2>1, <2>2 DEF RecordsInOrder
<1>5. VetoedTradeNeedsRework'
  BY <1>1, <1>2, <1>3 DEF VetoedTradeNeedsRework
<1>6. StoreFollowsMemory'
  <2>1. Follows(db'[t0], mem'[t0])
    BY <1>1, <1>2, <1>3 DEF StoreFollowsMemory, Follows
  <2>2. \A t \in Trades : t # t0 => mem'[t] = mem[t] /\ db'[t] = db[t]
    BY <1>1, <1>2, <1>3
  <2> QED
    BY <2>1, <2>2 DEF StoreFollowsMemory
<1>7. SubmitterIsAlone'
  BY <1>1, <1>2, <1>3 DEF SubmitterIsAlone, TypeOK
<1>8. SubmissionSoFar'
  <2>1. Submitted(pc'[h], mem'[t0], db'[t0])
    BY <1>1, <1>2, <1>3 DEF SubmissionSoFar, Submitted
  <2>2. ASSUME NEW g \in Handlers, g # h
        PROVE  Submitted(pc'[g], mem'[on'[g]], db'[on'[g]])
    <3>1. CASE on[g] = t0
      BY <1>1, <1>2, <1>3, <2>2, <3>1 DEF SubmissionSoFar, Submitted
    <3>2. CASE on[g] \in Trades /\ on[g] # t0
      BY <1>1, <1>2, <1>3, <2>2, <3>2 DEF SubmissionSoFar
    <3>3. CASE on[g] \notin Trades
      BY <1>1, <1>2, <1>3, <2>2, <3>3 DEF Submitted, TypeOK
    <3> QED
      BY <3>1, <3>2, <3>3
  <2> QED
    BY <1>1, <2>1, <2>2 DEF SubmissionSoFar
<1>9. ClosingSoFar'
  BY <1>1, <1>2, <1>3 DEF ClosingSoFar, TypeOK
<1>10. SnapshotsAreSafe'
  BY <1>1, <1>2, <1>3 DEF SnapshotsAreSafe, TypeOK
<1> QED
  BY <1>4, <1>5, <1>6, <1>7, <1>8, <1>9, <1>10

(***************************************************************************)
(* The decision becomes durable and the governor's verdict enters memory.  *)
(***************************************************************************)
LEMMA DecisionSavedStep ==
    ASSUME Inductive, TypeOK', NEW h \in Handlers, NEW t0 \in Trades,
           on[h] = t0, DecisionSaved(h)
    PROVE  Inductive'
<1> USE DEF Inductive
<1>1. /\ pc[h] = "save_decision" /\ pc'[h] = "save_check"
      /\ \A g \in Handlers : g # h => pc'[g] = pc[g]
      /\ on' = on /\ snap' = snap
  BY DEF DecisionSaved, Await, TypeOK
<1> DEFINE v == Verdict(SubmissionContext(t0))
<1>2. /\ db'[t0].decided
      /\ db'[t0].trade = db[t0].trade
      /\ db'[t0].verdict = db[t0].verdict
      /\ db'[t0].state = db[t0].state
      /\ db'[t0].actions = db[t0].actions
      /\ db'[t0].analysed = db[t0].analysed
      /\ \A t \in Trades : t # t0 => db'[t] = db[t]
  BY <1>1 DEF DecisionSaved, TypeOK, Rows
<1>3. /\ mem'[t0].verdict = v
      /\ mem'[t0].trade = mem[t0].trade
      /\ mem'[t0].decided = mem[t0].decided
      /\ mem'[t0].state = mem[t0].state
      /\ mem'[t0].actions = mem[t0].actions
      /\ mem'[t0].analysed = mem[t0].analysed
      /\ \A t \in Trades : t # t0 => mem'[t] = mem[t]
  BY <1>1 DEF DecisionSaved, TypeOK, Rows
<1>4. v # NoVerdict
  BY SubmissionVerdict DEF Verdicts, NoVerdict
<1> HIDE DEF v
<1>5. /\ mem[t0].trade /\ mem[t0].state = NoApproval
      /\ \A g \in Handlers : g # h => on[g] # t0
      /\ mem[t0].decided /\ db[t0].trade
      /\ mem[t0].verdict = NoVerdict /\ db[t0].verdict = NoVerdict
  BY <1>1 DEF SubmissionSoFar, Submitted, SubmitterIsAlone
<1>6. RecordsInOrder'
  <2>1. InOrder(mem'[t0]) /\ InOrder(db'[t0])
    BY <1>1, <1>2, <1>3, <1>4, <1>5 DEF RecordsInOrder, InOrder
  <2>2. \A t \in Trades : t # t0 => mem'[t] = mem[t] /\ db'[t] = db[t]
    BY <1>1, <1>2, <1>3, <1>4, <1>5
  <2> QED
    BY <2>1, <2>2 DEF RecordsInOrder
<1>7. VetoedTradeNeedsRework'
  BY <1>1, <1>2, <1>3, <1>4, <1>5 DEF VetoedTradeNeedsRework, RecordsInOrder, InOrder, InPlay
<1>8. StoreFollowsMemory'
  <2>1. Follows(db'[t0], mem'[t0])
    BY <1>1, <1>2, <1>3, <1>4, <1>5 DEF StoreFollowsMemory, Follows
  <2>2. \A t \in Trades : t # t0 => mem'[t] = mem[t] /\ db'[t] = db[t]
    BY <1>1, <1>2, <1>3, <1>4, <1>5
  <2> QED
    BY <2>1, <2>2 DEF StoreFollowsMemory
<1>9. SubmitterIsAlone'
  BY <1>1, <1>2, <1>3, <1>4, <1>5 DEF SubmitterIsAlone, TypeOK
<1>10. SubmissionSoFar'
  <2>1. Submitted(pc'[h], mem'[t0], db'[t0])
    BY <1>1, <1>2, <1>3, <1>4, <1>5 DEF SubmissionSoFar, Submitted
  <2>2. ASSUME NEW g \in Handlers, g # h
        PROVE  Submitted(pc'[g], mem'[on'[g]], db'[on'[g]])
    <3>1. CASE on[g] = t0
      BY <1>1, <1>2, <1>3, <1>4, <1>5, <2>2, <3>1 DEF SubmissionSoFar, Submitted
    <3>2. CASE on[g] \in Trades /\ on[g] # t0
      BY <1>1, <1>2, <1>3, <1>4, <1>5, <2>2, <3>2 DEF SubmissionSoFar
    <3>3. CASE on[g] \notin Trades
      BY <1>1, <1>2, <1>3, <1>4, <1>5, <2>2, <3>3 DEF Submitted, TypeOK
    <3> QED
      BY <3>1, <3>2, <3>3
  <2> QED
    BY <1>1, <2>1, <2>2 DEF SubmissionSoFar
<1>11. ClosingSoFar'
  BY <1>1, <1>2, <1>3, <1>4, <1>5 DEF ClosingSoFar, TypeOK
<1>12. SnapshotsAreSafe'
  BY <1>1, <1>2, <1>3, <1>4, <1>5 DEF SnapshotsAreSafe, TypeOK
<1> QED
  BY <1>6, <1>7, <1>8, <1>9, <1>10, <1>11, <1>12

(***************************************************************************)
(* The risk check becomes durable, with the verdict memory holds.          *)
(***************************************************************************)
LEMMA CheckSavedStep ==
    ASSUME Inductive, TypeOK', NEW h \in Handlers, NEW t0 \in Trades,
           on[h] = t0, CheckSaved(h)
    PROVE  Inductive'
<1> USE DEF Inductive
<1>1. /\ pc[h] = "save_check" /\ pc'[h] = "consult_cia"
      /\ \A g \in Handlers : g # h => pc'[g] = pc[g]
      /\ on' = on /\ mem' = mem /\ snap' = snap
  BY DEF CheckSaved, Await, TypeOK
<1>2. /\ db'[t0].verdict = mem[t0].verdict
      /\ db'[t0].trade = db[t0].trade
      /\ db'[t0].decided = db[t0].decided
      /\ db'[t0].state = db[t0].state
      /\ db'[t0].actions = db[t0].actions
      /\ db'[t0].analysed = db[t0].analysed
      /\ \A t \in Trades : t # t0 => db'[t] = db[t]
  BY <1>1 DEF CheckSaved, TypeOK, Rows
<1>3. /\ mem[t0].trade /\ mem[t0].state = NoApproval
      /\ \A g \in Handlers : g # h => on[g] # t0
      /\ mem[t0].verdict # NoVerdict /\ db[t0].decided
      /\ db[t0].verdict = NoVerdict
  BY <1>1 DEF SubmissionSoFar, Submitted, SubmitterIsAlone
<1>4. RecordsInOrder'
  <2>1. InOrder(mem'[t0]) /\ InOrder(db'[t0])
    BY <1>1, <1>2, <1>3 DEF RecordsInOrder, InOrder
  <2>2. \A t \in Trades : t # t0 => mem'[t] = mem[t] /\ db'[t] = db[t]
    BY <1>1, <1>2, <1>3
  <2> QED
    BY <2>1, <2>2 DEF RecordsInOrder
<1>5. VetoedTradeNeedsRework'
  BY <1>1, <1>2, <1>3 DEF VetoedTradeNeedsRework, RecordsInOrder, InOrder, InPlay
<1>6. StoreFollowsMemory'
  <2>1. Follows(db'[t0], mem'[t0])
    BY <1>1, <1>2, <1>3 DEF StoreFollowsMemory, Follows
  <2>2. \A t \in Trades : t # t0 => mem'[t] = mem[t] /\ db'[t] = db[t]
    BY <1>1, <1>2, <1>3
  <2> QED
    BY <2>1, <2>2 DEF StoreFollowsMemory
<1>7. SubmitterIsAlone'
  BY <1>1, <1>2, <1>3 DEF SubmitterIsAlone, TypeOK
<1>8. SubmissionSoFar'
  <2>1. Submitted(pc'[h], mem'[t0], db'[t0])
    BY <1>1, <1>2, <1>3 DEF SubmissionSoFar, Submitted
  <2>2. ASSUME NEW g \in Handlers, g # h
        PROVE  Submitted(pc'[g], mem'[on'[g]], db'[on'[g]])
    <3>1. CASE on[g] = t0
      BY <1>1, <1>2, <1>3, <2>2, <3>1 DEF SubmissionSoFar, Submitted
    <3>2. CASE on[g] \in Trades /\ on[g] # t0
      BY <1>1, <1>2, <1>3, <2>2, <3>2 DEF SubmissionSoFar
    <3>3. CASE on[g] \notin Trades
      BY <1>1, <1>2, <1>3, <2>2, <3>3 DEF Submitted, TypeOK
    <3> QED
      BY <3>1, <3>2, <3>3
  <2> QED
    BY <1>1, <2>1, <2>2 DEF SubmissionSoFar
<1>9. ClosingSoFar'
  BY <1>1, <1>2, <1>3 DEF ClosingSoFar, TypeOK
<1>10. SnapshotsAreSafe'
  BY <1>1, <1>2, <1>3 DEF SnapshotsAreSafe, TypeOK
<1> QED
  BY <1>4, <1>5, <1>6, <1>7, <1>8, <1>9, <1>10

(***************************************************************************)
(* The approval appears, in RISK_REVIEW unless the verdict is ALLOW, and a *)
(* save of it starts.                                                      *)
(***************************************************************************)
LEMMA RoutedStep ==
    ASSUME Inductive, TypeOK', NEW h \in Handlers, NEW t0 \in Trades,
           on[h] = t0, Routed(h)
    PROVE  Inductive'
<1> USE DEF Inductive
<1>1. /\ pc[h] = "consult_cia" /\ pc'[h] = "save_routing"
      /\ \A g \in Handlers : g # h => pc'[g] = pc[g]
      /\ on' = on /\ db' = db
  BY DEF Routed, Await, TypeOK
<1>2. PICK forward \in BOOLEAN :
        LET s == InitialState(mem[t0].verdict, forward) IN
        /\ mem' = [mem EXCEPT ![t0].state = s]
        /\ snap' = [snap EXCEPT ![h] = [state |-> s, actions |-> << >>]]
  BY DEF Routed
<1> DEFINE s == InitialState(mem[t0].verdict, forward)
<1>3. /\ s # NoApproval /\ s # "CLOSED"
      /\ InPlay(s) => mem[t0].verdict = "ALLOW"
  BY DEF InitialState, InPlay, NoApproval
<1>4. /\ mem'[t0].state = s
      /\ mem'[t0].trade = mem[t0].trade
      /\ mem'[t0].decided = mem[t0].decided
      /\ mem'[t0].verdict = mem[t0].verdict
      /\ mem'[t0].actions = mem[t0].actions
      /\ mem'[t0].analysed = mem[t0].analysed
      /\ \A t \in Trades : t # t0 => mem'[t] = mem[t]
  BY <1>1, <1>2 DEF TypeOK, Rows
<1>5. /\ snap'[h].state = s
      /\ \A g \in Handlers : g # h => snap'[g] = snap[g]
  BY <1>2 DEF TypeOK
<1> HIDE DEF s
<1>6. /\ mem[t0].trade /\ mem[t0].state = NoApproval
      /\ \A g \in Handlers : g # h => on[g] # t0
      /\ db[t0].verdict # NoVerdict
  BY <1>1 DEF SubmissionSoFar, Submitted, SubmitterIsAlone
<1>7. db[t0].verdict = mem[t0].verdict
  BY <1>6 DEF StoreFollowsMemory, Follows
<1>8. RecordsInOrder'
  <2>1. InOrder(mem'[t0]) /\ InOrder(db'[t0])
    BY <1>1, <1>3, <1>4, <1>5, <1>6, <1>7 DEF RecordsInOrder, InOrder
  <2>2. \A t \in Trades : t # t0 => mem'[t] = mem[t] /\ db'[t] = db[t]
    BY <1>1, <1>3, <1>4, <1>5, <1>6, <1>7
  <2> QED
    BY <2>1, <2>2 DEF RecordsInOrder
<1>9. VetoedTradeNeedsRework'
  BY <1>1, <1>3, <1>4, <1>5, <1>6, <1>7 DEF VetoedTradeNeedsRework
<1>10. StoreFollowsMemory'
  <2>1. Follows(db'[t0], mem'[t0])
    BY <1>1, <1>3, <1>4, <1>5, <1>6, <1>7 DEF StoreFollowsMemory, Follows
  <2>2. \A t \in Trades : t # t0 => mem'[t] = mem[t] /\ db'[t] = db[t]
    BY <1>1, <1>3, <1>4, <1>5, <1>6, <1>7
  <2> QED
    BY <2>1, <2>2 DEF StoreFollowsMemory
<1>11. SubmitterIsAlone'
  BY <1>1, <1>3, <1>4, <1>5, <1>6, <1>7 DEF SubmitterIsAlone, TypeOK
<1>12. SubmissionSoFar'
  <2>1. Submitted(pc'[h], mem'[t0], db'[t0])
    BY <1>1, <1>3, <1>4, <1>5, <1>6, <1>7 DEF SubmissionSoFar, Submitted
  <2>2. ASSUME NEW g \in Handlers, g # h
        PROVE  Submitted(pc'[g], mem'[on'[g]], db'[on'[g]])
    <3>1. CASE on[g] = t0
      BY <1>1, <1>3, <1>4, <1>5, <1>6, <1>7, <2>2, <3>1 DEF SubmissionSoFar, Submitted
    <3>2. CASE on[g] \in Trades /\ on[g] # t0
      BY <1>1, <1>3, <1>4, <1>5, <1>6, <1>7, <2>2, <3>2 DEF SubmissionSoFar
    <3>3. CASE on[g] \notin Trades
      BY <1>1, <1>3, <1>4, <1>5, <1>6, <1>7, <2>2, <3>3 DEF Submitted, TypeOK
    <3> QED
      BY <3>1, <3>2, <3>3
  <2> QED
    BY <1>1, <2>1, <2>2 DEF SubmissionSoFar
<1>13. ClosingSoFar'
  BY <1>1, <1>3, <1>4, <1>5, <1>6, <1>7 DEF ClosingSoFar, TypeOK
<1>14. SnapshotsAreSafe'
  BY <1>1, <1>3, <1>4, <1>5, <1>6, <1>7 DEF SnapshotsAreSafe, TypeOK
<1> QED
  BY <1>8, <1>9, <1>10, <1>11, <1>12, <1>13, <1>14

(***************************************************************************)
(* The steps of a closing that touch what the invariant looks at.          *)
(***************************************************************************)
LEMMA CloseStep ==
    ASSUME Inductive, TypeOK', NEW h \in Handlers, NEW t0 \in Trades, Close(h, t0)
    PROVE  Inductive'
<1> USE DEF Inductive
<1>1. /\ pc[h] = "idle" /\ pc'[h] = "publish_close" /\ on'[h] = t0
      /\ \A g \in Handlers : g # h => pc'[g] = pc[g] /\ on'[g] = on[g]
      /\ mem' = mem /\ db' = db /\ snap' = snap
  BY DEF Close, Begin, TypeOK
<1>2. mem[t0].state # NoApproval
  BY DEF Close, NoApproval
<1>3. RecordsInOrder' /\ VetoedTradeNeedsRework' /\ StoreFollowsMemory'
  BY <1>1 DEF RecordsInOrder, VetoedTradeNeedsRework, StoreFollowsMemory
<1>4. SubmitterIsAlone'
  BY <1>1, <1>2 DEF SubmitterIsAlone, TypeOK
<1>5. SubmissionSoFar'
  BY <1>1 DEF SubmissionSoFar, Submitted, TypeOK
<1>6. ClosingSoFar'
  BY <1>1, <1>2 DEF ClosingSoFar, TypeOK
<1>7. SnapshotsAreSafe'
  BY <1>1 DEF SnapshotsAreSafe, TypeOK
<1> QED
  BY <1>3, <1>4, <1>5, <1>6, <1>7

(***************************************************************************)
(* A closing records its analysis in memory.                               *)
(***************************************************************************)
LEMMA ClosePublishedStep ==
    ASSUME Inductive, TypeOK', NEW h \in Handlers, NEW t0 \in Trades,
           on[h] = t0, ClosePublished(h)
    PROVE  Inductive'
<1> USE DEF Inductive
<1>1. /\ pc[h] = "publish_close" /\ pc'[h] = "save_analysis"
      /\ \A g \in Handlers : g # h => pc'[g] = pc[g]
      /\ on' = on /\ db' = db /\ snap' = snap
  BY DEF ClosePublished, Await, TypeOK
<1>2. /\ mem'[t0].analysed
      /\ mem'[t0].trade = mem[t0].trade
      /\ mem'[t0].decided = mem[t0].decided
      /\ mem'[t0].verdict = mem[t0].verdict
      /\ mem'[t0].state = mem[t0].state
      /\ mem'[t0].actions = mem[t0].actions
      /\ \A t \in Trades : t # t0 => mem'[t] = mem[t]
  BY <1>1 DEF ClosePublished, TypeOK, Rows
<1>3. mem[t0].state # NoApproval
  BY <1>1 DEF ClosingSoFar
<1>4. RecordsInOrder'
  <2>1. InOrder(mem'[t0]) /\ InOrder(db'[t0])
    BY <1>1, <1>2, <1>3 DEF RecordsInOrder, InOrder
  <2>2. \A t \in Trades : t # t0 => mem'[t] = mem[t] /\ db'[t] = db[t]
    BY <1>1, <1>2, <1>3
  <2> QED
    BY <2>1, <2>2 DEF RecordsInOrder
<1>5. VetoedTradeNeedsRework'
  BY <1>1, <1>2, <1>3 DEF VetoedTradeNeedsRework
<1>6. StoreFollowsMemory'
  <2>1. Follows(db'[t0], mem'[t0])
    BY <1>1, <1>2, <1>3 DEF StoreFollowsMemory, Follows
  <2>2. \A t \in Trades : t # t0 => mem'[t] = mem[t] /\ db'[t] = db[t]
    BY <1>1, <1>2, <1>3
  <2> QED
    BY <2>1, <2>2 DEF StoreFollowsMemory
<1>7. SubmitterIsAlone'
  BY <1>1, <1>2, <1>3 DEF SubmitterIsAlone, TypeOK
<1>8. SubmissionSoFar'
  <2>1. Submitted(pc'[h], mem'[t0], db'[t0])
    BY <1>1, <1>2, <1>3 DEF SubmissionSoFar, Submitted
  <2>2. ASSUME NEW g \in Handlers, g # h
        PROVE  Submitted(pc'[g], mem'[on'[g]], db'[on'[g]])
    <3>1. CASE on[g] = t0
      BY <1>1, <1>2, <1>3, <2>2, <3>1 DEF SubmissionSoFar, Submitted
    <3>2. CASE on[g] \in Trades /\ on[g] # t0
      BY <1>1, <1>2, <1>3, <2>2, <3>2 DEF SubmissionSoFar
    <3>3. CASE on[g] \notin Trades
      BY <1>1, <1>2, <1>3, <2>2, <3>3 DEF Submitted, TypeOK
    <3> QED
      BY <3>1, <3>2, <3>3
  <2> QED
    BY <1>1, <2>1, <2>2 DEF SubmissionSoFar
<1>9. ClosingSoFar'
  BY <1>1, <1>2, <1>3 DEF ClosingSoFar, TypeOK
<1>10. SnapshotsAreSafe'
  BY <1>1, <1>2, <1>3 DEF SnapshotsAreSafe, TypeOK
<1> QED
  BY <1>4, <1>5, <1>6, <1>7, <1>8, <1>9, <1>10

(***************************************************************************)
(* The analysis becomes durable, the approval is CLOSED and a save of it   *)
(* starts, whatever happened to it during the awaits.                      *)
(***************************************************************************)
LEMMA AnalysisSavedStep ==
    ASSUME Inductive, TypeOK', NEW h \in Handlers, NEW t0 \in Trades,
           on[h] = t0, AnalysisSaved(h)
    PROVE  Inductive'
<1> USE DEF Inductive
<1>1. /\ pc[h] = "save_analysis" /\ pc'[h] = "save_close"
      /\ \A g \in Handlers : g # h => pc'[g] = pc[g]
      /\ on' = on
  BY DEF AnalysisSaved, Await, TypeOK
<1>2. /\ mem'[t0].state = "CLOSED"
      /\ mem'[t0].trade = mem[t0].trade
      /\ mem'[t0].decided = mem[t0].decided
      /\ mem'[t0].verdict = mem[t0].verdict
      /\ mem'[t0].actions = mem[t0].actions
      /\ mem'[t0].analysed = mem[t0].analysed
      /\ \A t \in Trades : t # t0 => mem'[t] = mem[t]
  BY <1>1 DEF AnalysisSaved, TypeOK, Rows
<1>3. /\ db'[t0].analysed
      /\ db'[t0].trade = db[t0].trade
      /\ db'[t0].decided = db[t0].decided
      /\ db'[t0].verdict = db[t0].verdict
      /\ db'[t0].state = db[t0].state
      /\ db'[t0].actions = db[t0].actions
      /\ \A t \in Trades : t # t0 => db'[t] = db[t]
  BY <1>1 DEF AnalysisSaved, TypeOK, Rows
<1>4. /\ snap'[h].state = "CLOSED"
      /\ \A g \in Handlers : g # h => snap'[g] = snap[g]
  <2>1. snap'[h] = Snapshot(mem'[t0]) /\ \A g \in Handlers : g # h => snap'[g] = snap[g]
    BY DEF AnalysisSaved, TypeOK
  <2> QED
    BY <1>2, <2>1 DEF Snapshot
<1>5. mem[t0].analysed /\ mem[t0].state # NoApproval /\ ~InPlay("CLOSED")
  BY <1>1 DEF ClosingSoFar, InPlay, Terminal
<1>6. "CLOSED" # NoApproval /\ db[t0].verdict # NoVerdict
  BY <1>5 DEF StoreFollowsMemory, Follows, NoApproval
<1>7. RecordsInOrder'
  <2>1. InOrder(mem'[t0]) /\ InOrder(db'[t0])
    BY <1>1, <1>2, <1>3, <1>4, <1>5, <1>6 DEF RecordsInOrder, InOrder
  <2>2. \A t \in Trades : t # t0 => mem'[t] = mem[t] /\ db'[t] = db[t]
    BY <1>1, <1>2, <1>3, <1>4, <1>5, <1>6
  <2> QED
    BY <2>1, <2>2 DEF RecordsInOrder
<1>8. VetoedTradeNeedsRework'
  BY <1>1, <1>2, <1>3, <1>4, <1>5, <1>6 DEF VetoedTradeNeedsRework
<1>9. StoreFollowsMemory'
  <2>1. Follows(db'[t0], mem'[t0])
    BY <1>1, <1>2, <1>3, <1>4, <1>5, <1>6 DEF StoreFollowsMemory, Follows
  <2>2. \A t \in Trades : t # t0 => mem'[t] = mem[t] /\ db'[t] = db[t]
    BY <1>1, <1>2, <1>3, <1>4, <1>5, <1>6
  <2> QED
    BY <2>1, <2>2 DEF StoreFollowsMemory
<1>10. SubmitterIsAlone'
  BY <1>1, <1>2, <1>3, <1>4, <1>5, <1>6 DEF SubmitterIsAlone, TypeOK
<1>11. SubmissionSoFar'
  <2>1. Submitted(pc'[h], mem'[t0], db'[t0])
    BY <1>1, <1>2, <1>3, <1>4, <1>5, <1>6 DEF SubmissionSoFar, Submitted
  <2>2. ASSUME NEW g \in Handlers, g # h
        PROVE  Submitted(pc'[g], mem'[on'[g]], db'[on'[g]])
    <3>1. CASE on[g] = t0
      BY <1>1, <1>2, <1>3, <1>4, <1>5, <1>6, <2>2, <3>1 DEF SubmissionSoFar, Submitted
    <3>2. CASE on[g] \in Trades /\ on[g] # t0
      BY <1>1, <1>2, <1>3, <1>4, <1>5, <1>6, <2>2, <3>2 DEF SubmissionSoFar
    <3>3. CASE on[g] \notin Trades
      BY <1>1, <1>2, <1>3, <1>4, <1>5, <1>6, <2>2, <3>3 DEF Submitted, TypeOK
    <3> QED
      BY <3>1, <3>2, <3>3
  <2> QED
    BY <1>1, <2>1, <2>2 DEF SubmissionSoFar
<1>12. ClosingSoFar'
  <2>1. \A t \in Trades : /\ mem[t].state # NoApproval => mem'[t].state # NoApproval
                          /\ mem'[t].analysed = mem[t].analysed
    BY <1>2, <1>6
  <2> QED
    BY <1>1, <2>1 DEF ClosingSoFar, TypeOK
<1>13. SnapshotsAreSafe'
  BY <1>1, <1>2, <1>3, <1>4, <1>5, <1>6 DEF SnapshotsAreSafe, TypeOK
<1> QED
  BY <1>7, <1>8, <1>9, <1>10, <1>11, <1>12, <1>13

(***************************************************************************)
(* A restart: memory becomes what the store holds.                         *)
(***************************************************************************)
LEMMA RestartStep ==
    ASSUME Inductive, TypeOK', Restart
    PROVE  Inductive'
<1> USE DEF Inductive
<1>1. /\ mem' = db /\ db' = db
      /\ \A h \in Handlers : pc'[h] = "idle"
  BY DEF Restart
<1>2. RecordsInOrder'
  BY <1>1 DEF RecordsInOrder
<1>3. VetoedTradeNeedsRework'
  BY <1>1 DEF VetoedTradeNeedsRework
<1>4. StoreFollowsMemory'
  BY <1>1 DEF RecordsInOrder, InOrder, StoreFollowsMemory, Follows
<1>5. SubmitterIsAlone' /\ SubmissionSoFar' /\ ClosingSoFar' /\ SnapshotsAreSafe'
  BY <1>1 DEF SubmitterIsAlone, SubmissionSoFar, Submitted, ClosingSoFar, SnapshotsAreSafe
<1> QED
  BY <1>2, <1>3, <1>4, <1>5

(***************************************************************************)
(* Every step of the system keeps the invariant.                           *)
(***************************************************************************)
LEMMA InductiveNext ==
    ASSUME Inductive, [Next]_vars
    PROVE  Inductive'
<1>1. TypeOK /\ TypeOK'
  BY TypeNext DEF Inductive
<1>2. ASSUME NEW h \in Handlers, pc[h] # "idle"
      PROVE  on[h] \in Trades
  BY <1>1, <1>2 DEF TypeOK
<1>3. ASSUME NEW h \in Handlers, NEW t \in Trades, Submit(h, t)
      PROVE  Inductive'
  BY <1>1, <1>3, SubmitStep
<1>4. ASSUME NEW h \in Handlers, TradeSaved(h)
      PROVE  Inductive'
  BY <1>1, <1>2, <1>4, TradeSavedStep DEF TradeSaved, Await
<1>5. ASSUME NEW h \in Handlers, Deliberated(h)
      PROVE  Inductive'
  BY <1>1, <1>2, <1>5, DeliberatedStep DEF Deliberated, Await
<1>6. ASSUME NEW h \in Handlers, DecisionSaved(h)
      PROVE  Inductive'
  BY <1>1, <1>2, <1>6, DecisionSavedStep DEF DecisionSaved, Await
<1>7. ASSUME NEW h \in Handlers, CheckSaved(h)
      PROVE  Inductive'
  BY <1>1, <1>2, <1>7, CheckSavedStep DEF CheckSaved, Await
<1>8. ASSUME NEW h \in Handlers, Routed(h)
      PROVE  Inductive'
  BY <1>1, <1>2, <1>8, RoutedStep DEF Routed, Await
<1>9. ASSUME NEW h \in Handlers, RoutingSaved(h)
      PROVE  Inductive'
  <2>1. \A t \in Trades : Agree(mem[t], mem'[t])
    BY <1>1, <1>9 DEF RoutingSaved, TypeOK, Rows, Agree
  <2> QED
    BY <1>1, <1>9, <2>1, SnapshotStep DEF RoutingSaved, Await, TypeOK, Unburdened
<1>10. ASSUME NEW h \in Handlers, SubmissionJournaled(h)
       PROVE  Inductive'
  <2>1. \A t \in Trades : Agree(mem[t], mem'[t]) /\ Agree(db[t], db'[t])
    BY <1>1, <1>10 DEF SubmissionJournaled, TypeOK, Rows, Agree
  <2> QED
    BY <1>1, <1>10, <2>1, HarmlessStep DEF SubmissionJournaled, Finish, TypeOK, Unburdened
<1>11. ASSUME NEW h \in Handlers, NEW t \in Trades, NEW a \in HumanActions,
              ActOnApproval(h, t, a)
       PROVE  Inductive'
  <2>1. /\ Target(a) \in ApprovalStates /\ a \in ApprovalActions
        /\ Target(a) # "CLOSED" /\ (InPlay(Target(a)) => a \in Rework \/ a = "APPROVE")
    BY ActionAssumption, TransitionTypes DEF Target, InPlay, Terminal, Rework
  <2>2. \A g \in Handlers :
           \/ pc'[g] = pc[g] /\ on'[g] = on[g] /\ snap'[g] = snap[g]
           \/ /\ pc[g] = "idle" /\ pc'[g] = "save_action"
              /\ on'[g] = t /\ snap'[g] = Snapshot(mem'[t])
    BY <1>1, <1>11 DEF ActOnApproval, Begin, TypeOK
  <2>3. /\ Actionable(t, a) /\ db' = db
        /\ mem' = [mem EXCEPT ![t] = Logged(t, a, Target(a))]
    BY <1>11 DEF ActOnApproval
  <2> QED
    BY <1>1, <2>1, <2>2, <2>3, ActionStep
<1>12. ASSUME NEW h \in Handlers, NEW t \in Trades, Approve(h, t)
       PROVE  Inductive'
  <2>1. "APPROVE" \in ApprovalActions /\ "EXECUTED_SIMULATION" \in ApprovalStates
    BY DEF ApprovalActions, ApprovalStates
  <2>2. \A g \in Handlers :
           \/ pc'[g] = pc[g] /\ on'[g] = on[g] /\ snap'[g] = snap[g]
           \/ /\ pc[g] = "idle" /\ pc'[g] = "save_action"
              /\ on'[g] = t /\ snap'[g] = Snapshot(mem'[t])
    BY <1>1, <1>12 DEF Approve, Begin, TypeOK
  <2>3. /\ Actionable(t, "APPROVE") /\ db' = db
        /\ mem' = [mem EXCEPT ![t] = Logged(t, "APPROVE", "EXECUTED_SIMULATION")]
    BY <1>12 DEF Approve
  <2> QED
    BY <1>1, <2>1, <2>2, <2>3, ActionStep
<1>13. ASSUME NEW t \in Trades, ApproveRefused(t)
       PROVE  Inductive'
  <2>1. "APPROVE" \in ApprovalActions /\ "APPROVED_FOR_PAPER_TRADING" \in ApprovalStates
    BY DEF ApprovalActions, ApprovalStates
  <2>2. \A g \in Handlers : pc'[g] = pc[g] /\ on'[g] = on[g] /\ snap'[g] = snap[g]
    BY <1>13 DEF ApproveRefused
  <2>3. /\ Actionable(t, "APPROVE") /\ db' = db
        /\ mem' = [mem EXCEPT ![t] = Logged(t, "APPROVE", "APPROVED_FOR_PAPER_TRADING")]
    BY <1>13 DEF ApproveRefused
  <2> QED
    BY <1>1, <2>1, <2>2, <2>3, ActionStep
<1>14. ASSUME NEW h \in Handlers, ActionSaved(h)
       PROVE  Inductive'
  <2>1. \A t \in Trades : Agree(mem[t], mem'[t])
    BY <1>14 DEF ActionSaved, Agree
  <2> QED
    BY <1>1, <1>14, <2>1, SnapshotStep DEF ActionSaved, Finish, TypeOK, Unburdened
<1>15. ASSUME NEW h \in Handlers, NEW t \in Trades, Close(h, t)
       PROVE  Inductive'
  BY <1>1, <1>15, CloseStep
<1>16. ASSUME NEW h \in Handlers, ClosePublished(h)
       PROVE  Inductive'
  BY <1>1, <1>2, <1>16, ClosePublishedStep DEF ClosePublished, Await
<1>17. ASSUME NEW h \in Handlers, AnalysisSaved(h)
       PROVE  Inductive'
  BY <1>1, <1>2, <1>17, AnalysisSavedStep DEF AnalysisSaved, Await
<1>18. ASSUME NEW h \in Handlers, CloseSaved(h)
       PROVE  Inductive'
  <2>1. \A t \in Trades : Agree(mem[t], mem'[t])
    BY <1>1, <1>18 DEF CloseSaved, TypeOK, Rows, Agree
  <2> QED
    BY <1>1, <1>18, <2>1, SnapshotStep DEF CloseSaved, Await, TypeOK, Unburdened
<1>19. ASSUME NEW h \in Handlers, CloseJournaled(h)
       PROVE  Inductive'
  <2>1. \A t \in Trades : Agree(mem[t], mem'[t]) /\ Agree(db[t], db'[t])
    BY <1>1, <1>19 DEF CloseJournaled, TypeOK, Rows, Agree
  <2> QED
    BY <1>1, <1>19, <2>1, HarmlessStep DEF CloseJournaled, Await, TypeOK, Unburdened
<1>20. ASSUME NEW h \in Handlers, MemorySaved(h) \/ Abort(h)
       PROVE  Inductive'
  <2>1. \A t \in Trades : Agree(mem[t], mem'[t]) /\ Agree(db[t], db'[t])
    BY <1>20 DEF MemorySaved, Abort, Agree
  <2> QED
    BY <1>1, <1>20, <2>1, HarmlessStep DEF MemorySaved, Abort, Finish, TypeOK, Unburdened
<1>21. ASSUME \/ \E v \in BOOLEAN : SetHalted(v)
              \/ \E l \in LimitChoices : SetRiskLimits(l)
              \/ UNCHANGED vars
       PROVE  Inductive'
  <2>1. mem' = mem /\ db' = db /\ pc' = pc /\ on' = on /\ snap' = snap
    BY <1>21 DEF SetHalted, SetRiskLimits, vars
  <2> QED
    BY <1>1, <2>1, HarmlessStep DEF Agree
<1>22. ASSUME Restart
       PROVE  Inductive'
  BY <1>1, <1>22, RestartStep
<1> QED
  BY <1>3, <1>4, <1>5, <1>6, <1>7, <1>8, <1>9, <1>10, <1>11, <1>12, <1>13,
     <1>14, <1>15, <1>16, <1>17, <1>18, <1>19, <1>20, <1>21, <1>22
  DEF Next, Progress, Request

(***************************************************************************)
(* The inductive invariant holds in every reachable state.                 *)
(***************************************************************************)
LEMMA AlwaysInductive == Spec => []Inductive
<1>1. Init => Inductive
  BY InductiveInit
<1>2. Inductive /\ [Next]_vars => Inductive'
  BY InductiveNext
<1> QED
  BY <1>1, <1>2, PTL DEF Spec

(***************************************************************************)
(* No record without the records it refers to, in memory or in the store.  *)
(***************************************************************************)
THEOREM RecordsStayInOrder == Spec => []RecordsInOrder
<1>1. Inductive => RecordsInOrder
  BY DEF Inductive
<1> QED
  BY <1>1, AlwaysInductive, PTL

(***************************************************************************)
(* The governor's veto: a refused trade is in play only after rework that  *)
(* the record shows.                                                       *)
(***************************************************************************)
THEOREM VetoNeedsRework == Spec => []VetoedTradeNeedsRework
<1>1. Inductive => VetoedTradeNeedsRework
  BY DEF Inductive
<1> QED
  BY <1>1, AlwaysInductive, PTL

(***************************************************************************)
(* Only a restart takes a trade out of CLOSED: a request that would is     *)
(* refused, and the coroutines still in flight write CLOSED or nothing.    *)
(***************************************************************************)
THEOREM ClosedTradesStayClosed == Spec => ClosedIsFinal
<1> DEFINE kept == crashes' = crashes =>
       \A t \in Trades : mem[t].state = "CLOSED" => mem'[t].state = "CLOSED"
<1>1. ASSUME Inductive, [Next]_vars
      PROVE  kept
  <2> SUFFICES ASSUME crashes' = crashes, NEW t \in Trades, mem[t].state = "CLOSED"
               PROVE  mem'[t].state = "CLOSED"
    OBVIOUS
  <2> USE <1>1 DEF Inductive
  <2>1. TypeOK
    OBVIOUS
  <2>2. ASSUME NEW h \in Handlers, NEW u \in Trades, Submit(h, u)
        PROVE  mem'[t].state = "CLOSED"
    BY <2>1, <2>2 DEF Submit, EmptyRow, NoApproval, TypeOK, Rows
  <2>3. ASSUME NEW h \in Handlers,
               \/ Deliberated(h) \/ DecisionSaved(h) \/ RoutingSaved(h)
               \/ ClosePublished(h) \/ CloseSaved(h)
        PROVE  mem'[t].state = "CLOSED"
    <3>1. CASE Deliberated(h)
      BY <2>1, <3>1 DEF Deliberated, TypeOK, Rows
    <3>2. CASE DecisionSaved(h)
      BY <2>1, <3>2 DEF DecisionSaved, TypeOK, Rows
    <3>3. CASE RoutingSaved(h)
      BY <2>1, <3>3 DEF RoutingSaved, TypeOK, Rows
    <3>4. CASE ClosePublished(h)
      BY <2>1, <3>4 DEF ClosePublished, TypeOK, Rows
    <3>5. CASE CloseSaved(h)
      BY <2>1, <3>5 DEF CloseSaved, TypeOK, Rows
    <3> QED
      BY <2>3, <3>1, <3>2, <3>3, <3>4, <3>5
  <2>4. ASSUME NEW h \in Handlers, Routed(h)
        PROVE  mem'[t].state = "CLOSED"
    <3>1. mem[on[h]].state = NoApproval
      BY <2>4 DEF Routed, Await, SubmitterIsAlone
    <3>2. on[h] # t
      BY <3>1 DEF NoApproval
    <3>3. mem'[t] = mem[t]
      BY <2>1, <2>4, <3>2 DEF Routed, TypeOK
    <3> QED
      BY <3>3
  <2>5. ASSUME NEW u \in Trades, NEW a, NEW s,
               Actionable(u, a), mem' = [mem EXCEPT ![u] = Logged(u, a, s)]
        PROVE  mem'[t].state = "CLOSED"
    <3>1. u # t
      BY <2>5 DEF Actionable, Terminal
    <3>2. mem'[t] = mem[t]
      BY <2>1, <2>5, <3>1 DEF TypeOK
    <3> QED
      BY <3>2
  <2>6. ASSUME NEW h \in Handlers, AnalysisSaved(h)
        PROVE  mem'[t].state = "CLOSED"
    BY <2>1, <2>6 DEF AnalysisSaved, TypeOK, Rows
  <2>7. ASSUME NEW h \in Handlers, NEW u \in Trades,
               Approve(h, u) \/ \E a \in HumanActions : ActOnApproval(h, u, a)
        PROVE  mem'[t].state = "CLOSED"
    BY <2>5, <2>7 DEF Approve, ActOnApproval
  <2>8. ASSUME NEW u \in Trades, ApproveRefused(u)
        PROVE  mem'[t].state = "CLOSED"
    BY <2>5, <2>8 DEF ApproveRefused
  <2>9. ASSUME mem' = mem
        PROVE  mem'[t].state = "CLOSED"
    BY <2>9
  <2>10. ~Restart
    BY <2>1 DEF Restart, TypeOK
  <2>11. ASSUME NEW h \in Handlers,
                \/ TradeSaved(h) \/ CheckSaved(h) \/ SubmissionJournaled(h)
                \/ ActionSaved(h) \/ CloseJournaled(h) \/ MemorySaved(h) \/ Abort(h)
         PROVE  mem' = mem
    BY <2>11 DEF TradeSaved, CheckSaved, SubmissionJournaled, ActionSaved,
       CloseJournaled, MemorySaved, Abort
  <2>12. ASSUME \/ \E h \in Handlers, u \in Trades : Close(h, u)
                \/ \E v \in BOOLEAN : SetHalted(v)
                \/ \E l \in LimitChoices : SetRiskLimits(l)
                \/ UNCHANGED vars
         PROVE  mem' = mem
    BY <2>12 DEF Close, SetHalted, SetRiskLimits, vars
  <2> QED
    BY <2>2, <2>3, <2>4, <2>6, <2>7, <2>8, <2>9, <2>10, <2>11, <2>12
    DEF Next, Progress, Request
<1>2. Inductive /\ [Next]_vars => [kept]_vars
  BY <1>1
<1> QED
  BY <1>2, AlwaysInductive, PTL DEF Spec, ClosedIsFinal
-----------------------------------------------------------------------------
(***************************************************************************)
(* A closing order of the whole position fills at least one unit of it and *)
(* never more than it (OrderSimulator, close_trade), whatever its sign.    *)
(***************************************************************************)
LEMMA ReducingFill ==
    ASSUME NEW p \in Int, p # 0, NEW f \in Fills(Magnitude(p))
    PROVE  /\ Magnitude(Reduced(p, f)) < Magnitude(p)
           /\ Reduced(p, f) # 0 => (Reduced(p, f) > 0 <=> p > 0)
<1>1. Magnitude(p) \in Nat /\ Magnitude(p) > 0
  BY DEF Magnitude
<1>2. f \in Int /\ 0 < f /\ f <= Magnitude(p)
  BY <1>1 DEF Fills
<1> QED
  BY <1>1, <1>2 DEF Magnitude, Reduced

(***************************************************************************)
(* The only step that starts to wait for the publication of a close is a   *)
(* close_trade that has just reduced the position it found.                *)
(***************************************************************************)
LEMMA OnlyCloseStarts ==
    ASSUME TypeOK, [Next]_vars,
           NEW h \in Handlers, pc[h] = "idle", pc'[h] = "publish_close"
    PROVE  \E t \in Trades : Close(h, t)
<1> USE DEF TypeOK
<1>1. ASSUME NEW k \in Handlers, Progress(k) \/ Abort(k)
      PROVE  FALSE
  <2>1. pc' = [pc EXCEPT ![k] = pc'[k]] /\ pc[k] # "idle"
    BY <1>1 DEF Progress, Abort, Await, Finish, TradeSaved, Deliberated, DecisionSaved,
       CheckSaved, Routed, RoutingSaved, SubmissionJournaled, ActionSaved,
       ClosePublished, AnalysisSaved, CloseSaved, CloseJournaled, MemorySaved
  <2> QED
    BY <2>1
<1>2. ASSUME NEW k \in Handlers, NEW t \in Trades,
             Submit(k, t) \/ Approve(k, t) \/ \E a \in HumanActions : ActOnApproval(k, t, a)
      PROVE  FALSE
  BY <1>2 DEF Submit, Approve, ActOnApproval, Begin
<1>3. ASSUME NEW k \in Handlers, NEW t \in Trades, Close(k, t)
      PROVE  k = h
  BY <1>3 DEF Close, Begin
<1>4. ASSUME \/ \E t \in Trades : ApproveRefused(t)
             \/ \E v \in BOOLEAN : SetHalted(v)
             \/ \E l \in LimitChoices : SetRiskLimits(l)
             \/ UNCHANGED vars
      PROVE  FALSE
  BY <1>4 DEF ApproveRefused, SetHalted, SetRiskLimits, handlerVars, vars
<1>5. ~Restart
  BY DEF Restart
<1> QED
  BY <1>1, <1>2, <1>3, <1>4, <1>5 DEF Next, Request

(***************************************************************************)
(* close_trade never lets a position grow and never turns it around: the   *)
(* order takes side and size from the position it finds in the same step,  *)
(* and no fill is for more than the order.                                 *)
(***************************************************************************)
THEOREM ClosingReduces == Spec => CloseOnlyReduces
<1> DEFINE reduces == \A h \in Handlers :
       (pc[h] = "idle" /\ pc'[h] = "publish_close") =>
          LET i == Idea[on'[h]].instrument IN
          /\ Magnitude(position'[i]) < Magnitude(position[i])
          /\ position'[i] # 0 => (position'[i] > 0 <=> position[i] > 0)
<1>1. ASSUME TypeOK, [Next]_vars
      PROVE  reduces
  <2> SUFFICES ASSUME NEW h \in Handlers, pc[h] = "idle", pc'[h] = "publish_close"
               PROVE  LET i == Idea[on'[h]].instrument IN
                      /\ Magnitude(position'[i]) < Magnitude(position[i])
                      /\ position'[i] # 0 => (position'[i] > 0 <=> position[i] > 0)
    OBVIOUS
  <2>1. PICK t \in Trades : Close(h, t)
    BY <1>1, OnlyCloseStarts
  <2> DEFINE i == Idea[t].instrument
  <2>2. i \in Instruments /\ position[i] \in Int /\ position[i] # 0
    BY <1>1, <2>1, IdeaAssumption DEF Ideas, TypeOK, Close
  <2>3. on'[h] = t
    BY <1>1, <2>1 DEF Close, Begin, TypeOK
  <2>4. PICK f \in Fills(Magnitude(position[i])) :
          position' = [position EXCEPT ![i] = Reduced(@, f)]
    BY <2>1 DEF Close
  <2>5. position'[i] = Reduced(position[i], f)
    BY <1>1, <2>2, <2>4 DEF TypeOK
  <2> HIDE DEF i
  <2>6. /\ Magnitude(position'[i]) < Magnitude(position[i])
        /\ position'[i] # 0 => (position'[i] > 0 <=> position[i] > 0)
    BY <2>2, <2>5, ReducingFill
  <2> QED
    BY <2>3, <2>6 DEF i
<1>2. TypeOK /\ [Next]_vars => [reduces]_vars
  BY <1>1
<1> QED
  BY <1>2, TypeCorrect, PTL DEF Spec, CloseOnlyReduces
-----------------------------------------------------------------------------
(***************************************************************************)
(* The store catches up: what is in memory and not in the store is about   *)
(* to be written, so that a quiet process has stored what it serves.       *)
(* Records that are written once, journal entries and approvals are three  *)
(* arguments: the first is by presence, the second counts, the third says  *)
(* what is being written.                                                  *)
(***************************************************************************)

(***************************************************************************)
(* A step of one coroutine takes only that coroutine off the calls that a  *)
(* trade waits for.                                                        *)
(***************************************************************************)
LEMMA AwaitedFrame ==
    ASSUME NEW h \in Handlers,
           \A g \in Handlers : g # h => pc'[g] = pc[g] /\ on'[g] = on[g]
    PROVE  \A t, calls :
              /\ Awaited(t, calls) /\ pc[h] \notin calls => Awaited(t, calls)'
              /\ Awaited(t, calls) /\ on[h] # t => Awaited(t, calls)'
              /\ pc'[h] \in calls /\ on'[h] = t => Awaited(t, calls)'
  BY DEF Awaited, Waiting

(***************************************************************************)
(* The calls that store what is not an approval, and what a step of the    *)
(* coroutine that waits for one of them leaves to the others.              *)
(***************************************************************************)
LEMMA RecordsFrame ==
    ASSUME NEW h \in Handlers,
           \A g \in Handlers : g # h => pc'[g] = pc[g] /\ on'[g] = on[g]
    PROVE  \A t :
              /\ Awaited(t, {"save_trade"}) /\ (pc[h] # "save_trade" \/ on[h] # t)
                   => Awaited(t, {"save_trade"})'
              /\ pc'[h] = "save_trade" /\ on'[h] = t => Awaited(t, {"save_trade"})'
              /\ Awaited(t, {"save_decision"}) /\ (pc[h] # "save_decision" \/ on[h] # t)
                   => Awaited(t, {"save_decision"})'
              /\ pc'[h] = "save_decision" /\ on'[h] = t => Awaited(t, {"save_decision"})'
              /\ Awaited(t, {"save_check"}) /\ (pc[h] # "save_check" \/ on[h] # t)
                   => Awaited(t, {"save_check"})'
              /\ pc'[h] = "save_check" /\ on'[h] = t => Awaited(t, {"save_check"})'
              /\ Awaited(t, {"save_analysis"}) /\ (pc[h] # "save_analysis" \/ on[h] # t)
                   => Awaited(t, {"save_analysis"})'
              /\ pc'[h] = "save_analysis" /\ on'[h] = t => Awaited(t, {"save_analysis"})'
  BY DEF Awaited, Waiting

\* Two rows that agree in what is no approval and no journal.
SameRecords(r, s) ==
    /\ s.trade = r.trade
    /\ s.decided = r.decided
    /\ s.verdict = r.verdict
    /\ s.analysed = r.analysed

(***************************************************************************)
(* What the updates of approvals and journals leave alone in a row.        *)
(***************************************************************************)
LEMMA SameUpdates ==
    ASSUME NEW r \in Rows
    PROVE  /\ SameRecords(r, r)
           /\ SameRecords(r, [r EXCEPT !.journal = @ + 1])
           /\ \A s : SameRecords(r, [r EXCEPT !.state = s])
           /\ \A s : SameRecords(r, WithSnapshot(r, s))
  BY DEF SameRecords, Rows, WithSnapshot

(***************************************************************************)
(* A step that touches one row touches the others' records not at all.     *)
(***************************************************************************)
LEMMA SameElsewhere ==
    ASSUME NEW t0 \in Trades, NEW f, NEW g, SameRecords(f[t0], g[t0]),
           \A t \in Trades : t # t0 => g[t] = f[t]
    PROVE  \A t \in Trades : SameRecords(f[t], g[t])
  BY DEF SameRecords

(***************************************************************************)
(* An action on an approval changes no other record of the trade.          *)
(***************************************************************************)
LEMMA SameLogged ==
    ASSUME TypeOK, NEW t \in Trades, NEW a, NEW s,
           mem' = [mem EXCEPT ![t] = Logged(t, a, s)]
    PROVE  \A u \in Trades : SameRecords(mem[u], mem'[u])
<1>1. mem[t] \in Rows /\ mem'[t] = Logged(t, a, s)
  BY DEF TypeOK
<1>2. SameRecords(mem[t], Logged(t, a, s))
  BY <1>1 DEF SameRecords, Logged, Rows
<1>3. \A u \in Trades : u # t => mem'[u] = mem[u]
  BY DEF TypeOK
<1> QED
  BY <1>1, <1>2, <1>3 DEF SameRecords

(***************************************************************************)
(* Steps that store or change none of these records leave nothing behind.  *)
(***************************************************************************)
LEMMA RecordsPendingFrame ==
    ASSUME RecordsArePending, NEW h \in Handlers,
           \A g \in Handlers : g # h => pc'[g] = pc[g] /\ on'[g] = on[g],
           pc[h] \notin {"save_trade", "save_decision", "save_check", "save_analysis"},
           \A t \in Trades : SameRecords(mem[t], mem'[t]) /\ SameRecords(db[t], db'[t])
    PROVE  RecordsArePending'
  BY RecordsFrame DEF RecordsArePending, SameRecords

(***************************************************************************)
(* No step leaves a record in memory that no handler is about to store.    *)
(***************************************************************************)
LEMMA RecordsPendingNext ==
    ASSUME Inductive, RecordsArePending, aborts = 0, [Next]_vars, aborts' = 0
    PROVE  RecordsArePending'
<1>0. TypeOK
  BY DEF Inductive
<1>1. ASSUME NEW h \in Handlers, pc[h] # "idle"
      PROVE  on[h] \in Trades
  BY <1>0, <1>1 DEF TypeOK
<1>2. ASSUME NEW h \in Handlers, NEW t \in Trades, Submit(h, t)
      PROVE  RecordsArePending'
  <2>1. \A g \in Handlers : g # h => pc'[g] = pc[g] /\ on'[g] = on[g]
    BY <1>0, <1>2 DEF Submit, Begin, TypeOK
  <2>2. /\ pc[h] = "idle" /\ pc'[h] = "save_trade" /\ on'[h] = t
        /\ db' = db /\ mem[t] = EmptyRow /\ db[t] = EmptyRow
        /\ mem' = [mem EXCEPT ![t].trade = TRUE]
    BY <1>0, <1>2 DEF Submit, Begin, TypeOK
  <2>3. \A u \in Trades :
           /\ mem'[u].decided = mem[u].decided
           /\ mem'[u].verdict = mem[u].verdict
           /\ mem'[u].analysed = mem[u].analysed
           /\ u # t => mem'[u].trade = mem[u].trade
    <3>1. mem[t] \in Rows /\ mem'[t] = [mem[t] EXCEPT !.trade = TRUE]
      BY <1>0, <2>2 DEF TypeOK
    <3>2. \A u \in Trades : u # t => mem'[u] = mem[u]
      BY <1>0, <2>2 DEF TypeOK
    <3>3. /\ mem'[t].decided = mem[t].decided
          /\ mem'[t].verdict = mem[t].verdict
          /\ mem'[t].analysed = mem[t].analysed
      BY <3>1 DEF Rows
    <3> QED
      BY <3>2, <3>3
  <2> QED
    BY <2>1, <2>2, <2>3, RecordsFrame DEF RecordsArePending
<1>3. ASSUME NEW h \in Handlers, TradeSaved(h)
      PROVE  RecordsArePending'
  <2>1. \A g \in Handlers : g # h => pc'[g] = pc[g] /\ on'[g] = on[g]
    BY <1>0, <1>3 DEF TradeSaved, Await, TypeOK
  <2>2. /\ pc[h] = "save_trade" /\ on[h] \in Trades /\ mem' = mem
        /\ db' = [db EXCEPT ![on[h]].trade = TRUE]
    BY <1>1, <1>3 DEF TradeSaved, Await
  <2>3. mem[on[h]].trade
    BY <2>2 DEF Inductive, SubmissionSoFar, Submitted
  <2>4. \A u \in Trades :
           /\ db'[u].decided = db[u].decided
           /\ db'[u].verdict = db[u].verdict
           /\ db'[u].analysed = db[u].analysed
           /\ u # on[h] => db'[u].trade = db[u].trade
    BY <1>0, <2>2 DEF TypeOK, Rows
  <2>5. mem'[on[h]].trade = db'[on[h]].trade
    BY <1>0, <2>2, <2>3 DEF TypeOK, Rows
  <2> SUFFICES ASSUME NEW u \in Trades
               PROVE  /\ db'[u].trade = mem'[u].trade \/ Awaited(u, {"save_trade"})'
                      /\ db'[u].decided = mem'[u].decided \/ Awaited(u, {"save_decision"})'
                      /\ db'[u].verdict = mem'[u].verdict \/ Awaited(u, {"save_check"})'
                      /\ db'[u].analysed = mem'[u].analysed \/ Awaited(u, {"save_analysis"})'
    BY DEF RecordsArePending
  <2> QED
    BY <2>1, <2>2, <2>4, <2>5, RecordsFrame DEF RecordsArePending
<1>4. ASSUME NEW h \in Handlers, Deliberated(h)
      PROVE  RecordsArePending'
  <2>1. \A g \in Handlers : g # h => pc'[g] = pc[g] /\ on'[g] = on[g]
    BY <1>0, <1>4 DEF Deliberated, Await, TypeOK
  <2>2. /\ pc[h] = "deliberate" /\ on[h] \in Trades /\ db' = db
        /\ pc'[h] = "save_decision" /\ on'[h] = on[h]
        /\ mem' = [mem EXCEPT ![on[h]].decided = TRUE]
    BY <1>0, <1>1, <1>4 DEF Deliberated, Await, TypeOK
  <2>4. \A u \in Trades :
           /\ mem'[u].trade = mem[u].trade
           /\ mem'[u].verdict = mem[u].verdict
           /\ mem'[u].analysed = mem[u].analysed
           /\ u # on[h] => mem'[u].decided = mem[u].decided
    <3>1. /\ mem'[on[h]] = [mem[on[h]] EXCEPT !.decided = TRUE]
          /\ mem[on[h]] \in Rows
          /\ \A u \in Trades : u # on[h] => mem'[u] = mem[u]
      BY <1>0, <2>2 DEF TypeOK
    <3> QED
      BY <3>1 DEF Rows
  <2> SUFFICES ASSUME NEW u \in Trades
               PROVE  /\ db'[u].trade = mem'[u].trade \/ Awaited(u, {"save_trade"})'
                      /\ db'[u].decided = mem'[u].decided \/ Awaited(u, {"save_decision"})'
                      /\ db'[u].verdict = mem'[u].verdict \/ Awaited(u, {"save_check"})'
                      /\ db'[u].analysed = mem'[u].analysed \/ Awaited(u, {"save_analysis"})'
    BY DEF RecordsArePending
  <2> QED
    BY <2>1, <2>2, <2>4, RecordsFrame DEF RecordsArePending
<1>5. ASSUME NEW h \in Handlers, DecisionSaved(h)
      PROVE  RecordsArePending'
  <2>1. \A g \in Handlers : g # h => pc'[g] = pc[g] /\ on'[g] = on[g]
    BY <1>0, <1>5 DEF DecisionSaved, Await, TypeOK
  <2>2. /\ pc[h] = "save_decision" /\ on[h] \in Trades
        /\ pc'[h] = "save_check" /\ on'[h] = on[h]
        /\ db' = [db EXCEPT ![on[h]].decided = TRUE]
    BY <1>0, <1>1, <1>5 DEF DecisionSaved, Await, TypeOK
  <2>3. PICK v \in Verdicts : mem' = [mem EXCEPT ![on[h]].verdict = v]
    BY <1>5, SubmissionVerdict DEF DecisionSaved
  <2>4. mem'[on[h]].decided = db'[on[h]].decided
    <3>1. mem[on[h]].decided
      BY <2>2 DEF Inductive, SubmissionSoFar, Submitted
    <3>2. mem[on[h]] \in Rows /\ db[on[h]] \in Rows
      BY <1>0, <2>2 DEF TypeOK
    <3>3. mem[on[h]].decided = TRUE
      BY <3>1, <3>2 DEF Rows
    <3>4. /\ mem'[on[h]] = [mem[on[h]] EXCEPT !.verdict = v]
          /\ db'[on[h]] = [db[on[h]] EXCEPT !.decided = TRUE]
      BY <1>0, <2>2, <2>3 DEF TypeOK
    <3>5. mem'[on[h]].decided = TRUE /\ db'[on[h]].decided = TRUE
      BY <3>2, <3>3, <3>4 DEF Rows
    <3> QED
      BY <3>5
  <2>5. \A u \in Trades :
           /\ db'[u].trade = db[u].trade
           /\ db'[u].verdict = db[u].verdict
           /\ db'[u].analysed = db[u].analysed
           /\ u # on[h] => db'[u].decided = db[u].decided
    BY <1>0, <2>2 DEF TypeOK, Rows
  <2>6. \A u \in Trades :
           /\ mem'[u].trade = mem[u].trade
           /\ mem'[u].decided = mem[u].decided
           /\ mem'[u].analysed = mem[u].analysed
           /\ u # on[h] => mem'[u].verdict = mem[u].verdict
    BY <1>0, <2>3 DEF TypeOK, Rows
  <2> SUFFICES ASSUME NEW u \in Trades
               PROVE  /\ db'[u].trade = mem'[u].trade \/ Awaited(u, {"save_trade"})'
                      /\ db'[u].decided = mem'[u].decided \/ Awaited(u, {"save_decision"})'
                      /\ db'[u].verdict = mem'[u].verdict \/ Awaited(u, {"save_check"})'
                      /\ db'[u].analysed = mem'[u].analysed \/ Awaited(u, {"save_analysis"})'
    BY DEF RecordsArePending
  <2>7. db'[u].trade = mem'[u].trade \/ Awaited(u, {"save_trade"})'
    BY <2>1, <2>2, <2>5, <2>6, RecordsFrame DEF RecordsArePending
  <2>8. db'[u].decided = mem'[u].decided \/ Awaited(u, {"save_decision"})'
    BY <2>1, <2>2, <2>4, <2>5, <2>6, RecordsFrame DEF RecordsArePending
  <2>9. db'[u].verdict = mem'[u].verdict \/ Awaited(u, {"save_check"})'
    BY <2>1, <2>2, <2>5, <2>6, RecordsFrame DEF RecordsArePending
  <2>10. db'[u].analysed = mem'[u].analysed \/ Awaited(u, {"save_analysis"})'
    BY <2>1, <2>2, <2>5, <2>6, RecordsFrame DEF RecordsArePending
  <2> QED
    BY <2>7, <2>8, <2>9, <2>10
<1>6. ASSUME NEW h \in Handlers, CheckSaved(h)
      PROVE  RecordsArePending'
  <2>1. \A g \in Handlers : g # h => pc'[g] = pc[g] /\ on'[g] = on[g]
    BY <1>0, <1>6 DEF CheckSaved, Await, TypeOK
  <2>2. /\ pc[h] = "save_check" /\ on[h] \in Trades /\ mem' = mem
        /\ db' = [db EXCEPT ![on[h]].verdict = mem[on[h]].verdict]
    BY <1>1, <1>6 DEF CheckSaved, Await
  <2>3. \A u \in Trades :
           /\ db'[u].trade = db[u].trade
           /\ db'[u].decided = db[u].decided
           /\ db'[u].analysed = db[u].analysed
           /\ db'[u].verdict = IF u = on[h] THEN mem[u].verdict ELSE db[u].verdict
    BY <1>0, <2>2 DEF TypeOK, Rows
  <2> QED
    BY <2>1, <2>2, <2>3, RecordsFrame DEF RecordsArePending
<1>7. ASSUME NEW h \in Handlers, ClosePublished(h)
      PROVE  RecordsArePending'
  <2>1. \A g \in Handlers : g # h => pc'[g] = pc[g] /\ on'[g] = on[g]
    BY <1>0, <1>7 DEF ClosePublished, Await, TypeOK
  <2>2. /\ pc[h] = "publish_close" /\ on[h] \in Trades /\ db' = db
        /\ pc'[h] = "save_analysis" /\ on'[h] = on[h]
        /\ mem' = [mem EXCEPT ![on[h]].analysed = TRUE]
    BY <1>0, <1>1, <1>7 DEF ClosePublished, Await, TypeOK
  <2>3. \A u \in Trades :
           /\ mem'[u].trade = mem[u].trade
           /\ mem'[u].decided = mem[u].decided
           /\ mem'[u].verdict = mem[u].verdict
           /\ u # on[h] => mem'[u].analysed = mem[u].analysed
    <3>1. /\ mem'[on[h]] = [mem[on[h]] EXCEPT !.analysed = TRUE]
          /\ mem[on[h]] \in Rows
          /\ \A u \in Trades : u # on[h] => mem'[u] = mem[u]
      BY <1>0, <2>2 DEF TypeOK
    <3> QED
      BY <3>1 DEF Rows
  <2> QED
    BY <2>1, <2>2, <2>3, RecordsFrame DEF RecordsArePending
<1>8. ASSUME NEW h \in Handlers, AnalysisSaved(h)
      PROVE  RecordsArePending'
  <2>1. \A g \in Handlers : g # h => pc'[g] = pc[g] /\ on'[g] = on[g]
    BY <1>0, <1>8 DEF AnalysisSaved, Await, TypeOK
  <2>2. /\ pc[h] = "save_analysis" /\ on[h] \in Trades
        /\ mem' = [mem EXCEPT ![on[h]].state = "CLOSED"]
        /\ db' = [db EXCEPT ![on[h]].analysed = TRUE]
    BY <1>1, <1>8 DEF AnalysisSaved, Await
  <2>3. mem'[on[h]].analysed = db'[on[h]].analysed
    <3>1. mem[on[h]].analysed
      BY <2>2 DEF Inductive, ClosingSoFar
    <3>2. mem[on[h]] \in Rows /\ db[on[h]] \in Rows
      BY <1>0, <2>2 DEF TypeOK
    <3>3. mem[on[h]].analysed = TRUE
      BY <3>1, <3>2 DEF Rows
    <3>4. /\ mem'[on[h]] = [mem[on[h]] EXCEPT !.state = "CLOSED"]
          /\ db'[on[h]] = [db[on[h]] EXCEPT !.analysed = TRUE]
      BY <1>0, <2>2 DEF TypeOK
    <3>5. mem'[on[h]].analysed = TRUE /\ db'[on[h]].analysed = TRUE
      BY <3>2, <3>3, <3>4 DEF Rows
    <3> QED
      BY <3>5
  <2>4. \A u \in Trades :
           /\ db'[u].trade = db[u].trade
           /\ db'[u].decided = db[u].decided
           /\ db'[u].verdict = db[u].verdict
           /\ u # on[h] => db'[u].analysed = db[u].analysed
    BY <1>0, <2>2 DEF TypeOK, Rows
  <2>5. \A u \in Trades :
           /\ mem'[u].trade = mem[u].trade
           /\ mem'[u].decided = mem[u].decided
           /\ mem'[u].verdict = mem[u].verdict
           /\ mem'[u].analysed = mem[u].analysed
    BY <1>0, <2>2 DEF TypeOK, Rows
  <2> SUFFICES ASSUME NEW u \in Trades
               PROVE  /\ db'[u].trade = mem'[u].trade \/ Awaited(u, {"save_trade"})'
                      /\ db'[u].decided = mem'[u].decided \/ Awaited(u, {"save_decision"})'
                      /\ db'[u].verdict = mem'[u].verdict \/ Awaited(u, {"save_check"})'
                      /\ db'[u].analysed = mem'[u].analysed \/ Awaited(u, {"save_analysis"})'
    BY DEF RecordsArePending
  <2>6. db'[u].analysed = mem'[u].analysed \/ Awaited(u, {"save_analysis"})'
    <3>1. CASE u = on[h]
      BY <2>3, <3>1
    <3>2. CASE u # on[h]
      <4>1. db'[u].analysed = db[u].analysed /\ mem'[u].analysed = mem[u].analysed
        BY <2>4, <2>5, <3>2
      <4>2. db[u].analysed = mem[u].analysed \/ Awaited(u, {"save_analysis"})
        BY DEF RecordsArePending
      <4>3. Awaited(u, {"save_analysis"}) => Awaited(u, {"save_analysis"})'
        BY <2>1, <2>2, <3>2, RecordsFrame
      <4> QED
        BY <4>1, <4>2, <4>3
    <3> QED
      BY <3>1, <3>2
  <2> QED
    BY <2>1, <2>2, <2>4, <2>5, <2>6, RecordsFrame DEF RecordsArePending
<1>9. ASSUME NEW h \in Handlers,
             \/ Routed(h) \/ RoutingSaved(h) \/ SubmissionJournaled(h) \/ ActionSaved(h)
             \/ CloseSaved(h) \/ CloseJournaled(h) \/ MemorySaved(h)
      PROVE  RecordsArePending'
  <2>1. /\ \A g \in Handlers : g # h => pc'[g] = pc[g] /\ on'[g] = on[g]
        /\ pc[h] \in {"consult_cia", "journal_submission", "journal_close", "save_memory"}
                       \cup ApprovalSaves
    BY <1>0, <1>9 DEF Routed, RoutingSaved, SubmissionJournaled, ActionSaved, CloseSaved,
       CloseJournaled, MemorySaved, Await, Finish, TypeOK, ApprovalSaves
  <2>2. on[h] \in Trades /\ mem[on[h]] \in Rows /\ db[on[h]] \in Rows
    BY <1>0, <2>1 DEF TypeOK, ApprovalSaves
  <2>3. \A t \in Trades : SameRecords(mem[t], mem'[t])
    <3>1. CASE Routed(h)
      <4>1. PICK s : mem' = [mem EXCEPT ![on[h]].state = s]
        BY <3>1 DEF Routed
      <4>2. mem'[on[h]] = [mem[on[h]] EXCEPT !.state = s]
        BY <1>0, <2>2, <4>1 DEF TypeOK
      <4>3. \A t \in Trades : t # on[h] => mem'[t] = mem[t]
        BY <1>0, <4>1 DEF TypeOK
      <4> QED
        <5>1. SameRecords(mem[on[h]], mem'[on[h]])
          BY <2>2, <4>2 DEF SameRecords, Rows
        <5> QED
          BY <2>2, <4>3, <5>1, SameElsewhere
    <3>2. CASE RoutingSaved(h) \/ CloseSaved(h)
      <4>1. mem'[on[h]] = [mem[on[h]] EXCEPT !.journal = @ + 1]
        BY <1>0, <2>2, <3>2 DEF RoutingSaved, CloseSaved, TypeOK
      <4>2. \A t \in Trades : t # on[h] => mem'[t] = mem[t]
        BY <1>0, <3>2 DEF RoutingSaved, CloseSaved, TypeOK
      <4> QED
        BY <2>2, <4>1, <4>2, SameUpdates, SameElsewhere
    <3>3. CASE \/ SubmissionJournaled(h) \/ ActionSaved(h)
               \/ CloseJournaled(h) \/ MemorySaved(h)
      BY <3>3 DEF SubmissionJournaled, ActionSaved, CloseJournaled, MemorySaved, SameRecords
    <3> QED
      BY <1>9, <3>1, <3>2, <3>3
  <2>4. \A t \in Trades : SameRecords(db[t], db'[t])
    <3>1. CASE RoutingSaved(h) \/ CloseSaved(h) \/ ActionSaved(h)
      <4>1. db'[on[h]] = WithSnapshot(db[on[h]], snap[h])
        BY <1>0, <2>2, <3>1 DEF RoutingSaved, CloseSaved, ActionSaved, TypeOK
      <4>2. \A t \in Trades : t # on[h] => db'[t] = db[t]
        BY <1>0, <3>1 DEF RoutingSaved, CloseSaved, ActionSaved, TypeOK
      <4> QED
        BY <2>2, <4>1, <4>2, SameUpdates, SameElsewhere
    <3>2. CASE SubmissionJournaled(h) \/ CloseJournaled(h)
      <4>1. db'[on[h]] = [db[on[h]] EXCEPT !.journal = @ + 1]
        BY <1>0, <2>2, <3>2 DEF SubmissionJournaled, CloseJournaled, TypeOK
      <4>2. \A t \in Trades : t # on[h] => db'[t] = db[t]
        BY <1>0, <3>2 DEF SubmissionJournaled, CloseJournaled, TypeOK
      <4> QED
        BY <2>2, <4>1, <4>2, SameUpdates, SameElsewhere
    <3>3. CASE Routed(h) \/ MemorySaved(h)
      BY <3>3 DEF Routed, MemorySaved, SameRecords
    <3> QED
      BY <1>9, <3>1, <3>2, <3>3
  <2> QED
    BY <2>1, <2>3, <2>4, RecordsPendingFrame DEF ApprovalSaves
<1>10. ASSUME NEW h \in Handlers, NEW t \in Trades,
              \/ Approve(h, t) \/ Close(h, t)
              \/ \E a \in HumanActions : ActOnApproval(h, t, a)
       PROVE  RecordsArePending'
  <2>1. /\ \A g \in Handlers : g # h => pc'[g] = pc[g] /\ on'[g] = on[g]
        /\ pc[h] = "idle" /\ db' = db
    BY <1>0, <1>10 DEF Approve, Close, ActOnApproval, Begin, TypeOK
  <2>2. \A u \in Trades : SameRecords(mem[u], mem'[u])
    <3>1. CASE Approve(h, t)
      BY <1>0, <3>1, SameLogged DEF Approve
    <3>2. ASSUME NEW a \in HumanActions, ActOnApproval(h, t, a)
          PROVE  \A u \in Trades : SameRecords(mem[u], mem'[u])
      BY <1>0, <3>2, SameLogged DEF ActOnApproval
    <3>3. CASE Close(h, t)
      BY <3>3 DEF Close, SameRecords
    <3> QED
      BY <1>10, <3>1, <3>2, <3>3
  <2> QED
    BY <2>1, <2>2, RecordsPendingFrame DEF SameRecords
<1>11. ASSUME \/ \E t \in Trades : ApproveRefused(t)
              \/ \E v \in BOOLEAN : SetHalted(v)
              \/ \E l \in LimitChoices : SetRiskLimits(l)
              \/ UNCHANGED vars
       PROVE  RecordsArePending'
  <2>1. pc' = pc /\ on' = on /\ db' = db
    BY <1>11 DEF ApproveRefused, SetHalted, SetRiskLimits, vars
  <2>2. \A u \in Trades : SameRecords(mem[u], mem'[u])
    <3>1. CASE \E t \in Trades : ApproveRefused(t)
      BY <1>0, <3>1, SameLogged DEF ApproveRefused
    <3>2. CASE mem' = mem
      BY <3>2 DEF SameRecords
    <3> QED
      BY <1>11, <3>1, <3>2 DEF SetHalted, SetRiskLimits, vars
  <2>3. \A t, calls : Awaited(t, calls)' = Awaited(t, calls)
    BY <2>1 DEF Awaited, Waiting
  <2> QED
    BY <2>1, <2>2, <2>3 DEF RecordsArePending, SameRecords
<1>12. CASE Restart
  BY <1>12 DEF Restart, RecordsArePending
<1>13. ASSUME NEW h \in Handlers, Abort(h)
       PROVE  FALSE
  BY <1>13 DEF Abort
<1> QED
  BY <1>2, <1>3, <1>4, <1>5, <1>6, <1>7, <1>8, <1>9, <1>10, <1>11, <1>12, <1>13
  DEF Next, Progress, Request

(***************************************************************************)
(* How a step of one coroutine changes the set of those about to write a   *)
(* journal entry of a trade.                                               *)
(***************************************************************************)
LEMMA WritersFrame ==
    ASSUME NEW h \in Handlers,
           \A g \in Handlers : g # h => pc'[g] = pc[g] /\ on'[g] = on[g]
    PROVE  \A t : LET before == Waiting(t, JournalSaves)
                      after == Waiting(t, JournalSaves)'
                      was == pc[h] \in JournalSaves /\ on[h] = t
                      is == pc'[h] \in JournalSaves /\ on'[h] = t
                  IN  /\ ~was /\ is => h \notin before /\ after = before \cup {h}
                      /\ was /\ ~is => h \in before /\ after = before \ {h}
                      /\ ~was /\ ~is => after = before
  BY DEF Waiting

(***************************************************************************)
(* Steps that neither append a journal entry nor store one.                *)
(***************************************************************************)
LEMMA JournalFrame ==
    ASSUME JournalIsPending,
           \A t \in Trades : /\ Waiting(t, JournalSaves)' = Waiting(t, JournalSaves)
                             /\ mem'[t].journal = mem[t].journal
                             /\ db'[t].journal = db[t].journal
    PROVE  JournalIsPending'
  BY DEF JournalIsPending

(***************************************************************************)
(* An entry appended in memory by a handler that goes on to store it.      *)
(***************************************************************************)
LEMMA EntryAppended ==
    ASSUME TypeOK, JournalIsPending, NEW h \in Handlers, NEW t0 \in Trades,
           \A g \in Handlers : g # h => pc'[g] = pc[g] /\ on'[g] = on[g],
           pc[h] \notin JournalSaves, pc'[h] \in JournalSaves, on'[h] = t0,
           mem'[t0].journal = mem[t0].journal + 1,
           \A t \in Trades : t # t0 => mem'[t].journal = mem[t].journal,
           \A t \in Trades : db'[t].journal = db[t].journal
    PROVE  JournalIsPending'
<1> SUFFICES ASSUME NEW t \in Trades
             PROVE  /\ IsFiniteSet(Waiting(t, JournalSaves)')
                    /\ mem'[t].journal
                         = db'[t].journal + Cardinality(Waiting(t, JournalSaves)')
  BY DEF JournalIsPending
<1> DEFINE before == Waiting(t, JournalSaves)
           after == Waiting(t, JournalSaves)'
<1>1. IsFiniteSet(before) /\ mem[t].journal = db[t].journal + Cardinality(before)
  BY DEF JournalIsPending
<1>2. db[t].journal \in Nat /\ Cardinality(before) \in Nat
  BY <1>1, FS_CardinalityType DEF TypeOK, Rows
<1>3. CASE t = t0
  <2>1. h \notin before /\ after = before \cup {h}
    BY <1>3, WritersFrame
  <2>2. IsFiniteSet(after) /\ Cardinality(after) = Cardinality(before) + 1
    BY <1>1, <2>1, FS_AddElement
  <2> QED
    BY <1>1, <1>2, <1>3, <2>2
<1>4. CASE t # t0
  <2>1. after = before
    BY <1>4, WritersFrame
  <2> QED
    BY <1>1, <1>4, <2>1
<1> QED
  BY <1>3, <1>4

(***************************************************************************)
(* An entry stored by the handler that was waiting to.                     *)
(***************************************************************************)
LEMMA EntryStored ==
    ASSUME TypeOK, JournalIsPending, NEW h \in Handlers, NEW t0 \in Trades,
           \A g \in Handlers : g # h => pc'[g] = pc[g] /\ on'[g] = on[g],
           pc[h] \in JournalSaves, pc'[h] \notin JournalSaves, on[h] = t0,
           db'[t0].journal = db[t0].journal + 1,
           \A t \in Trades : t # t0 => db'[t].journal = db[t].journal,
           \A t \in Trades : mem'[t].journal = mem[t].journal
    PROVE  JournalIsPending'
<1> SUFFICES ASSUME NEW t \in Trades
             PROVE  /\ IsFiniteSet(Waiting(t, JournalSaves)')
                    /\ mem'[t].journal
                         = db'[t].journal + Cardinality(Waiting(t, JournalSaves)')
  BY DEF JournalIsPending
<1> DEFINE before == Waiting(t, JournalSaves)
           after == Waiting(t, JournalSaves)'
<1>1. IsFiniteSet(before) /\ mem[t].journal = db[t].journal + Cardinality(before)
  BY DEF JournalIsPending
<1>2. db[t].journal \in Nat /\ Cardinality(before) \in Nat
  BY <1>1, FS_CardinalityType DEF TypeOK, Rows
<1>3. CASE t = t0
  <2>1. h \in before /\ after = before \ {h}
    BY <1>3, WritersFrame
  <2>2. IsFiniteSet(after) /\ Cardinality(after) = Cardinality(before) - 1
    BY <1>1, <2>1, FS_RemoveElement
  <2> QED
    BY <1>1, <1>2, <1>3, <2>2
<1>4. CASE t # t0
  <2>1. after = before
    BY <1>4, WritersFrame
  <2> QED
    BY <1>1, <1>4, <2>1
<1> QED
  BY <1>3, <1>4

(***************************************************************************)
(* An update of one row that is not of its journal.                        *)
(***************************************************************************)
LEMMA JournalUpdates ==
    ASSUME NEW r \in Rows
    PROVE  /\ [r EXCEPT !.trade = TRUE].journal = r.journal
           /\ [r EXCEPT !.decided = TRUE].journal = r.journal
           /\ [r EXCEPT !.analysed = TRUE].journal = r.journal
           /\ \A v : [r EXCEPT !.verdict = v].journal = r.journal
           /\ \A s : [r EXCEPT !.state = s].journal = r.journal
           /\ \A s : WithSnapshot(r, s).journal = r.journal
           /\ [r EXCEPT !.journal = @ + 1].journal = r.journal + 1
  BY DEF Rows, WithSnapshot

(***************************************************************************)
(* Every entry that memory has is in the store or about to be.             *)
(***************************************************************************)
LEMMA JournalPendingNext ==
    ASSUME TypeOK, JournalIsPending, aborts = 0, [Next]_vars, aborts' = 0
    PROVE  JournalIsPending'
<1> USE DEF TypeOK
<1>1. ASSUME NEW h \in Handlers, pc[h] # "idle"
      PROVE  on[h] \in Trades /\ mem[on[h]] \in Rows /\ db[on[h]] \in Rows
  BY <1>1
<1>2. ASSUME NEW h \in Handlers, RoutingSaved(h) \/ CloseSaved(h)
      PROVE  JournalIsPending'
  <2>1. /\ \A g \in Handlers : g # h => pc'[g] = pc[g] /\ on'[g] = on[g]
        /\ pc[h] \notin JournalSaves \cup {"idle"} /\ pc'[h] \in JournalSaves /\ on'[h] = on[h]
    BY <1>2 DEF RoutingSaved, CloseSaved, Await, JournalSaves
  <2>2. on[h] \in Trades /\ mem[on[h]] \in Rows /\ db[on[h]] \in Rows
    BY <1>1, <2>1
  <2>3. /\ mem'[on[h]] = [mem[on[h]] EXCEPT !.journal = @ + 1]
        /\ db'[on[h]] = WithSnapshot(db[on[h]], snap[h])
        /\ \A t \in Trades : t # on[h] => mem'[t] = mem[t] /\ db'[t] = db[t]
    BY <1>2, <2>2 DEF RoutingSaved, CloseSaved
  <2>4. /\ mem'[on[h]].journal = mem[on[h]].journal + 1
        /\ db'[on[h]].journal = db[on[h]].journal
    BY <2>2, <2>3, JournalUpdates
  <2>5. \A t \in Trades : t # on[h] => mem'[t].journal = mem[t].journal
    BY <2>3
  <2>6. \A t \in Trades : db'[t].journal = db[t].journal
    BY <2>3, <2>4
  <2>7. pc[h] \notin JournalSaves /\ pc'[h] \in JournalSaves
    BY <2>1
  <2> HIDE DEF TypeOK
  <2> QED
    BY <2>1, <2>2, <2>4, <2>5, <2>6, <2>7, EntryAppended
<1>3. ASSUME NEW h \in Handlers, SubmissionJournaled(h) \/ CloseJournaled(h)
      PROVE  JournalIsPending'
  <2>1. /\ \A g \in Handlers : g # h => pc'[g] = pc[g] /\ on'[g] = on[g]
        /\ pc[h] \in JournalSaves /\ pc'[h] \notin JournalSaves /\ pc[h] # "idle"
    BY <1>3 DEF SubmissionJournaled, CloseJournaled, Await, Finish, JournalSaves
  <2>2. on[h] \in Trades /\ mem[on[h]] \in Rows /\ db[on[h]] \in Rows
    BY <1>1, <2>1
  <2>3. /\ db'[on[h]] = [db[on[h]] EXCEPT !.journal = @ + 1]
        /\ mem' = mem
        /\ \A t \in Trades : t # on[h] => db'[t] = db[t]
    BY <1>3, <2>2 DEF SubmissionJournaled, CloseJournaled
  <2>4. db'[on[h]].journal = db[on[h]].journal + 1
    BY <2>2, <2>3, JournalUpdates
  <2> QED
    BY <2>1, <2>2, <2>3, <2>4, EntryStored
<1>4. ASSUME NEW h \in Handlers,
             \/ TradeSaved(h) \/ Deliberated(h) \/ DecisionSaved(h) \/ CheckSaved(h)
             \/ Routed(h) \/ ActionSaved(h) \/ ClosePublished(h) \/ AnalysisSaved(h)
             \/ MemorySaved(h)
      PROVE  JournalIsPending'
  <2>1. /\ \A g \in Handlers : g # h => pc'[g] = pc[g] /\ on'[g] = on[g]
        /\ pc[h] \notin JournalSaves \cup {"idle"} /\ pc'[h] \notin JournalSaves
    BY <1>4 DEF TradeSaved, Deliberated, DecisionSaved, CheckSaved, Routed, ActionSaved,
       ClosePublished, AnalysisSaved, MemorySaved, Await, Finish, JournalSaves
  <2>2. on[h] \in Trades /\ mem[on[h]] \in Rows /\ db[on[h]] \in Rows
    BY <1>1, <2>1
  <2>3. \A t \in Trades : t # on[h] => mem'[t] = mem[t] /\ db'[t] = db[t]
    BY <1>4 DEF TradeSaved, Deliberated, DecisionSaved, CheckSaved, Routed, ActionSaved,
       ClosePublished, AnalysisSaved, MemorySaved
  <2>4. /\ mem'[on[h]].journal = mem[on[h]].journal
        /\ db'[on[h]].journal = db[on[h]].journal
    <3>1. CASE TradeSaved(h)
      <4>1. mem' = mem /\ db'[on[h]] = [db[on[h]] EXCEPT !.trade = TRUE]
        BY <2>2, <3>1 DEF TradeSaved
      <4> QED
        BY <2>2, <4>1, JournalUpdates
    <3>2. CASE Deliberated(h)
      <4>1. db' = db /\ mem'[on[h]] = [mem[on[h]] EXCEPT !.decided = TRUE]
        BY <2>2, <3>2 DEF Deliberated
      <4> QED
        BY <2>2, <4>1, JournalUpdates
    <3>3. CASE DecisionSaved(h)
      <4>1. PICK v \in Verdicts : mem' = [mem EXCEPT ![on[h]].verdict = v]
        BY <3>3, SubmissionVerdict DEF DecisionSaved
      <4>2. mem'[on[h]] = [mem[on[h]] EXCEPT !.verdict = v]
        BY <2>2, <4>1
      <4>3. db'[on[h]] = [db[on[h]] EXCEPT !.decided = TRUE]
        BY <2>2, <3>3 DEF DecisionSaved
      <4>4. mem'[on[h]].journal = mem[on[h]].journal
        BY <2>2, <4>2, JournalUpdates
      <4> QED
        BY <2>2, <4>3, <4>4, JournalUpdates
    <3>4. CASE CheckSaved(h)
      <4>1. mem' = mem /\ db'[on[h]] = [db[on[h]] EXCEPT !.verdict = mem[on[h]].verdict]
        BY <2>2, <3>4 DEF CheckSaved
      <4> QED
        BY <2>2, <4>1, JournalUpdates
    <3>5. CASE Routed(h)
      <4>1. PICK s : mem' = [mem EXCEPT ![on[h]].state = s]
        BY <3>5 DEF Routed
      <4>2. db' = db /\ mem'[on[h]] = [mem[on[h]] EXCEPT !.state = s]
        BY <2>2, <3>5, <4>1 DEF Routed
      <4> QED
        BY <2>2, <4>2, JournalUpdates
    <3>6. CASE ActionSaved(h)
      <4>1. mem' = mem /\ db'[on[h]] = WithSnapshot(db[on[h]], snap[h])
        BY <2>2, <3>6 DEF ActionSaved
      <4> QED
        BY <2>2, <4>1, JournalUpdates
    <3>7. CASE ClosePublished(h)
      <4>1. db' = db /\ mem'[on[h]] = [mem[on[h]] EXCEPT !.analysed = TRUE]
        BY <2>2, <3>7 DEF ClosePublished
      <4> QED
        BY <2>2, <4>1, JournalUpdates
    <3>8. CASE AnalysisSaved(h)
      <4>1. mem'[on[h]] = [mem[on[h]] EXCEPT !.state = "CLOSED"]
        BY <2>2, <3>8 DEF AnalysisSaved
      <4>2. db'[on[h]] = [db[on[h]] EXCEPT !.analysed = TRUE]
        BY <2>2, <3>8 DEF AnalysisSaved
      <4> QED
        BY <2>2, <4>1, <4>2, JournalUpdates
    <3>9. CASE MemorySaved(h)
      BY <3>9 DEF MemorySaved
    <3> QED
      BY <1>4, <3>1, <3>2, <3>3, <3>4, <3>5, <3>6, <3>7, <3>8, <3>9
  <2>5. \A t : Waiting(t, JournalSaves)' = Waiting(t, JournalSaves)
    BY <2>1, WritersFrame
  <2> QED
    BY <2>3, <2>4, <2>5, JournalFrame
<1>5. ASSUME NEW t0 \in Trades, NEW a, NEW s, mem' = [mem EXCEPT ![t0] = Logged(t0, a, s)]
      PROVE  \A t \in Trades : mem'[t].journal = mem[t].journal
  <2>1. mem[t0] \in Rows /\ mem'[t0] = Logged(t0, a, s)
    BY <1>5
  <2>2. mem'[t0].journal = mem[t0].journal
    BY <2>1 DEF Logged, Rows
  <2> QED
    BY <1>5, <2>2
<1>6. ASSUME NEW h \in Handlers, NEW t0 \in Trades,
             \/ Submit(h, t0) \/ Approve(h, t0) \/ Close(h, t0)
             \/ \E a \in HumanActions : ActOnApproval(h, t0, a)
      PROVE  JournalIsPending'
  <2>1. /\ \A g \in Handlers : g # h => pc'[g] = pc[g] /\ on'[g] = on[g]
        /\ pc[h] \notin JournalSaves /\ pc'[h] \notin JournalSaves /\ db' = db
    BY <1>6 DEF Submit, Approve, Close, ActOnApproval, Begin, JournalSaves
  <2>2. \A t \in Trades : mem'[t].journal = mem[t].journal
    <3>1. CASE Submit(h, t0)
      <4>1. /\ mem[t0] \in Rows /\ mem'[t0] = [mem[t0] EXCEPT !.trade = TRUE]
            /\ \A t \in Trades : t # t0 => mem'[t] = mem[t]
        BY <3>1 DEF Submit
      <4>2. mem'[t0].journal = mem[t0].journal
        BY <4>1, JournalUpdates
      <4> QED
        BY <4>1, <4>2
    <3>2. CASE Approve(h, t0)
      BY <1>5, <3>2 DEF Approve
    <3>3. ASSUME NEW a \in HumanActions, ActOnApproval(h, t0, a)
          PROVE  \A t \in Trades : mem'[t].journal = mem[t].journal
      BY <1>5, <3>3 DEF ActOnApproval
    <3>4. CASE Close(h, t0)
      BY <3>4 DEF Close
    <3> QED
      BY <1>6, <3>1, <3>2, <3>3, <3>4
  <2>3. \A t : Waiting(t, JournalSaves)' = Waiting(t, JournalSaves)
    BY <2>1, WritersFrame
  <2> QED
    BY <2>1, <2>2, <2>3, JournalFrame
<1>7. ASSUME \/ \E t \in Trades : ApproveRefused(t)
             \/ \E v \in BOOLEAN : SetHalted(v)
             \/ \E l \in LimitChoices : SetRiskLimits(l)
             \/ UNCHANGED vars
      PROVE  JournalIsPending'
  <2>1. pc' = pc /\ on' = on /\ db' = db
    BY <1>7 DEF ApproveRefused, SetHalted, SetRiskLimits, vars
  <2>2. \A t \in Trades : mem'[t].journal = mem[t].journal
    <3>1. CASE \E t \in Trades : ApproveRefused(t)
      BY <1>5, <3>1 DEF ApproveRefused
    <3>2. CASE mem' = mem
      BY <3>2
    <3> QED
      BY <1>7, <3>1, <3>2 DEF SetHalted, SetRiskLimits, vars
  <2>3. \A t : Waiting(t, JournalSaves)' = Waiting(t, JournalSaves)
    BY <2>1 DEF Waiting
  <2> QED
    BY <2>1, <2>2, <2>3, JournalFrame
<1>8. CASE Restart
  <2> SUFFICES ASSUME NEW t \in Trades
               PROVE  /\ IsFiniteSet(Waiting(t, JournalSaves)')
                      /\ mem'[t].journal
                           = db'[t].journal + Cardinality(Waiting(t, JournalSaves)')
    BY DEF JournalIsPending
  <2>1. Waiting(t, JournalSaves)' = {}
    BY <1>8 DEF Restart, Waiting, JournalSaves
  <2>2. mem'[t].journal = db'[t].journal /\ db'[t].journal \in Nat
    BY <1>8 DEF Restart, Rows
  <2> QED
    BY <2>1, <2>2, FS_EmptySet
<1>9. ASSUME NEW h \in Handlers, Abort(h)
      PROVE  FALSE
  BY <1>9 DEF Abort
<1> QED
  BY <1>2, <1>3, <1>4, <1>6, <1>7, <1>8, <1>9 DEF Next, Progress, Request

(***************************************************************************)
(* What a coroutine's step leaves of the calls that lead a settled or a    *)
(* closed trade to its entries and its memory record.                      *)
(***************************************************************************)
LEMMA ClosingFrame ==
    ASSUME NEW h \in Handlers,
           \A g \in Handlers : g # h => pc'[g] = pc[g] /\ on'[g] = on[g]
    PROVE  \A t : LET final == {"save_close", "journal_close", "save_memory"} IN
              /\ Awaited(t, {"save_routing"}) /\ (pc[h] # "save_routing" \/ on[h] # t)
                   => Awaited(t, {"save_routing"})'
              /\ pc'[h] = "save_routing" /\ on'[h] = t => Awaited(t, {"save_routing"})'
              /\ Awaited(t, {"save_close"}) /\ (pc[h] # "save_close" \/ on[h] # t)
                   => Awaited(t, {"save_close"})'
              /\ pc'[h] = "save_close" /\ on'[h] = t => Awaited(t, {"save_close"})'
              /\ Awaited(t, final) /\ (pc[h] \notin final \/ on[h] # t)
                   => Awaited(t, final)'
              /\ pc'[h] \in final /\ on'[h] = t => Awaited(t, final)'
  BY DEF Awaited, Waiting

(***************************************************************************)
(* Steps that make no trade closed, append no entry and end none of the    *)
(* calls that matter, whatever else they do to an approval.                *)
(***************************************************************************)
LEMMA ClosingElsewhere ==
    ASSUME ClosingIsPending, NEW h \in Handlers,
           \A g \in Handlers : g # h => pc'[g] = pc[g] /\ on'[g] = on[g],
           pc[h] \notin {"save_routing", "save_close", "journal_close", "save_memory"},
           memories' = memories,
           \A t \in Trades :
              /\ mem'[t].journal = mem[t].journal
              /\ mem'[t].state # NoApproval => mem[t].state # NoApproval
              /\ mem'[t].state = "CLOSED" => mem[t].state = "CLOSED"
    PROVE  ClosingIsPending'
<1> SUFFICES ASSUME NEW t \in Trades
             PROVE  ClosingOf(t)'
  BY DEF ClosingIsPending
<1>1. /\ Awaited(t, {"save_routing"}) => Awaited(t, {"save_routing"})'
      /\ Awaited(t, {"save_close"}) => Awaited(t, {"save_close"})'
      /\ Awaited(t, {"save_close", "journal_close", "save_memory"})
           => Awaited(t, {"save_close", "journal_close", "save_memory"})'
  BY DEF Awaited, Waiting
<1> QED
  BY <1>1 DEF ClosingIsPending, ClosingOf

(***************************************************************************)
(* The updates of one row, as far as its state goes.                       *)
(***************************************************************************)
LEMMA StateUpdates ==
    ASSUME NEW r \in Rows
    PROVE  /\ [r EXCEPT !.trade = TRUE].state = r.state
           /\ [r EXCEPT !.decided = TRUE].state = r.state
           /\ [r EXCEPT !.analysed = TRUE].state = r.state
           /\ \A v : [r EXCEPT !.verdict = v].state = r.state
           /\ \A s : [r EXCEPT !.state = s].state = s
           /\ [r EXCEPT !.journal = @ + 1].state = r.state
  BY DEF Rows

(***************************************************************************)
(* Until a restart, a settled trade gets its first entry and a closed one  *)
(* its second and its memory record.                                       *)
(***************************************************************************)
LEMMA ClosingPendingNext ==
    ASSUME Inductive, ClosingIsPending, aborts = 0, crashes = 0,
           [Next]_vars, aborts' = 0, crashes' = 0
    PROVE  ClosingIsPending'
<1>0. TypeOK
  BY DEF Inductive
<1>1. ASSUME NEW h \in Handlers, pc[h] # "idle"
      PROVE  on[h] \in Trades /\ mem[on[h]] \in Rows /\ mem[on[h]].journal \in Nat
  BY <1>0, <1>1 DEF TypeOK, Rows
<1>2. ASSUME NEW h \in Handlers, RoutingSaved(h)
      PROVE  ClosingIsPending'
  <2>1. /\ \A g \in Handlers : g # h => pc'[g] = pc[g] /\ on'[g] = on[g]
        /\ pc[h] = "save_routing" /\ memories' = memories
    BY <1>0, <1>2 DEF RoutingSaved, Await, TypeOK
  <2>2. on[h] \in Trades /\ mem[on[h]] \in Rows /\ mem[on[h]].journal \in Nat
    BY <1>1, <2>1
  <2>3. /\ mem'[on[h]] = [mem[on[h]] EXCEPT !.journal = @ + 1]
        /\ \A t \in Trades : t # on[h] => mem'[t] = mem[t]
    BY <1>0, <1>2, <2>2 DEF RoutingSaved, TypeOK
  <2>4. /\ mem'[on[h]].journal = mem[on[h]].journal + 1
        /\ mem'[on[h]].state = mem[on[h]].state
    BY <2>2, <2>3, JournalUpdates, StateUpdates
  <2>5. \A t \in Trades :
           /\ t # on[h] /\ Awaited(t, {"save_routing"}) => Awaited(t, {"save_routing"})'
           /\ Awaited(t, {"save_close"}) => Awaited(t, {"save_close"})'
           /\ Awaited(t, {"save_close", "journal_close", "save_memory"})
                => Awaited(t, {"save_close", "journal_close", "save_memory"})'
    BY <2>1, ClosingFrame
  <2> SUFFICES ASSUME NEW t \in Trades
               PROVE  ClosingOf(t)'
    BY DEF ClosingIsPending
  <2>6. ClosingOf(t)
    BY DEF ClosingIsPending
  <2>7. CASE t = on[h]
    <3>1. mem'[t].journal >= 1
      BY <2>2, <2>4, <2>7
    <3>2. mem[t].journal >= 1 \/ mem[t].journal >= 2 => mem'[t].journal >= 2
      BY <2>2, <2>4, <2>7
    <3> QED
      BY <2>1, <2>4, <2>5, <2>6, <2>7, <3>1, <3>2 DEF ClosingOf
  <2>8. CASE t # on[h]
    BY <2>1, <2>3, <2>5, <2>6, <2>8 DEF ClosingOf
  <2> QED
    BY <2>7, <2>8
<1>3. ASSUME NEW h \in Handlers, CloseSaved(h)
      PROVE  ClosingIsPending'
  <2>1. /\ \A g \in Handlers : g # h => pc'[g] = pc[g] /\ on'[g] = on[g]
        /\ pc[h] = "save_close" /\ pc'[h] = "journal_close" /\ on'[h] = on[h]
        /\ memories' = memories
    BY <1>0, <1>3 DEF CloseSaved, Await, TypeOK
  <2>2. on[h] \in Trades /\ mem[on[h]] \in Rows /\ mem[on[h]].journal \in Nat
    BY <1>1, <2>1
  <2>3. /\ mem'[on[h]] = [mem[on[h]] EXCEPT !.journal = @ + 1]
        /\ \A t \in Trades : t # on[h] => mem'[t] = mem[t]
    BY <1>0, <1>3, <2>2 DEF CloseSaved, TypeOK
  <2>4. /\ mem'[on[h]].journal = mem[on[h]].journal + 1
        /\ mem'[on[h]].state = mem[on[h]].state
    BY <2>2, <2>3, JournalUpdates, StateUpdates
  <2>5. \A t \in Trades :
           /\ Awaited(t, {"save_routing"}) => Awaited(t, {"save_routing"})'
           /\ t # on[h] /\ Awaited(t, {"save_close"}) => Awaited(t, {"save_close"})'
           /\ t # on[h] /\ Awaited(t, {"save_close", "journal_close", "save_memory"})
                => Awaited(t, {"save_close", "journal_close", "save_memory"})'
           /\ t = on[h] => Awaited(t, {"save_close", "journal_close", "save_memory"})'
    BY <2>1, ClosingFrame
  <2> SUFFICES ASSUME NEW t \in Trades
               PROVE  ClosingOf(t)'
    BY DEF ClosingIsPending
  <2>6. ClosingOf(t)
    BY DEF ClosingIsPending
  <2>7. CASE t = on[h]
    <3>1. mem'[t].journal >= 1
      BY <2>2, <2>4, <2>7
    <3>2. mem[t].journal >= 1 \/ mem[t].journal >= 2 => mem'[t].journal >= 2
      BY <2>2, <2>4, <2>7
    <3> QED
      BY <2>1, <2>4, <2>5, <2>6, <2>7, <3>1, <3>2 DEF ClosingOf
  <2>8. CASE t # on[h]
    BY <2>1, <2>3, <2>5, <2>6, <2>8 DEF ClosingOf
  <2> QED
    BY <2>7, <2>8
<1>4. ASSUME NEW h \in Handlers, CloseJournaled(h)
      PROVE  ClosingIsPending'
  <2>1. /\ \A g \in Handlers : g # h => pc'[g] = pc[g] /\ on'[g] = on[g]
        /\ pc[h] = "journal_close" /\ pc'[h] = "save_memory" /\ on'[h] = on[h]
        /\ memories' = memories /\ mem' = mem
    BY <1>0, <1>4 DEF CloseJournaled, Await, TypeOK
  <2>2. \A t \in Trades :
           /\ Awaited(t, {"save_routing"}) => Awaited(t, {"save_routing"})'
           /\ Awaited(t, {"save_close"}) => Awaited(t, {"save_close"})'
           /\ Awaited(t, {"save_close", "journal_close", "save_memory"})
                => Awaited(t, {"save_close", "journal_close", "save_memory"})'
    BY <2>1, ClosingFrame
  <2> QED
    BY <2>1, <2>2 DEF ClosingIsPending, ClosingOf
<1>5. ASSUME NEW h \in Handlers, MemorySaved(h)
      PROVE  ClosingIsPending'
  <2>1. /\ \A g \in Handlers : g # h => pc'[g] = pc[g] /\ on'[g] = on[g]
        /\ pc[h] = "save_memory" /\ memories' = memories \cup {on[h]} /\ mem' = mem
    BY <1>0, <1>5 DEF MemorySaved, Finish, TypeOK
  <2>2. \A t \in Trades :
           /\ Awaited(t, {"save_routing"}) => Awaited(t, {"save_routing"})'
           /\ Awaited(t, {"save_close"}) => Awaited(t, {"save_close"})'
           /\ t # on[h] /\ Awaited(t, {"save_close", "journal_close", "save_memory"})
                => Awaited(t, {"save_close", "journal_close", "save_memory"})'
    BY <2>1, ClosingFrame
  <2> QED
    BY <2>1, <2>2 DEF ClosingIsPending, ClosingOf
<1>6. ASSUME NEW h \in Handlers, Routed(h)
      PROVE  ClosingIsPending'
  <2>1. /\ \A g \in Handlers : g # h => pc'[g] = pc[g] /\ on'[g] = on[g]
        /\ pc[h] = "consult_cia" /\ pc'[h] = "save_routing" /\ on'[h] = on[h]
        /\ memories' = memories
    BY <1>0, <1>6 DEF Routed, Await, TypeOK
  <2>2. on[h] \in Trades /\ mem[on[h]] \in Rows /\ mem[on[h]].journal \in Nat
    BY <1>1, <2>1
  <2>3. PICK forward \in BOOLEAN :
           mem' = [mem EXCEPT ![on[h]].state = InitialState(mem[on[h]].verdict, forward)]
    BY <1>6 DEF Routed
  <2> DEFINE s == InitialState(mem[on[h]].verdict, forward)
  <2>4. s # "CLOSED"
    BY DEF InitialState
  <2>5. /\ mem'[on[h]] = [mem[on[h]] EXCEPT !.state = s]
        /\ \A t \in Trades : t # on[h] => mem'[t] = mem[t]
    BY <1>0, <2>2, <2>3 DEF TypeOK
  <2> HIDE DEF s
  <2>6. /\ mem'[on[h]].journal = mem[on[h]].journal
        /\ mem'[on[h]].state # "CLOSED"
    BY <2>2, <2>4, <2>5, JournalUpdates, StateUpdates
  <2>7. \A t \in Trades :
           /\ Awaited(t, {"save_routing"}) => Awaited(t, {"save_routing"})'
           /\ t = on[h] => Awaited(t, {"save_routing"})'
           /\ Awaited(t, {"save_close"}) => Awaited(t, {"save_close"})'
           /\ Awaited(t, {"save_close", "journal_close", "save_memory"})
                => Awaited(t, {"save_close", "journal_close", "save_memory"})'
    BY <2>1, ClosingFrame
  <2> QED
    BY <2>1, <2>5, <2>6, <2>7 DEF ClosingIsPending, ClosingOf
<1>7. ASSUME NEW h \in Handlers, AnalysisSaved(h)
      PROVE  ClosingIsPending'
  <2>1. /\ \A g \in Handlers : g # h => pc'[g] = pc[g] /\ on'[g] = on[g]
        /\ pc[h] = "save_analysis" /\ pc'[h] = "save_close" /\ on'[h] = on[h]
        /\ memories' = memories
    BY <1>0, <1>7 DEF AnalysisSaved, Await, TypeOK
  <2>2. on[h] \in Trades /\ mem[on[h]] \in Rows /\ mem[on[h]].journal \in Nat
    BY <1>1, <2>1
  <2>3. /\ mem'[on[h]] = [mem[on[h]] EXCEPT !.state = "CLOSED"]
        /\ \A t \in Trades : t # on[h] => mem'[t] = mem[t]
    BY <1>0, <1>7, <2>2 DEF AnalysisSaved, TypeOK
  <2>4. mem'[on[h]].journal = mem[on[h]].journal
    BY <2>2, <2>3, JournalUpdates
  <2>5. mem[on[h]].state # NoApproval
    BY <2>1 DEF Inductive, ClosingSoFar
  <2>6. \A t \in Trades :
           /\ Awaited(t, {"save_routing"}) => Awaited(t, {"save_routing"})'
           /\ Awaited(t, {"save_close"}) => Awaited(t, {"save_close"})'
           /\ t = on[h] => Awaited(t, {"save_close"})'
           /\ Awaited(t, {"save_close", "journal_close", "save_memory"}) \/ t = on[h]
                => Awaited(t, {"save_close", "journal_close", "save_memory"})'
    BY <2>1, ClosingFrame
  <2> QED
    BY <2>1, <2>2, <2>3, <2>4, <2>5, <2>6 DEF ClosingIsPending, ClosingOf
<1>8. ASSUME NEW h \in Handlers,
             \/ TradeSaved(h) \/ Deliberated(h) \/ DecisionSaved(h) \/ CheckSaved(h)
             \/ SubmissionJournaled(h) \/ ActionSaved(h) \/ ClosePublished(h)
      PROVE  ClosingIsPending'
  <2>1. /\ \A g \in Handlers : g # h => pc'[g] = pc[g] /\ on'[g] = on[g]
        /\ pc[h] \notin {"save_routing", "save_close", "journal_close", "save_memory"}
        /\ memories' = memories /\ pc[h] # "idle"
    BY <1>0, <1>8 DEF TradeSaved, Deliberated, DecisionSaved, CheckSaved,
       SubmissionJournaled, ActionSaved, ClosePublished, Await, Finish, TypeOK
  <2>2. on[h] \in Trades /\ mem[on[h]] \in Rows
    BY <1>1, <2>1
  <2>3. /\ \A t \in Trades : t # on[h] => mem'[t] = mem[t]
        /\ mem'[on[h]].journal = mem[on[h]].journal
        /\ mem'[on[h]].state = mem[on[h]].state
    <3>1. CASE Deliberated(h)
      <4>1. /\ mem'[on[h]] = [mem[on[h]] EXCEPT !.decided = TRUE]
            /\ \A t \in Trades : t # on[h] => mem'[t] = mem[t]
        BY <1>0, <2>2, <3>1 DEF Deliberated, TypeOK
      <4> QED
        BY <2>2, <4>1, JournalUpdates, StateUpdates
    <3>2. CASE DecisionSaved(h)
      <4>1. PICK v \in Verdicts : mem' = [mem EXCEPT ![on[h]].verdict = v]
        BY <3>2, SubmissionVerdict DEF DecisionSaved
      <4>2. /\ mem'[on[h]] = [mem[on[h]] EXCEPT !.verdict = v]
            /\ \A t \in Trades : t # on[h] => mem'[t] = mem[t]
        BY <1>0, <2>2, <4>1 DEF TypeOK
      <4> QED
        BY <2>2, <4>2, JournalUpdates, StateUpdates
    <3>3. CASE ClosePublished(h)
      <4>1. /\ mem'[on[h]] = [mem[on[h]] EXCEPT !.analysed = TRUE]
            /\ \A t \in Trades : t # on[h] => mem'[t] = mem[t]
        BY <1>0, <2>2, <3>3 DEF ClosePublished, TypeOK
      <4> QED
        BY <2>2, <4>1, JournalUpdates, StateUpdates
    <3>4. CASE TradeSaved(h) \/ CheckSaved(h) \/ SubmissionJournaled(h) \/ ActionSaved(h)
      BY <3>4 DEF TradeSaved, CheckSaved, SubmissionJournaled, ActionSaved
    <3> QED
      BY <1>8, <3>1, <3>2, <3>3, <3>4
  <2> QED
    BY <2>1, <2>3, ClosingElsewhere
<1>9. ASSUME NEW t0 \in Trades, NEW a, NEW s, Actionable(t0, a), s # "CLOSED",
             mem' = [mem EXCEPT ![t0] = Logged(t0, a, s)]
      PROVE  \A t \in Trades :
                /\ mem'[t].journal = mem[t].journal
                /\ mem'[t].state # NoApproval => mem[t].state # NoApproval
                /\ mem'[t].state = "CLOSED" => mem[t].state = "CLOSED"
  <2>1. mem[t0] \in Rows /\ mem'[t0] = Logged(t0, a, s)
    BY <1>0, <1>9 DEF TypeOK
  <2>2. mem'[t0].journal = mem[t0].journal /\ mem'[t0].state = s
    BY <2>1 DEF Logged, Rows
  <2>3. mem[t0].state # NoApproval
    BY <1>9 DEF Actionable
  <2>4. \A t \in Trades : t # t0 => mem'[t] = mem[t]
    BY <1>0, <1>9 DEF TypeOK
  <2> QED
    BY <1>9, <2>2, <2>3, <2>4
<1>10. ASSUME NEW h \in Handlers, NEW t0 \in Trades,
              \/ Submit(h, t0) \/ Approve(h, t0) \/ Close(h, t0)
              \/ \E a \in HumanActions : ActOnApproval(h, t0, a)
       PROVE  ClosingIsPending'
  <2>1. /\ \A g \in Handlers : g # h => pc'[g] = pc[g] /\ on'[g] = on[g]
        /\ pc[h] = "idle" /\ memories' = memories
    BY <1>0, <1>10 DEF Submit, Approve, Close, ActOnApproval, Begin, TypeOK
  <2>2. \A t \in Trades :
           /\ mem'[t].journal = mem[t].journal
           /\ mem'[t].state # NoApproval => mem[t].state # NoApproval
           /\ mem'[t].state = "CLOSED" => mem[t].state = "CLOSED"
    <3>1. CASE Submit(h, t0)
      <4>1. /\ mem[t0] \in Rows /\ mem'[t0] = [mem[t0] EXCEPT !.trade = TRUE]
            /\ \A t \in Trades : t # t0 => mem'[t] = mem[t]
        BY <1>0, <3>1 DEF Submit, TypeOK
      <4>2. mem'[t0].journal = mem[t0].journal /\ mem'[t0].state = mem[t0].state
        BY <4>1, JournalUpdates, StateUpdates
      <4> QED
        BY <4>1, <4>2
    <3>2. CASE Approve(h, t0)
      BY <1>9, <3>2 DEF Approve
    <3>3. ASSUME NEW a \in HumanActions, ActOnApproval(h, t0, a)
          PROVE  \A t \in Trades :
                    /\ mem'[t].journal = mem[t].journal
                    /\ mem'[t].state # NoApproval => mem[t].state # NoApproval
                    /\ mem'[t].state = "CLOSED" => mem[t].state = "CLOSED"
      <4>1. Target(a) # "CLOSED"
        BY DEF Target
      <4> QED
        BY <1>9, <3>3, <4>1 DEF ActOnApproval
    <3>4. CASE Close(h, t0)
      BY <3>4 DEF Close
    <3> QED
      BY <1>10, <3>1, <3>2, <3>3, <3>4
  <2> QED
    BY <2>1, <2>2, ClosingElsewhere
<1>11. ASSUME \/ \E t \in Trades : ApproveRefused(t)
              \/ \E v \in BOOLEAN : SetHalted(v)
              \/ \E l \in LimitChoices : SetRiskLimits(l)
              \/ UNCHANGED vars
       PROVE  ClosingIsPending'
  <2>1. pc' = pc /\ on' = on /\ memories' = memories
    BY <1>11 DEF ApproveRefused, SetHalted, SetRiskLimits, vars
  <2>2. \A t \in Trades :
           /\ mem'[t].journal = mem[t].journal
           /\ mem'[t].state # NoApproval => mem[t].state # NoApproval
           /\ mem'[t].state = "CLOSED" => mem[t].state = "CLOSED"
    <3>1. CASE \E t \in Trades : ApproveRefused(t)
      BY <1>9, <3>1 DEF ApproveRefused
    <3>2. CASE mem' = mem
      BY <3>2
    <3> QED
      BY <1>11, <3>1, <3>2 DEF SetHalted, SetRiskLimits, vars
  <2>3. \A t, calls : Awaited(t, calls)' = Awaited(t, calls)
    BY <2>1 DEF Awaited, Waiting
  <2> QED
    BY <2>1, <2>2, <2>3 DEF ClosingIsPending, ClosingOf
<1>12. ~Restart
  BY DEF Restart
<1>13. ASSUME NEW h \in Handlers, Abort(h)
       PROVE  FALSE
  BY <1>13 DEF Abort
<1> QED
  BY <1>2, <1>3, <1>4, <1>5, <1>6, <1>7, <1>8, <1>10, <1>11, <1>12, <1>13
  DEF Next, Progress, Request

(***************************************************************************)
(* What a save makes of a row, and which updates leave an approval alone.  *)
(***************************************************************************)
LEMMA ApprovalUpdates ==
    ASSUME NEW r \in Rows
    PROVE  /\ \A s \in Snapshots : Snapshot(WithSnapshot(r, s)) = s
           /\ Snapshot([r EXCEPT !.trade = TRUE]) = Snapshot(r)
           /\ Snapshot([r EXCEPT !.decided = TRUE]) = Snapshot(r)
           /\ Snapshot([r EXCEPT !.analysed = TRUE]) = Snapshot(r)
           /\ \A v \in Verdicts \cup {NoVerdict} :
                 Snapshot([r EXCEPT !.verdict = v]) = Snapshot(r)
           /\ Snapshot([r EXCEPT !.journal = @ + 1]) = Snapshot(r)
<1>1. \A s \in Snapshots : Snapshot(WithSnapshot(r, s)) = s
  BY DEF Rows, Snapshots, Snapshot, WithSnapshot
<1>2. /\ Snapshot([r EXCEPT !.trade = TRUE]) = Snapshot(r)
      /\ Snapshot([r EXCEPT !.decided = TRUE]) = Snapshot(r)
      /\ Snapshot([r EXCEPT !.analysed = TRUE]) = Snapshot(r)
  BY DEF Rows, Snapshot
<1>3. /\ \A v \in Verdicts \cup {NoVerdict} :
            Snapshot([r EXCEPT !.verdict = v]) = Snapshot(r)
      /\ Snapshot([r EXCEPT !.journal = @ + 1]) = Snapshot(r)
  BY DEF Rows, Snapshot
<1> QED
  BY <1>1, <1>2, <1>3

OthersWait(h) ==
    \A g \in Handlers : g # h => pc'[g] = pc[g] /\ on'[g] = on[g] /\ snap'[g] = snap[g]

\* The step changes no approval, in memory or in the store.
ApprovalsKept ==
    \A t \in Trades : /\ Snapshot(mem'[t]) = Snapshot(mem[t])
                      /\ Snapshot(db'[t]) = Snapshot(db[t])

\* It also neither begins nor ends a save of one.
NothingSaved ==
    /\ ApprovalsKept
    /\ \A g \in Handlers :
          \/ pc'[g] = pc[g] /\ on'[g] = on[g] /\ snap'[g] = snap[g]
          \/ pc[g] \notin ApprovalSaves /\ pc'[g] \notin ApprovalSaves

\* Handler h decides the approval of t0 in memory and starts to save it.
SaveBegins(h, t0) ==
    /\ OthersWait(h)
    /\ pc[h] \notin ApprovalSaves /\ pc'[h] \in ApprovalSaves /\ on'[h] = t0
    /\ mem'[t0].state # NoApproval
    /\ snap'[h] = Snapshot(mem'[t0])
    /\ \A t \in Trades : t # t0 => mem'[t] = mem[t]
    /\ \A t \in Trades : Snapshot(db'[t]) = Snapshot(db[t])

\* What handler h was saving of t0 is stored.
SaveEnds(h, t0) ==
    /\ OthersWait(h)
    /\ pc[h] \in ApprovalSaves /\ on[h] = t0 /\ pc'[h] \notin ApprovalSaves
    /\ Snapshot(db'[t0]) = snap[h]
    /\ snap[h].state # NoApproval
    /\ \A t \in Trades : Snapshot(mem'[t]) = Snapshot(mem[t])
    /\ \A t \in Trades : t # t0 => db'[t] = db[t]

\* The approval of t0 is decided in memory and not saved.
Unsaved(t0) ==
    /\ pc' = pc /\ on' = on /\ snap' = snap /\ db' = db
    /\ mem'[t0].state # NoApproval
    /\ \A t \in Trades : t # t0 => mem'[t] = mem[t]

(***************************************************************************)
(* Steps that change no approval and neither begin nor end a save of one.  *)
(***************************************************************************)
LEMMA ApprovalElsewhere ==
    ASSUME ApprovalIsPending, NothingSaved
    PROVE  ApprovalIsPending'
<1> USE DEF NothingSaved, ApprovalsKept
<1> SUFFICES ASSUME NEW t \in Trades
             PROVE  /\ Snapshot(db'[t]) = Snapshot(mem'[t]) \/ Awaited(t, ApprovalSaves)'
                    /\ \A h \in Waiting(t, ApprovalSaves)' : snap'[h] = Snapshot(mem'[t])
  BY DEF ApprovalIsPending
<1>1. /\ Snapshot(db[t]) = Snapshot(mem[t]) \/ Waiting(t, ApprovalSaves) # {}
      /\ \A h \in Waiting(t, ApprovalSaves) : snap[h] = Snapshot(mem[t])
  BY DEF ApprovalIsPending, Awaited
<1>2. Waiting(t, ApprovalSaves)' = Waiting(t, ApprovalSaves)
  BY DEF Waiting
<1>3. \A h \in Waiting(t, ApprovalSaves) : snap'[h] = snap[h]
  BY DEF Waiting
<1> QED
  BY <1>1, <1>2, <1>3 DEF Awaited

(***************************************************************************)
(* A handler changes an approval and starts to save it as it is: no other  *)
(* save of it may be under way.                                            *)
(***************************************************************************)
LEMMA ApprovalSaveBegins ==
    ASSUME ApprovalIsPending, OneSavePerApproval',
           NEW h \in Handlers, NEW t0 \in Trades, SaveBegins(h, t0)
    PROVE  ApprovalIsPending'
<1> USE DEF SaveBegins, OthersWait
<1> SUFFICES ASSUME NEW t \in Trades
             PROVE  /\ Snapshot(db'[t]) = Snapshot(mem'[t]) \/ Awaited(t, ApprovalSaves)'
                    /\ \A g \in Waiting(t, ApprovalSaves)' : snap'[g] = Snapshot(mem'[t])
  BY DEF ApprovalIsPending
<1>1. CASE t = t0
  <2>1. h \in Waiting(t0, ApprovalSaves)'
    BY DEF Waiting
  <2>2. \A g \in Waiting(t0, ApprovalSaves)' : g = h
    BY <2>1 DEF OneSavePerApproval
  <2> QED
    BY <1>1, <2>1, <2>2 DEF Awaited
<1>2. CASE t # t0
  <2>1. /\ Snapshot(db[t]) = Snapshot(mem[t]) \/ Waiting(t, ApprovalSaves) # {}
        /\ \A g \in Waiting(t, ApprovalSaves) : snap[g] = Snapshot(mem[t])
    BY DEF ApprovalIsPending, Awaited
  <2>2. Waiting(t, ApprovalSaves)' = Waiting(t, ApprovalSaves)
    BY <1>2 DEF Waiting
  <2>3. \A g \in Waiting(t, ApprovalSaves) : snap'[g] = snap[g]
    BY <1>2 DEF Waiting
  <2> QED
    BY <1>2, <2>1, <2>2, <2>3 DEF Awaited
<1> QED
  BY <1>1, <1>2

(***************************************************************************)
(* A save of an approval arrives: the store has what memory has.           *)
(***************************************************************************)
LEMMA ApprovalSaveEnds ==
    ASSUME ApprovalIsPending,
           NEW h \in Handlers, NEW t0 \in Trades, SaveEnds(h, t0)
    PROVE  ApprovalIsPending'
<1> USE DEF SaveEnds, OthersWait
<1> SUFFICES ASSUME NEW t \in Trades
             PROVE  /\ Snapshot(db'[t]) = Snapshot(mem'[t]) \/ Awaited(t, ApprovalSaves)'
                    /\ \A g \in Waiting(t, ApprovalSaves)' : snap'[g] = Snapshot(mem'[t])
  BY DEF ApprovalIsPending
<1>1. /\ Snapshot(db[t]) = Snapshot(mem[t]) \/ Waiting(t, ApprovalSaves) # {}
      /\ \A g \in Waiting(t, ApprovalSaves) : snap[g] = Snapshot(mem[t])
  BY DEF ApprovalIsPending, Awaited
<1>2. Waiting(t, ApprovalSaves)' \subseteq Waiting(t, ApprovalSaves) \ {h}
  BY DEF Waiting
<1>3. \A g \in Waiting(t, ApprovalSaves)' : snap'[g] = Snapshot(mem'[t])
  BY <1>1, <1>2 DEF Waiting
<1>4. CASE t = t0
  <2>1. h \in Waiting(t, ApprovalSaves)
    BY <1>4 DEF Waiting
  <2> QED
    BY <1>1, <1>3, <1>4, <2>1
<1>5. CASE t # t0
  <2>1. Waiting(t, ApprovalSaves)' = Waiting(t, ApprovalSaves)
    BY <1>5 DEF Waiting
  <2> QED
    BY <1>1, <1>3, <1>5, <2>1 DEF Awaited
<1> QED
  BY <1>4, <1>5

(***************************************************************************)
(* The update of one row in memory or in the store that is not of its      *)
(* approval changes no approval there.                                     *)
(***************************************************************************)
LEMMA ApprovalKeptIn ==
    ASSUME NEW f, NEW g, NEW t0 \in Trades, Snapshot(g[t0]) = Snapshot(f[t0]),
           \A t \in Trades : t # t0 => g[t] = f[t]
    PROVE  \A t \in Trades : Snapshot(g[t]) = Snapshot(f[t])
  OBVIOUS

(***************************************************************************)
(* A logged action decides the approval it is logged in.                   *)
(***************************************************************************)
LEMMA LoggedDecides ==
    ASSUME TypeOK, NEW t0 \in Trades, NEW a, NEW s \in ApprovalStates,
           mem' = [mem EXCEPT ![t0] = Logged(t0, a, s)]
    PROVE  /\ mem'[t0].state # NoApproval
           /\ \A t \in Trades : t # t0 => mem'[t] = mem[t]
<1>1. mem[t0] \in Rows /\ mem'[t0] = Logged(t0, a, s)
  BY DEF TypeOK
<1>2. mem'[t0].state = s
  BY <1>1 DEF Logged, Rows
<1> QED
  BY <1>2 DEF TypeOK, ApprovalStates, NoApproval

(***************************************************************************)
(* Each step of the system has one of these effects on the approvals.      *)
(***************************************************************************)
LEMMA ApprovalEffect ==
    ASSUME Inductive, UndecidedIsUnlogged, Next
    PROVE  \/ NothingSaved
           \/ \E h \in Handlers, t0 \in Trades : SaveBegins(h, t0) \/ SaveEnds(h, t0)
           \/ RefusedQuantities /\ \E t0 \in Trades : Unsaved(t0)
           \/ (\E h \in Handlers : Abort(h)) /\ mem' = mem /\ db' = db
           \/ Restart
<1> DEFINE Goal ==
       \/ NothingSaved
       \/ \E h \in Handlers, t0 \in Trades : SaveBegins(h, t0) \/ SaveEnds(h, t0)
       \/ RefusedQuantities /\ \E t0 \in Trades : Unsaved(t0)
       \/ (\E h \in Handlers : Abort(h)) /\ mem' = mem /\ db' = db
       \/ Restart
<1>0. TypeOK
  BY DEF Inductive
<1>1. ASSUME NEW h \in Handlers, pc[h] # "idle"
      PROVE  on[h] \in Trades /\ mem[on[h]] \in Rows /\ db[on[h]] \in Rows
  BY <1>0, <1>1 DEF TypeOK
<1>2. ASSUME NEW h \in Handlers,
             \/ TradeSaved(h) \/ Deliberated(h) \/ DecisionSaved(h) \/ CheckSaved(h)
             \/ SubmissionJournaled(h) \/ ClosePublished(h) \/ CloseJournaled(h)
             \/ MemorySaved(h)
      PROVE  NothingSaved
  <2>1. /\ OthersWait(h) /\ pc[h] # "idle"
        /\ pc[h] \notin ApprovalSaves /\ pc'[h] \notin ApprovalSaves
    BY <1>0, <1>2 DEF TradeSaved, Deliberated, DecisionSaved, CheckSaved,
       SubmissionJournaled, ClosePublished, CloseJournaled, MemorySaved, Await, Finish,
       TypeOK, OthersWait, ApprovalSaves
  <2>2. on[h] \in Trades /\ mem[on[h]] \in Rows /\ db[on[h]] \in Rows
    BY <1>1, <2>1
  <2>3. \A t \in Trades : t # on[h] => mem'[t] = mem[t] /\ db'[t] = db[t]
    BY <1>0, <1>2 DEF TradeSaved, Deliberated, DecisionSaved, CheckSaved,
       SubmissionJournaled, ClosePublished, CloseJournaled, MemorySaved, TypeOK
  <2>4. /\ Snapshot(mem'[on[h]]) = Snapshot(mem[on[h]])
        /\ Snapshot(db'[on[h]]) = Snapshot(db[on[h]])
    <3>1. CASE TradeSaved(h)
      <4>1. mem' = mem /\ db'[on[h]] = [db[on[h]] EXCEPT !.trade = TRUE]
        BY <1>0, <2>2, <3>1 DEF TradeSaved, TypeOK
      <4> QED
        BY <2>2, <4>1, ApprovalUpdates
    <3>2. CASE Deliberated(h)
      <4>1. db' = db /\ mem'[on[h]] = [mem[on[h]] EXCEPT !.decided = TRUE]
        BY <1>0, <2>2, <3>2 DEF Deliberated, TypeOK
      <4> QED
        BY <2>2, <4>1, ApprovalUpdates
    <3>3. CASE DecisionSaved(h)
      <4>1. PICK v \in Verdicts : mem' = [mem EXCEPT ![on[h]].verdict = v]
        BY <3>3, SubmissionVerdict DEF DecisionSaved
      <4>2. mem'[on[h]] = [mem[on[h]] EXCEPT !.verdict = v]
        BY <1>0, <2>2, <4>1 DEF TypeOK
      <4>3. db'[on[h]] = [db[on[h]] EXCEPT !.decided = TRUE]
        BY <1>0, <2>2, <3>3 DEF DecisionSaved, TypeOK
      <4>4. Snapshot(mem'[on[h]]) = Snapshot(mem[on[h]])
        <5>1. Snapshot([mem[on[h]] EXCEPT !.verdict = v]) = Snapshot(mem[on[h]])
          BY <2>2, ApprovalUpdates
        <5> QED
          BY <4>2, <5>1
      <4> QED
        BY <2>2, <4>3, <4>4, ApprovalUpdates
    <3>4. CASE CheckSaved(h)
      <4>1. mem' = mem /\ db'[on[h]] = [db[on[h]] EXCEPT !.verdict = mem[on[h]].verdict]
        BY <1>0, <2>2, <3>4 DEF CheckSaved, TypeOK
      <4>2. mem[on[h]].verdict \in Verdicts \cup {NoVerdict}
        BY <2>2 DEF Rows
      <4>3. Snapshot([db[on[h]] EXCEPT !.verdict = mem[on[h]].verdict])
              = Snapshot(db[on[h]])
        BY <2>2, <4>2, ApprovalUpdates
      <4> QED
        BY <4>1, <4>3
    <3>5. CASE SubmissionJournaled(h) \/ CloseJournaled(h)
      <4>1. mem' = mem /\ db'[on[h]] = [db[on[h]] EXCEPT !.journal = @ + 1]
        BY <1>0, <2>2, <3>5 DEF SubmissionJournaled, CloseJournaled, TypeOK
      <4> QED
        BY <2>2, <4>1, ApprovalUpdates
    <3>6. CASE ClosePublished(h)
      <4>1. db' = db /\ mem'[on[h]] = [mem[on[h]] EXCEPT !.analysed = TRUE]
        BY <1>0, <2>2, <3>6 DEF ClosePublished, TypeOK
      <4> QED
        BY <2>2, <4>1, ApprovalUpdates
    <3>7. CASE MemorySaved(h)
      BY <3>7 DEF MemorySaved
    <3> QED
      BY <1>2, <3>1, <3>2, <3>3, <3>4, <3>5, <3>6, <3>7
  <2>5. ApprovalsKept
    BY <2>2, <2>3, <2>4 DEF ApprovalsKept
  <2> QED
    BY <2>1, <2>5 DEF NothingSaved, OthersWait
<1>3. ASSUME NEW h \in Handlers, RoutingSaved(h) \/ CloseSaved(h) \/ ActionSaved(h)
      PROVE  \E t0 \in Trades : SaveEnds(h, t0)
  <2>1. /\ OthersWait(h) /\ pc[h] # "idle"
        /\ pc[h] \in ApprovalSaves /\ pc'[h] \notin ApprovalSaves
    BY <1>0, <1>3 DEF RoutingSaved, CloseSaved, ActionSaved, Await, Finish, TypeOK,
       OthersWait, ApprovalSaves
  <2>2. /\ on[h] \in Trades /\ mem[on[h]] \in Rows /\ db[on[h]] \in Rows
        /\ snap[h] \in Snapshots
    BY <1>0, <1>1, <2>1 DEF TypeOK
  <2>3. snap[h].state # NoApproval
    BY <2>1 DEF Inductive, SnapshotsAreSafe, ApprovalSaves
  <2>4. /\ db'[on[h]] = WithSnapshot(db[on[h]], snap[h])
        /\ \A t \in Trades : t # on[h] => mem'[t] = mem[t] /\ db'[t] = db[t]
    BY <1>0, <1>3, <2>2 DEF RoutingSaved, CloseSaved, ActionSaved, TypeOK
  <2>5. \/ mem' = mem
        \/ mem'[on[h]] = [mem[on[h]] EXCEPT !.journal = @ + 1]
    BY <1>0, <1>3, <2>2 DEF RoutingSaved, CloseSaved, ActionSaved, TypeOK
  <2>6. Snapshot(mem'[on[h]]) = Snapshot(mem[on[h]])
    BY <2>2, <2>5, ApprovalUpdates
  <2>7. Snapshot(db'[on[h]]) = snap[h]
    <3>1. Snapshot(WithSnapshot(db[on[h]], snap[h])) = snap[h]
      BY <2>2, ApprovalUpdates
    <3> QED
      BY <2>4, <3>1
  <2> QED
    BY <2>1, <2>2, <2>3, <2>4, <2>6, <2>7 DEF SaveEnds
<1>4. ASSUME NEW h \in Handlers, Routed(h)
      PROVE  \E t0 \in Trades : SaveBegins(h, t0)
  <2>1. PICK forward \in BOOLEAN :
          LET s == InitialState(mem[on[h]].verdict, forward) IN
          /\ mem' = [mem EXCEPT ![on[h]].state = s]
          /\ snap' = [snap EXCEPT ![h] = [state |-> s, actions |-> << >>]]
    BY <1>4 DEF Routed
  <2> DEFINE s == InitialState(mem[on[h]].verdict, forward)
  <2>2. s \in ApprovalStates
    BY TransitionTypes
  <2>3. /\ pc[h] = "consult_cia" /\ pc'[h] = "save_routing" /\ on'[h] = on[h]
        /\ snap'[h] = [state |-> s, actions |-> << >>] /\ db' = db /\ OthersWait(h)
    BY <1>0, <1>4, <2>1 DEF Routed, Await, OthersWait, TypeOK
  <2>4. on[h] \in Trades /\ mem[on[h]] \in Rows
    BY <1>1, <2>3
  <2>5. mem[on[h]].actions = << >>
    BY <2>3, <2>4 DEF Inductive, SubmitterIsAlone, UndecidedIsUnlogged
  <2>6. /\ mem'[on[h]] = [mem[on[h]] EXCEPT !.state = s]
        /\ \A t \in Trades : t # on[h] => mem'[t] = mem[t]
    BY <1>0, <2>1, <2>4 DEF TypeOK
  <2> HIDE DEF s
  <2>7. mem'[on[h]].state = s /\ mem'[on[h]].actions = << >>
    BY <2>4, <2>5, <2>6 DEF Rows
  <2>8. snap'[h] = Snapshot(mem'[on[h]])
    BY <2>3, <2>7 DEF Snapshot
  <2>9. s # NoApproval
    BY <2>2 DEF ApprovalStates, NoApproval
  <2> QED
    BY <2>3, <2>4, <2>6, <2>7, <2>8, <2>9 DEF SaveBegins, ApprovalSaves
<1>5. ASSUME NEW h \in Handlers, AnalysisSaved(h)
      PROVE  \E t0 \in Trades : SaveBegins(h, t0)
  <2>1. /\ pc[h] = "save_analysis" /\ pc'[h] = "save_close" /\ on'[h] = on[h]
        /\ snap'[h] = Snapshot(mem'[on[h]]) /\ OthersWait(h)
    BY <1>0, <1>5 DEF AnalysisSaved, Await, OthersWait, TypeOK
  <2>2. on[h] \in Trades /\ mem[on[h]] \in Rows /\ db[on[h]] \in Rows
    BY <1>1, <2>1
  <2>3. /\ mem'[on[h]] = [mem[on[h]] EXCEPT !.state = "CLOSED"]
        /\ db'[on[h]] = [db[on[h]] EXCEPT !.analysed = TRUE]
        /\ \A t \in Trades : t # on[h] => mem'[t] = mem[t] /\ db'[t] = db[t]
    BY <1>0, <1>5, <2>2 DEF AnalysisSaved, TypeOK
  <2>4. mem'[on[h]].state = "CLOSED"
    BY <2>2, <2>3, StateUpdates
  <2>5. Snapshot(db'[on[h]]) = Snapshot(db[on[h]])
    BY <2>2, <2>3, ApprovalUpdates
  <2>6. \A t \in Trades : Snapshot(db'[t]) = Snapshot(db[t])
    BY <2>2, <2>3, <2>5
  <2> QED
    BY <2>1, <2>2, <2>3, <2>4, <2>6 DEF SaveBegins, ApprovalSaves, NoApproval
<1>6. ASSUME NEW h \in Handlers, NEW t0 \in Trades, Approve(h, t0)
      PROVE  SaveBegins(h, t0)
  <2>1. /\ pc[h] = "idle" /\ pc'[h] = "save_action" /\ on'[h] = t0 /\ db' = db
        /\ snap'[h] = Snapshot(mem'[t0]) /\ OthersWait(h)
        /\ mem' = [mem EXCEPT ![t0] = Logged(t0, "APPROVE", "EXECUTED_SIMULATION")]
    BY <1>0, <1>6 DEF Approve, Begin, OthersWait, TypeOK
  <2>2. "EXECUTED_SIMULATION" \in ApprovalStates
    BY DEF ApprovalStates
  <2>3. /\ mem'[t0].state # NoApproval
        /\ \A t \in Trades : t # t0 => mem'[t] = mem[t]
    BY <1>0, <2>1, <2>2, LoggedDecides
  <2> QED
    BY <2>1, <2>3 DEF SaveBegins, ApprovalSaves
<1>7. ASSUME NEW h \in Handlers, NEW t0 \in Trades, NEW a \in HumanActions,
             ActOnApproval(h, t0, a)
      PROVE  SaveBegins(h, t0)
  <2>1. /\ pc[h] = "idle" /\ pc'[h] = "save_action" /\ on'[h] = t0 /\ db' = db
        /\ snap'[h] = Snapshot(mem'[t0]) /\ OthersWait(h)
        /\ mem' = [mem EXCEPT ![t0] = Logged(t0, a, Target(a))]
    BY <1>0, <1>7 DEF ActOnApproval, Begin, OthersWait, TypeOK
  <2>2. Target(a) \in ApprovalStates
    BY TransitionTypes
  <2>3. /\ mem'[t0].state # NoApproval
        /\ \A t \in Trades : t # t0 => mem'[t] = mem[t]
    BY <1>0, <2>1, <2>2, LoggedDecides
  <2> QED
    BY <2>1, <2>3 DEF SaveBegins, ApprovalSaves
<1>8. ASSUME NEW t0 \in Trades, ApproveRefused(t0)
      PROVE  RefusedQuantities /\ Unsaved(t0)
  <2>1. /\ mem' = [mem EXCEPT ![t0] = Logged(t0, "APPROVE", "APPROVED_FOR_PAPER_TRADING")]
        /\ RefusedQuantities /\ pc' = pc /\ on' = on /\ snap' = snap /\ db' = db
    BY <1>8 DEF ApproveRefused
  <2>2. "APPROVED_FOR_PAPER_TRADING" \in ApprovalStates
    BY DEF ApprovalStates
  <2>3. /\ mem'[t0].state # NoApproval
        /\ \A t \in Trades : t # t0 => mem'[t] = mem[t]
    BY <1>0, <2>1, <2>2, LoggedDecides
  <2> QED
    BY <2>1, <2>3 DEF Unsaved
<1>9. ASSUME NEW h \in Handlers, NEW t0 \in Trades, Submit(h, t0) \/ Close(h, t0)
      PROVE  NothingSaved
  <2>1. /\ OthersWait(h) /\ db' = db
        /\ pc[h] \notin ApprovalSaves /\ pc'[h] \notin ApprovalSaves
    BY <1>0, <1>9 DEF Submit, Close, Begin, OthersWait, TypeOK, ApprovalSaves
  <2>2. \A t \in Trades : Snapshot(mem'[t]) = Snapshot(mem[t])
    <3>1. CASE Submit(h, t0)
      <4>1. /\ mem[t0] \in Rows /\ mem'[t0] = [mem[t0] EXCEPT !.trade = TRUE]
            /\ \A t \in Trades : t # t0 => mem'[t] = mem[t]
        BY <1>0, <3>1 DEF Submit, TypeOK
      <4>2. Snapshot(mem'[t0]) = Snapshot(mem[t0])
        BY <4>1, ApprovalUpdates
      <4> QED
        BY <4>1, <4>2
    <3>2. CASE Close(h, t0)
      BY <3>2 DEF Close
    <3> QED
      BY <1>9, <3>1, <3>2
  <2> QED
    BY <2>1, <2>2 DEF NothingSaved, ApprovalsKept, OthersWait
<1>10. ASSUME (\E v \in BOOLEAN : SetHalted(v)) \/ (\E l \in LimitChoices : SetRiskLimits(l))
       PROVE  NothingSaved
  <2>1. mem' = mem /\ db' = db /\ pc' = pc /\ on' = on /\ snap' = snap
    BY <1>10 DEF SetHalted, SetRiskLimits
  <2> QED
    BY <2>1 DEF NothingSaved, ApprovalsKept
<1>11. ASSUME NEW h \in Handlers, Abort(h)
       PROVE  mem' = mem /\ db' = db
  BY <1>11 DEF Abort
<1>12. ASSUME NEW h \in Handlers, Progress(h)
       PROVE  Goal
  BY <1>2, <1>3, <1>4, <1>5, <1>12 DEF Progress
<1>13. ASSUME NEW h \in Handlers, NEW t0 \in Trades, Request(h, t0)
       PROVE  Goal
  BY <1>6, <1>7, <1>9, <1>13 DEF Request
<1> QED
  BY <1>8, <1>10, <1>11, <1>12, <1>13 DEF Next

(***************************************************************************)
(* Nothing but a decision or its save touches the log of an approval.      *)
(***************************************************************************)
LEMMA UndecidedNext ==
    ASSUME Inductive, UndecidedIsUnlogged, [Next]_vars
    PROVE  UndecidedIsUnlogged'
<1>0. \A r, s : Snapshot(r) = Snapshot(s) => r.state = s.state /\ r.actions = s.actions
  BY DEF Snapshot
<1>1. CASE NothingSaved
  BY <1>0, <1>1 DEF NothingSaved, ApprovalsKept, UndecidedIsUnlogged
<1>2. ASSUME NEW h \in Handlers, NEW t0 \in Trades, SaveBegins(h, t0)
      PROVE  UndecidedIsUnlogged'
  BY <1>0, <1>2 DEF SaveBegins, UndecidedIsUnlogged
<1>3. ASSUME NEW h \in Handlers, NEW t0 \in Trades, SaveEnds(h, t0)
      PROVE  UndecidedIsUnlogged'
  <2>1. db'[t0].state # NoApproval
    BY <1>3 DEF SaveEnds, Snapshot
  <2> QED
    BY <1>0, <1>3, <2>1 DEF SaveEnds, UndecidedIsUnlogged
<1>4. ASSUME NEW t0 \in Trades, Unsaved(t0)
      PROVE  UndecidedIsUnlogged'
  BY <1>4 DEF Unsaved, UndecidedIsUnlogged
<1>5. CASE mem' = mem /\ db' = db
  BY <1>5 DEF UndecidedIsUnlogged
<1>6. CASE Restart
  BY <1>6 DEF Restart, UndecidedIsUnlogged
<1>7. CASE UNCHANGED vars
  BY <1>5, <1>7 DEF vars
<1> QED
  BY <1>1, <1>2, <1>3, <1>4, <1>5, <1>6, <1>7, ApprovalEffect

(***************************************************************************)
(* Where saves of one approval do not overlap and none is refused its      *)
(* quantity, what is about to be saved is what memory has.                 *)
(***************************************************************************)
LEMMA ApprovalPendingNext ==
    ASSUME Inductive, UndecidedIsUnlogged, ApprovalIsPending, aborts = 0,
           [Next]_vars, aborts' = 0, OneSavePerApproval', ~RefusedQuantities
    PROVE  ApprovalIsPending'
<1>1. CASE NothingSaved
  BY <1>1, ApprovalElsewhere
<1>2. ASSUME NEW h \in Handlers, NEW t0 \in Trades, SaveBegins(h, t0)
      PROVE  ApprovalIsPending'
  BY <1>2, ApprovalSaveBegins
<1>3. ASSUME NEW h \in Handlers, NEW t0 \in Trades, SaveEnds(h, t0)
      PROVE  ApprovalIsPending'
  BY <1>3, ApprovalSaveEnds
<1>4. ASSUME NEW h \in Handlers, Abort(h)
      PROVE  FALSE
  BY <1>4 DEF Abort
<1>5. CASE Restart
  BY <1>5 DEF Restart, ApprovalIsPending, Waiting, ApprovalSaves
<1>6. CASE UNCHANGED vars
  BY <1>6, ApprovalElsewhere DEF vars, NothingSaved, ApprovalsKept
<1> QED
  BY <1>1, <1>2, <1>3, <1>4, <1>5, <1>6, ApprovalEffect

(***************************************************************************)
(* Failed calls and restarts are counted, never forgotten.                 *)
(***************************************************************************)
LEMMA CountersGrow ==
    ASSUME TypeOK, [Next]_vars
    PROVE  /\ aborts' = 0 => aborts = 0
           /\ crashes' = 0 => crashes = 0
<1>1. ASSUME NEW h \in Handlers, Progress(h)
      PROVE  aborts' = aborts /\ crashes' = crashes
  BY <1>1 DEF Progress, TradeSaved, Deliberated, DecisionSaved, CheckSaved, Routed,
     RoutingSaved, SubmissionJournaled, ActionSaved, ClosePublished, AnalysisSaved,
     CloseSaved, CloseJournaled, MemorySaved
<1>2. ASSUME NEW h \in Handlers, NEW t \in Trades, Request(h, t)
      PROVE  aborts' = aborts /\ crashes' = crashes
  BY <1>2 DEF Request, Submit, ActOnApproval, Approve, Close
<1>3. ASSUME \/ \E t \in Trades : ApproveRefused(t)
             \/ \E v \in BOOLEAN : SetHalted(v)
             \/ \E l \in LimitChoices : SetRiskLimits(l)
             \/ UNCHANGED vars
      PROVE  aborts' = aborts /\ crashes' = crashes
  BY <1>3 DEF ApproveRefused, SetHalted, SetRiskLimits, vars
<1>4. ASSUME NEW h \in Handlers, Abort(h)
      PROVE  aborts' = aborts + 1 /\ crashes' = crashes
  BY <1>4 DEF Abort
<1>5. CASE Restart
  BY <1>5 DEF Restart, TypeOK
<1> QED
  BY <1>1, <1>2, <1>3, <1>4, <1>5 DEF Next, TypeOK

(***************************************************************************)
(* A quiet process has stored what it serves, but for approvals.           *)
(***************************************************************************)
LEMMA QuietRecords ==
    ASSUME Inductive, CatchingUp, Quiet
    PROVE  /\ \A t \in Trades :
                 /\ db[t].trade = mem[t].trade
                 /\ db[t].decided = mem[t].decided
                 /\ db[t].verdict = mem[t].verdict
                 /\ db[t].analysed = mem[t].analysed
                 /\ db[t].journal = mem[t].journal
           /\ crashes = 0 => \A t \in Trades :
                 mem[t].state = "CLOSED" => mem[t].journal >= 2 /\ t \in memories
<1>0. TypeOK
  BY DEF Inductive
<1>1. \A h \in Handlers : pc[h] = "idle"
  BY DEF Quiet
<1>2. \A t : /\ ~Awaited(t, {"save_trade"}) /\ ~Awaited(t, {"save_decision"})
             /\ ~Awaited(t, {"save_check"}) /\ ~Awaited(t, {"save_analysis"})
             /\ ~Awaited(t, {"save_routing"}) /\ ~Awaited(t, {"save_close"})
             /\ ~Awaited(t, {"save_close", "journal_close", "save_memory"})
  BY <1>1 DEF Awaited, Waiting
<1>3. \A t : Waiting(t, JournalSaves) = {}
  BY <1>1 DEF Waiting, JournalSaves
<1>4. \A t \in Trades : db[t].journal = mem[t].journal
  <2> TAKE t \in Trades
  <2>1. mem[t].journal = db[t].journal + Cardinality(Waiting(t, JournalSaves))
    BY DEF CatchingUp, Quiet, JournalIsPending
  <2>2. mem[t].journal = db[t].journal + 0
    BY <1>3, <2>1, FS_EmptySet
  <2> QED
    BY <1>0, <2>2 DEF TypeOK, Rows
<1>5. \A t \in Trades :
         /\ db[t].trade = mem[t].trade
         /\ db[t].decided = mem[t].decided
         /\ db[t].verdict = mem[t].verdict
         /\ db[t].analysed = mem[t].analysed
  BY <1>2 DEF CatchingUp, Quiet, RecordsArePending
<1>6. ASSUME crashes = 0, NEW t \in Trades, mem[t].state = "CLOSED"
      PROVE  mem[t].journal >= 2 /\ t \in memories
  BY <1>2, <1>6 DEF CatchingUp, Quiet, ClosingIsPending, ClosingOf
<1> QED
  BY <1>4, <1>5, <1>6

(***************************************************************************)
(* A quiet process whose approvals are pending as they are has stored all  *)
(* that it serves.                                                         *)
(***************************************************************************)
LEMMA QuietApprovals ==
    ASSUME Inductive, CatchingUp, ApprovalIsPending, Quiet
    PROVE  \A t \in Trades : db[t] = mem[t]
<1> TAKE t \in Trades
<1>1. db[t] \in Rows /\ mem[t] \in Rows
  BY DEF Inductive, TypeOK
<1>2. ~Awaited(t, ApprovalSaves)
  BY DEF Quiet, Awaited, Waiting, ApprovalSaves
<1>3. db[t].state = mem[t].state /\ db[t].actions = mem[t].actions
  BY <1>2 DEF ApprovalIsPending, Snapshot
<1>4. /\ db[t].trade = mem[t].trade
      /\ db[t].decided = mem[t].decided
      /\ db[t].verdict = mem[t].verdict
      /\ db[t].analysed = mem[t].analysed
      /\ db[t].journal = mem[t].journal
  BY QuietRecords
<1> QED
  BY <1>1, <1>3, <1>4 DEF Rows

(***************************************************************************)
(* In every process, however many requests are in flight, all that the     *)
(* store lacks is about to be written.                                     *)
(***************************************************************************)
LEMMA AlwaysCatchingUp == Spec => [](Inductive /\ CatchingUp)
<1>1. Init => Inductive /\ CatchingUp
  <2> SUFFICES ASSUME Init PROVE CatchingUp
    BY InductiveInit
  <2>1. \A t \in Trades : mem[t] = EmptyRow /\ db[t] = EmptyRow
    BY DEF Init
  <2>2. \A t, calls : "idle" \notin calls => Waiting(t, calls) = {}
    BY DEF Init, Waiting
  <2>3. RecordsArePending
    BY <2>1 DEF RecordsArePending
  <2>4. JournalIsPending
    <3>1. \A t : Waiting(t, JournalSaves) = {}
      BY <2>2 DEF JournalSaves
    <3>2. EmptyRow.journal = 0
      BY DEF EmptyRow
    <3> QED
      BY <2>1, <3>1, <3>2, FS_EmptySet DEF JournalIsPending
  <2>5. ClosingIsPending
    BY <2>1 DEF ClosingIsPending, ClosingOf, EmptyRow, NoApproval
  <2> QED
    BY <2>3, <2>4, <2>5 DEF CatchingUp
<1>2. Inductive /\ CatchingUp /\ [Next]_vars => (Inductive /\ CatchingUp)'
  <2> SUFFICES ASSUME Inductive, CatchingUp, [Next]_vars, aborts' = 0
               PROVE  /\ RecordsArePending'
                      /\ JournalIsPending'
                      /\ crashes' = 0 => ClosingIsPending'
    BY InductiveNext DEF CatchingUp
  <2>1. TypeOK
    BY DEF Inductive
  <2>2. aborts = 0 /\ (crashes' = 0 => crashes = 0)
    BY <2>1, CountersGrow
  <2>3. RecordsArePending /\ JournalIsPending /\ (crashes = 0 => ClosingIsPending)
    BY <2>2 DEF CatchingUp
  <2>4. RecordsArePending'
    BY <2>2, <2>3, RecordsPendingNext
  <2>5. JournalIsPending'
    BY <2>1, <2>2, <2>3, JournalPendingNext
  <2>6. crashes' = 0 => ClosingIsPending'
    BY <2>2, <2>3, ClosingPendingNext
  <2> QED
    BY <2>4, <2>5, <2>6
<1> QED
  BY <1>1, <1>2, PTL DEF Spec

(***************************************************************************)
(* When no call is in flight and none has failed, the store holds what     *)
(* memory serves, and every trade closed since the start has its analysis, *)
(* both journal entries and its memory record: provided no two saves of    *)
(* one approval ever overlapped and no payload carried a quantity that is  *)
(* no number (persist_approval, the save_... calls of submit_trade_idea    *)
(* and close_trade).                                                       *)
(***************************************************************************)
THEOREM StoreCatchesUp ==
    ASSUME ~RefusedQuantities
    PROVE  Spec /\ []OneSavePerApproval => []QuietStoreMatchesMemory
<1> DEFINE Inv == /\ Inductive
                  /\ CatchingUp
                  /\ UndecidedIsUnlogged
                  /\ aborts = 0 => ApprovalIsPending
<1>1. Init => UndecidedIsUnlogged /\ ApprovalIsPending
  <2> SUFFICES ASSUME Init PROVE UndecidedIsUnlogged /\ ApprovalIsPending
    OBVIOUS
  <2>1. \A t \in Trades : mem[t] = EmptyRow /\ db[t] = EmptyRow
    BY DEF Init
  <2>2. UndecidedIsUnlogged
    BY <2>1 DEF UndecidedIsUnlogged, EmptyRow
  <2>3. \A t : Waiting(t, ApprovalSaves) = {}
    BY DEF Init, Waiting, ApprovalSaves
  <2> QED
    BY <2>1, <2>2, <2>3 DEF ApprovalIsPending
<1>2. ASSUME Inductive, UndecidedIsUnlogged, aborts = 0 => ApprovalIsPending,
             [Next]_vars, OneSavePerApproval'
      PROVE  UndecidedIsUnlogged' /\ (aborts' = 0 => ApprovalIsPending')
  <2>1. TypeOK
    BY <1>2 DEF Inductive
  <2>2. aborts' = 0 => aborts = 0
    BY <1>2, <2>1, CountersGrow
  <2> QED
    BY <1>2, <2>2, UndecidedNext, ApprovalPendingNext
<1>3. Inductive /\ CatchingUp /\ (aborts = 0 => ApprovalIsPending) => QuietStoreMatchesMemory
  BY QuietRecords, QuietApprovals DEF QuietStoreMatchesMemory, Quiet
<1>4. Inductive /\ UndecidedIsUnlogged /\ (aborts = 0 => ApprovalIsPending)
        /\ [Next]_vars /\ OneSavePerApproval'
      => UndecidedIsUnlogged' /\ (aborts = 0 => ApprovalIsPending)'
  BY <1>2
<1> QED
  BY <1>1, <1>3, <1>4, AlwaysCatchingUp, PTL DEF Spec

(***************************************************************************)
(* Without those two provisos, however many requests interleave: what is   *)
(* written once is stored when the process is quiet, and the journal is    *)
(* complete. Only the approval itself may be an older one.                 *)
(***************************************************************************)
THEOREM RecordsCatchUp ==
    Spec => [](Quiet =>
        /\ \A t \in Trades :
              /\ db[t].trade = mem[t].trade
              /\ db[t].decided = mem[t].decided
              /\ db[t].verdict = mem[t].verdict
              /\ db[t].analysed = mem[t].analysed
              /\ db[t].journal = mem[t].journal
        /\ crashes = 0 => \A t \in Trades :
              mem[t].state = "CLOSED" => mem[t].journal >= 2 /\ t \in memories)
<1> DEFINE stored ==
       /\ \A t \in Trades :
             /\ db[t].trade = mem[t].trade
             /\ db[t].decided = mem[t].decided
             /\ db[t].verdict = mem[t].verdict
             /\ db[t].analysed = mem[t].analysed
             /\ db[t].journal = mem[t].journal
       /\ crashes = 0 => \A t \in Trades :
             mem[t].state = "CLOSED" => mem[t].journal >= 2 /\ t \in memories
<1>1. Inductive /\ CatchingUp => (Quiet => stored)
  BY QuietRecords
<1> QED
  BY <1>1, AlwaysCatchingUp, PTL

(***************************************************************************)
(* One request at a time overlaps with none.                               *)
(***************************************************************************)
COROLLARY OneRequestAtATime ==
    ASSUME ~RefusedQuantities, \A g, h \in Handlers : g = h
    PROVE  Spec => []QuietStoreMatchesMemory
<1>1. OneSavePerApproval
  BY DEF OneSavePerApproval, Waiting
<1> QED
  BY <1>1, StoreCatchesUp, PTL

-----------------------------------------------------------------------------
(***************************************************************************)
(* The refinement.  Every step of the lifecycle does one of five things to *)
(* what the promise sees: nothing, a move of one trade, the end of one     *)
(* save, the beginning or the end of a close, a restart.                   *)
(***************************************************************************)

\* Every state of an approval, or none, is one of the promised places.
LEMMA PlaceType == \A s : Place(s) \in Promise!Places
  BY DEF Place, Promise!Places

\* Only a decided trade is being closed.
ClosingIsOpen ==
    \A h \in Handlers :
        pc[h] \in Closes => Place(mem[on[h]].state) \notin {"undecided", "vetoed"}

PromisedStep == [Promise!Next]_(Promise!promise)

\* What the promise sees of the trades, of the coroutines.
SameStates == \A t \in Trades : mem'[t].state = mem[t].state
SameStored == \A t \in Trades : db'[t].state = db[t].state
SameCoroutine(h) == pc'[h] = pc[h] /\ on'[h] = on[h] /\ snap'[h].state = snap[h].state

-----------------------------------------------------------------------------
(* The five effects *)

\* No trade changes its state.
LEMMA LiveUnchanged ==
    ASSUME SameStates
    PROVE  LivePlaces' = LivePlaces
  BY DEF SameStates, LivePlaces

\* No save begins or ends.
LEMMA RecoverableUnchanged ==
    ASSUME SameStored,
           \A h \in Handlers : SameCoroutine(h) \/ {pc[h], pc'[h]} \cap Saves = {}
    PROVE  RecoverablePlaces' = RecoverablePlaces
<1>1. ASSUME NEW t \in Trades
      PROVE  Recoverable(t)' = Recoverable(t)
  BY DEF Recoverable, Saving, SameStored, SameCoroutine
<1> QED
  BY <1>1 DEF RecoverablePlaces

\* No close begins or ends.
LEMMA ClosingUnchanged ==
    ASSUME \A h \in Handlers :
             \/ on'[h] = on[h] /\ (pc'[h] \in Closes <=> pc[h] \in Closes)
             \/ {pc[h], pc'[h]} \cap Closes = {}
    PROVE  Closing' = Closing
  BY DEF Closing

\* A coroutine that sets out to save the approval of t, or has set it only in memory.
LEMMA RecoverableGrows ==
    ASSUME SameStored, NEW h \in Handlers, NEW t \in Trades,
           pc[h] \notin Saves, pc'[h] \in Saves, on'[h] = t,
           snap'[h].state = mem'[t].state,
           \A g \in Handlers : g # h => SameCoroutine(g)
    PROVE  RecoverablePlaces' =
             [RecoverablePlaces EXCEPT ![t] = @ \cup {Place(mem'[t].state)}]
<1>1. Recoverable(t)' = Recoverable(t) \cup {Place(mem'[t].state)}
  BY DEF Recoverable, Saving, SameStored, SameCoroutine
<1>2. ASSUME NEW u \in Trades, u # t
      PROVE  Recoverable(u)' = Recoverable(u)
  BY <1>2 DEF Recoverable, Saving, SameStored, SameCoroutine
<1> QED
  BY <1>1, <1>2 DEF RecoverablePlaces

\* A save arrives or fails: what it carried is stored, or is lost.
LEMMA SaveSettles ==
    ASSUME SameStates, NEW h \in Handlers, NEW t \in Trades,
           pc[h] \in Saves, on[h] = t, pc'[h] \notin Saves \cup Closes,
           db'[t].state \in {db[t].state, snap[h].state},
           \A u \in Trades : u # t => db'[u].state = db[u].state,
           \A g \in Handlers : g # h => SameCoroutine(g)
    PROVE  Promise!Next
<1> DEFINE left == Recoverable(t)'
<1>1. left \subseteq Recoverable(t) /\ left # {}
  BY DEF Recoverable, Saving, SameCoroutine
<1>2. left \in SUBSET Promise!Places
  BY PlaceType DEF Recoverable
<1>3. ASSUME NEW u \in Trades, u # t
      PROVE  Recoverable(u)' = Recoverable(u)
  BY <1>3 DEF Recoverable, Saving, SameCoroutine
<1>4. RecoverablePlaces' = [RecoverablePlaces EXCEPT ![t] = left]
  <2> HIDE DEF left
  <2>1. RecoverablePlaces' = [u \in Trades |-> Recoverable(u)']
    BY DEF RecoverablePlaces
  <2> QED
    BY <1>3, <2>1 DEF RecoverablePlaces, left
<1>5. Closing' = Closing
  BY ClosingUnchanged DEF SameCoroutine, Saves, Closes
<1>6. LivePlaces' = LivePlaces
  BY LiveUnchanged
<1>7. RecoverablePlaces[t] = Recoverable(t)
  BY DEF RecoverablePlaces
<1> HIDE DEF left
<1>8. Promise!Settle(t, left)
  BY <1>1, <1>4, <1>5, <1>6, <1>7 DEF Promise!Settle
<1> QED
  BY <1>2, <1>8 DEF Promise!Next

\* One trade goes to another place.
LEMMA LiveMoves ==
    ASSUME NEW t \in Trades, \A u \in Trades : u # t => mem'[u].state = mem[u].state
    PROVE  LivePlaces' = [LivePlaces EXCEPT ![t] = Place(mem'[t].state)]
  BY DEF LivePlaces

\* A move, whether or not it sets out to be saved.
LEMMA TradeMoves ==
    ASSUME NEW t \in Trades, \A u \in Trades : u # t => mem'[u].state = mem[u].state,
           <<Place(mem[t].state), Place(mem'[t].state)>> \in Promise!Moves,
           \/ RecoverablePlaces' = RecoverablePlaces
           \/ RecoverablePlaces' =
                [RecoverablePlaces EXCEPT ![t] = @ \cup {Place(mem'[t].state)}],
           IF Place(mem'[t].state) = "closed"
           THEN t \in Closing /\ Closing' \in {Closing, Closing \ {t}}
           ELSE Closing' = Closing
    PROVE  Promise!Next
<1> DEFINE to == Place(mem'[t].state)
<1>1. LivePlaces[t] = Place(mem[t].state) /\ to \in Promise!Places
  BY PlaceType DEF LivePlaces
<1>2. LivePlaces' = [LivePlaces EXCEPT ![t] = to]
  BY LiveMoves
<1> HIDE DEF to
<1>3. Promise!Move(t, to)
  BY <1>1, <1>2 DEF Promise!Move, to
<1> QED
  BY <1>1, <1>3 DEF Promise!Next
-----------------------------------------------------------------------------
(* ClosingIsOpen is kept *)

\* No move leads a decided trade back, and no close begins.
LEMMA ClosingStaysOpen ==
    ASSUME TypeOK, ClosingIsOpen,
           \A t \in Trades : \/ mem'[t].state = mem[t].state
                            \/ <<Place(mem[t].state), Place(mem'[t].state)>>
                                  \in Promise!Moves,
           \A h \in Handlers :
              pc'[h] \in Closes => pc[h] \in Closes /\ on'[h] = on[h]
    PROVE  ClosingIsOpen'
<1> SUFFICES ASSUME NEW h \in Handlers, pc'[h] \in Closes
             PROVE  Place(mem'[on'[h]].state) \notin {"undecided", "vetoed"}
  BY DEF ClosingIsOpen
<1>1. pc[h] \in Closes /\ on'[h] = on[h]
  OBVIOUS
<1>2. on[h] \in Trades
  BY <1>1 DEF TypeOK, Closes
<1>3. Place(mem[on[h]].state) \notin {"undecided", "vetoed"}
  BY <1>1 DEF ClosingIsOpen
<1> QED
  BY <1>1, <1>2, <1>3 DEF Promise!Moves

-----------------------------------------------------------------------------
(* The steps, by effect *)

\* Nothing the promise speaks of.
LEMMA QuietStep ==
    ASSUME TypeOK, ClosingIsOpen, SameStates, SameStored,
           \A h \in Handlers :
              \/ SameCoroutine(h)
              \/ /\ {pc[h], pc'[h]} \cap Saves = {}
                 /\ \/ on'[h] = on[h] /\ {pc[h], pc'[h]} \subseteq Closes
                    \/ {pc[h], pc'[h]} \cap Closes = {}
    PROVE  ClosingIsOpen' /\ PromisedStep
<1>1. RecoverablePlaces' = RecoverablePlaces
  BY RecoverableUnchanged
<1>2. Closing' = Closing
  BY ClosingUnchanged DEF SameCoroutine
<1>3. LivePlaces' = LivePlaces
  BY LiveUnchanged
<1>4. ClosingIsOpen'
  BY ClosingStaysOpen DEF SameCoroutine, SameStates
<1> QED
  BY <1>1, <1>2, <1>3, <1>4 DEF PromisedStep, Promise!promise

\* A coroutine that moves a trade and sets out to save it.
LEMMA DecisionStep ==
    ASSUME TypeOK, ClosingIsOpen, SameStored, NEW h \in Handlers, NEW t \in Trades,
           \A u \in Trades : u # t => mem'[u].state = mem[u].state,
           <<Place(mem[t].state), Place(mem'[t].state)>> \in Promise!Moves,
           Place(mem'[t].state) # "closed",
           pc[h] \notin Saves \cup Closes, pc'[h] \in Saves, on'[h] = t,
           snap'[h].state = mem'[t].state,
           \A g \in Handlers : g # h => SameCoroutine(g)
    PROVE  ClosingIsOpen' /\ PromisedStep
<1>1. Closing' = Closing
  BY ClosingUnchanged DEF SameCoroutine, Saves, Closes
<1>2. ClosingIsOpen'
  BY ClosingStaysOpen DEF SameCoroutine, Saves, Closes
<1>3. RecoverablePlaces' =
        [RecoverablePlaces EXCEPT ![t] = @ \cup {Place(mem'[t].state)}]
  BY RecoverableGrows
<1>4. Promise!Next
  BY <1>1, <1>3, TradeMoves
<1> QED
  BY <1>2, <1>4 DEF PromisedStep

\* A save that arrives or fails.
LEMMA SaveStep ==
    ASSUME TypeOK, ClosingIsOpen, SameStates, NEW h \in Handlers,
           pc[h] \in Saves, pc'[h] \notin Saves \cup Closes,
           db'[on[h]].state \in {db[on[h]].state, snap[h].state},
           \A u \in Trades : u # on[h] => db'[u].state = db[u].state,
           \A g \in Handlers : g # h => SameCoroutine(g)
    PROVE  ClosingIsOpen' /\ PromisedStep
<1>1. on[h] \in Trades
  BY DEF TypeOK, Saves
<1>2. Promise!Next
  BY <1>1, SaveSettles
<1>3. ClosingIsOpen'
  BY ClosingStaysOpen DEF SameStates, SameCoroutine
<1> QED
  BY <1>2, <1>3 DEF PromisedStep

-----------------------------------------------------------------------------
(* Every step *)

\* A submission before and after its routing: only records the promise ignores.
LEMMA SubmissionSteps ==
    ASSUME Inductive, ClosingIsOpen, NEW h \in Handlers,
           \/ \E t \in Trades : Submit(h, t)
           \/ TradeSaved(h) \/ Deliberated(h) \/ DecisionSaved(h) \/ CheckSaved(h)
           \/ SubmissionJournaled(h)
    PROVE  ClosingIsOpen' /\ PromisedStep
<1>1. TypeOK
  BY DEF Inductive
<1>2. CASE \E t \in Trades : Submit(h, t)
  <2>1. SameStates /\ SameStored
    BY <1>1, <1>2 DEF Submit, TypeOK, Rows, SameStates, SameStored
  <2>2. \A g \in Handlers : \/ SameCoroutine(g)
                            \/ pc[g] = "idle" /\ pc'[g] = "save_trade"
    BY <1>1, <1>2 DEF Submit, Begin, TypeOK, SameCoroutine
  <2> QED
    BY <1>1, <2>1, <2>2, QuietStep DEF Saves, Closes
<1>3. CASE TradeSaved(h)
  <2>1. SameStates /\ SameStored
    BY <1>1, <1>3 DEF TradeSaved, TypeOK, Rows, SameStates, SameStored
  <2>2. \A g \in Handlers : \/ SameCoroutine(g)
                            \/ pc[g] = "save_trade" /\ pc'[g] = "deliberate"
    BY <1>1, <1>3 DEF TradeSaved, Await, TypeOK, SameCoroutine
  <2> QED
    BY <1>1, <2>1, <2>2, QuietStep DEF Saves, Closes
<1>4. CASE Deliberated(h)
  <2>1. SameStates /\ SameStored
    BY <1>1, <1>4 DEF Deliberated, TypeOK, Rows, SameStates, SameStored
  <2>2. \A g \in Handlers : \/ SameCoroutine(g)
                            \/ pc[g] = "deliberate" /\ pc'[g] = "save_decision"
    BY <1>1, <1>4 DEF Deliberated, Await, TypeOK, SameCoroutine
  <2> QED
    BY <1>1, <2>1, <2>2, QuietStep DEF Saves, Closes
<1>5. CASE DecisionSaved(h)
  <2>1. SameStates /\ SameStored
    BY <1>1, <1>5 DEF DecisionSaved, TypeOK, Rows, SameStates, SameStored
  <2>2. \A g \in Handlers : \/ SameCoroutine(g)
                            \/ pc[g] = "save_decision" /\ pc'[g] = "save_check"
    BY <1>1, <1>5 DEF DecisionSaved, Await, TypeOK, SameCoroutine
  <2> QED
    BY <1>1, <2>1, <2>2, QuietStep DEF Saves, Closes
<1>6. CASE CheckSaved(h)
  <2>1. SameStates /\ SameStored
    BY <1>1, <1>6 DEF CheckSaved, TypeOK, Rows, SameStates, SameStored
  <2>2. \A g \in Handlers : \/ SameCoroutine(g)
                            \/ pc[g] = "save_check" /\ pc'[g] = "consult_cia"
    BY <1>1, <1>6 DEF CheckSaved, Await, TypeOK, SameCoroutine
  <2> QED
    BY <1>1, <2>1, <2>2, QuietStep DEF Saves, Closes
<1>7. CASE SubmissionJournaled(h)
  <2>1. SameStates /\ SameStored
    BY <1>1, <1>7 DEF SubmissionJournaled, TypeOK, Rows, SameStates, SameStored
  <2>2. \A g \in Handlers : \/ SameCoroutine(g)
                            \/ pc[g] = "journal_submission" /\ pc'[g] = "idle"
    BY <1>1, <1>7 DEF SubmissionJournaled, Finish, TypeOK, SameCoroutine
  <2> QED
    BY <1>1, <2>1, <2>2, QuietStep DEF Saves, Closes
<1> QED
  BY <1>2, <1>3, <1>4, <1>5, <1>6, <1>7

\* The committee's and the governor's decision: the first move of a trade.
LEMMA RoutedKeepsPromise ==
    ASSUME Inductive, ClosingIsOpen, NEW h \in Handlers, Routed(h)
    PROVE  ClosingIsOpen' /\ PromisedStep
<1>1. TypeOK /\ pc[h] = "consult_cia" /\ on[h] \in Trades
  BY DEF Inductive, Routed, Await, TypeOK
<1>2. mem[on[h]].state = NoApproval
  BY <1>1 DEF Inductive, SubmitterIsAlone, BeforeApproval
<1>3. PICK s : /\ s \in {"RISK_REVIEW", "HUMAN_REVIEW", "REJECTED"}
               /\ mem' = [mem EXCEPT ![on[h]].state = s]
               /\ snap' = [snap EXCEPT ![h] = [state |-> s, actions |-> << >>]]
  BY DEF Routed, InitialState
<1>4. /\ mem'[on[h]].state = s /\ snap'[h].state = s
      /\ \A u \in Trades : u # on[h] => mem'[u].state = mem[u].state
      /\ SameStored
  BY <1>1, <1>3 DEF TypeOK, Rows, Routed, SameStored
<1>5. /\ pc'[h] = "save_routing" /\ on'[h] = on[h]
      /\ \A g \in Handlers : g # h => SameCoroutine(g)
  BY <1>1, <1>3 DEF TypeOK, Routed, Await, SameCoroutine
<1>6. /\ <<Place(mem[on[h]].state), Place(s)>> \in Promise!Moves
      /\ Place(s) # "closed"
  BY <1>2, <1>3 DEF Place, NoApproval, Promise!Moves
<1>7. pc[h] \notin Saves \cup Closes /\ pc'[h] \in Saves
  BY <1>1, <1>5 DEF Saves, Closes
<1> QED
  BY <1>1, <1>4, <1>5, <1>6, <1>7, DecisionStep

\* Where a person's action may take a trade.
LEMMA ActionMoves ==
    ASSUME NEW t \in Trades, NEW a, NEW s, Actionable(t, a),
           mem[t].state \in ApprovalStates \cup {NoApproval},
           \/ s \in {"REJECTED", "AI_REVIEW", "HUMAN_REVIEW"}
           \/ a = "APPROVE" /\ s \in {"EXECUTED_SIMULATION", "APPROVED_FOR_PAPER_TRADING"}
    PROVE  <<Place(mem[t].state), Place(s)>> \in Promise!Moves /\ Place(s) # "closed"
<1>1. Place(mem[t].state) \in {"vetoed", "open", "executed"}
  BY DEF Actionable, Terminal, ApprovalStates, Place, NoApproval
<1>2. a = "APPROVE" => Place(mem[t].state) # "vetoed"
  BY DEF Actionable, Place, NoApproval
<1> QED
  BY <1>1, <1>2 DEF Place, NoApproval, Promise!Moves

\* POST /approvals/{id}/action, answered.
LEMMA ActionSteps ==
    ASSUME Inductive, ClosingIsOpen, NEW h \in Handlers, NEW t \in Trades,
           Approve(h, t) \/ \E a \in HumanActions : ActOnApproval(h, t, a)
    PROVE  ClosingIsOpen' /\ PromisedStep
<1>1. TypeOK /\ mem[t] \in Rows
  BY DEF Inductive, TypeOK
<1>2. PICK a, s : /\ Actionable(t, a)
                  /\ mem' = [mem EXCEPT ![t] = Logged(t, a, s)]
                  /\ \/ s \in {"REJECTED", "AI_REVIEW", "HUMAN_REVIEW"}
                     \/ a = "APPROVE" /\ s = "EXECUTED_SIMULATION"
  BY DEF Approve, ActOnApproval, Target
<1>3. Begin(h, t, "save_action") /\ snap' = [snap EXCEPT ![h] = Snapshot(mem'[t])]
      /\ db' = db
  BY DEF Approve, ActOnApproval
<1>4. mem[t].state \in ApprovalStates \cup {NoApproval}
  BY <1>1 DEF Rows
<1>5. /\ mem'[t].state = s
      /\ \A u \in Trades : u # t => mem'[u].state = mem[u].state
  BY <1>1, <1>2 DEF TypeOK, Rows, Logged
<1>6. /\ snap'[h].state = mem'[t].state /\ pc[h] = "idle" /\ pc'[h] = "save_action"
      /\ on'[h] = t /\ \A g \in Handlers : g # h => SameCoroutine(g)
  BY <1>1, <1>3 DEF TypeOK, Begin, Snapshot, SameCoroutine
<1>7. SameStored /\ pc[h] \notin Saves \cup Closes /\ pc'[h] \in Saves
  BY <1>3, <1>6 DEF SameStored, Saves, Closes
<1>8. <<Place(mem[t].state), Place(s)>> \in Promise!Moves /\ Place(s) # "closed"
  BY <1>2, <1>4, ActionMoves
<1> QED
  BY <1>1, <1>5, <1>6, <1>7, <1>8, DecisionStep

\* The one move that nobody sets out to save.
LEMMA RefusalKeepsPromise ==
    ASSUME Inductive, ClosingIsOpen, NEW t \in Trades, ApproveRefused(t)
    PROVE  ClosingIsOpen' /\ PromisedStep
<1> DEFINE s == "APPROVED_FOR_PAPER_TRADING"
<1>1. TypeOK /\ mem[t] \in Rows /\ mem[t].state \in ApprovalStates \cup {NoApproval}
  BY DEF Inductive, TypeOK, Rows
<1>2. /\ mem'[t].state = s
      /\ \A u \in Trades : u # t => mem'[u].state = mem[u].state
  BY <1>1 DEF ApproveRefused, TypeOK, Rows, Logged
<1>3. SameStored /\ \A g \in Handlers : SameCoroutine(g)
  BY DEF ApproveRefused, handlerVars, SameStored, SameCoroutine
<1>4. <<Place(mem[t].state), Place(s)>> \in Promise!Moves /\ Place(s) # "closed"
  BY <1>1, ActionMoves DEF ApproveRefused
<1>5. RecoverablePlaces' = RecoverablePlaces
  BY <1>3, RecoverableUnchanged
<1>6. Closing' = Closing
  BY <1>3, ClosingUnchanged DEF SameCoroutine
<1>7. ClosingIsOpen'
  BY <1>1, <1>2, <1>3, <1>4, ClosingStaysOpen DEF SameCoroutine
<1>8. Promise!Next
  BY <1>2, <1>4, <1>5, <1>6, TradeMoves
<1> QED
  BY <1>7, <1>8 DEF PromisedStep

\* The three saves of an approval arrive.
LEMMA SaveSteps ==
    ASSUME Inductive, ClosingIsOpen, NEW h \in Handlers,
           RoutingSaved(h) \/ ActionSaved(h) \/ CloseSaved(h)
    PROVE  ClosingIsOpen' /\ PromisedStep
<1>1. TypeOK /\ pc[h] \in Saves /\ on[h] \in Trades /\ db[on[h]] \in Rows
  BY DEF Inductive, TypeOK, Saves, RoutingSaved, ActionSaved, CloseSaved, Await, Finish
<1>2. SameStates
  BY <1>1 DEF RoutingSaved, ActionSaved, CloseSaved, TypeOK, Rows, SameStates
<1>3. db' = [db EXCEPT ![on[h]] = WithSnapshot(@, snap[h])]
  BY DEF RoutingSaved, ActionSaved, CloseSaved
<1>4. /\ db'[on[h]].state = snap[h].state
      /\ \A u \in Trades : u # on[h] => db'[u].state = db[u].state
  BY <1>1, <1>3 DEF TypeOK, Rows, WithSnapshot
<1>5. pc'[h] \in {"journal_submission", "idle", "journal_close"}
  BY <1>1 DEF TypeOK, RoutingSaved, ActionSaved, CloseSaved, Await, Finish
<1>6. \A g \in Handlers : g # h => SameCoroutine(g)
  BY <1>1 DEF TypeOK, RoutingSaved, ActionSaved, CloseSaved, Await, Finish, SameCoroutine
<1>7. pc'[h] \notin Saves \cup Closes
  BY <1>5 DEF Saves, Closes
<1> QED
  BY <1>1, <1>2, <1>4, <1>6, <1>7, SaveStep

\* close_trade begins, on an executed trade.
LEMMA CloseKeepsPromise ==
    ASSUME Inductive, ClosingIsOpen, NEW h \in Handlers, NEW t \in Trades, Close(h, t)
    PROVE  ClosingIsOpen' /\ PromisedStep
<1>1. /\ TypeOK /\ mem[t].state = "EXECUTED_SIMULATION"
      /\ pc[h] = "idle" /\ pc'[h] = "publish_close" /\ on'[h] = t
      /\ \A g \in Handlers : g # h => SameCoroutine(g)
  BY DEF Inductive, TypeOK, Close, Begin, SameCoroutine
<1>2. SameStates /\ SameStored /\ mem' = mem
  BY DEF Close, SameStates, SameStored
<1>3. pc[h] \notin Closes \cup Saves /\ pc'[h] \in Closes \ Saves
  BY <1>1 DEF Saves, Closes
<1>4. Place("EXECUTED_SIMULATION") = "executed"
  BY DEF Place, NoApproval
<1>5. RecoverablePlaces' = RecoverablePlaces
  BY <1>1, <1>2, <1>3, RecoverableUnchanged
<1>6. Closing' = Closing \cup {t}
  BY <1>1, <1>3 DEF Closing, SameCoroutine
<1>7. LivePlaces' = LivePlaces /\ LivePlaces[t] = "executed"
  BY <1>1, <1>2, <1>4, LiveUnchanged DEF LivePlaces
<1>8. Promise!BeginClose(t)
  BY <1>5, <1>6, <1>7 DEF Promise!BeginClose
<1>9. ClosingIsOpen'
  BY <1>1, <1>2, <1>4 DEF ClosingIsOpen, SameCoroutine
<1> QED
  BY <1>8, <1>9 DEF PromisedStep, Promise!Next

\* close_trade around its assignment of CLOSED.
LEMMA CloseSteps ==
    ASSUME Inductive, ClosingIsOpen, NEW h \in Handlers,
           ClosePublished(h) \/ CloseJournaled(h) \/ MemorySaved(h)
    PROVE  ClosingIsOpen' /\ PromisedStep
<1>1. TypeOK
  BY DEF Inductive
<1>2. CASE ClosePublished(h)
  <2>1. SameStates /\ SameStored
    BY <1>1, <1>2 DEF ClosePublished, TypeOK, Rows, SameStates, SameStored
  <2>2. \A g \in Handlers :
           \/ SameCoroutine(g)
           \/ pc[g] = "publish_close" /\ pc'[g] = "save_analysis" /\ on'[g] = on[g]
    BY <1>1, <1>2 DEF ClosePublished, Await, TypeOK, SameCoroutine
  <2> QED
    BY <1>1, <2>1, <2>2, QuietStep DEF Saves, Closes
<1>3. CASE CloseJournaled(h)
  <2>1. SameStates /\ SameStored
    BY <1>1, <1>3 DEF CloseJournaled, TypeOK, Rows, SameStates, SameStored
  <2>2. \A g \in Handlers : \/ SameCoroutine(g)
                            \/ pc[g] = "journal_close" /\ pc'[g] = "save_memory"
    BY <1>1, <1>3 DEF CloseJournaled, Await, TypeOK, SameCoroutine
  <2> QED
    BY <1>1, <2>1, <2>2, QuietStep DEF Saves, Closes
<1>4. CASE MemorySaved(h)
  <2>1. SameStates /\ SameStored
    BY <1>4 DEF MemorySaved, SameStates, SameStored
  <2>2. \A g \in Handlers : \/ SameCoroutine(g)
                            \/ pc[g] = "save_memory" /\ pc'[g] = "idle"
    BY <1>1, <1>4 DEF MemorySaved, Finish, TypeOK, SameCoroutine
  <2> QED
    BY <1>1, <2>1, <2>2, QuietStep DEF Saves, Closes
<1> QED
  BY <1>2, <1>3, <1>4

\* close_trade sets the approval CLOSED, whatever it is by then.
LEMMA AnalysisKeepsPromise ==
    ASSUME Inductive, ClosingIsOpen, NEW h \in Handlers, AnalysisSaved(h)
    PROVE  ClosingIsOpen' /\ PromisedStep
<1> DEFINE t == on[h]
<1>1. /\ TypeOK /\ pc[h] = "save_analysis" /\ t \in Trades
      /\ pc'[h] = "save_close" /\ on'[h] = t
  BY DEF Inductive, TypeOK, AnalysisSaved, Await
<1>2. /\ mem'[t].state = "CLOSED"
      /\ \A u \in Trades : u # t => mem'[u].state = mem[u].state
      /\ SameStored
  BY <1>1 DEF AnalysisSaved, TypeOK, Rows, SameStored
<1>3. snap'[h].state = "CLOSED" /\ \A g \in Handlers : g # h => SameCoroutine(g)
  BY <1>1, <1>2 DEF AnalysisSaved, Await, TypeOK, Snapshot, SameCoroutine
<1>4. pc[h] \in Closes \ Saves /\ pc'[h] \in Saves \ Closes
  BY <1>1 DEF Saves, Closes
<1>5. Place("CLOSED") = "closed"
  BY DEF Place, NoApproval
<1>6. Place(mem[t].state) \in Promise!Places \ {"undecided", "vetoed"}
  BY <1>4, PlaceType DEF ClosingIsOpen
<1>7. <<Place(mem[t].state), "closed">> \in Promise!Moves
  BY <1>6 DEF Promise!Places, Promise!Moves
<1>8. t \in Closing /\ Closing' \in {Closing, Closing \ {t}}
  <2>1. t \in Closing
    BY <1>4 DEF Closing
  <2>2. CASE \E g \in Handlers : g # h /\ pc[g] \in Closes /\ on[g] = t
    BY <1>3, <1>4, <2>2 DEF Closing, SameCoroutine
  <2>3. CASE \A g \in Handlers : g # h /\ pc[g] \in Closes => on[g] # t
    BY <1>3, <1>4, <2>3 DEF Closing, SameCoroutine
  <2> QED
    BY <2>1, <2>2, <2>3
<1>9. RecoverablePlaces' =
        [RecoverablePlaces EXCEPT ![t] = @ \cup {Place(mem'[t].state)}]
  BY <1>1, <1>2, <1>3, <1>4, RecoverableGrows
<1>10. Promise!Next
  BY <1>1, <1>2, <1>5, <1>7, <1>8, <1>9, TradeMoves
<1>11. ClosingIsOpen'
  BY <1>1, <1>2, <1>3, <1>4, <1>5, <1>7, ClosingStaysOpen DEF SameCoroutine
<1> QED
  BY <1>10, <1>11 DEF PromisedStep

\* A call raises: a save is lost, or a close is given up, or nothing is.
LEMMA AbortKeepsPromise ==
    ASSUME Inductive, ClosingIsOpen, NEW h \in Handlers, Abort(h)
    PROVE  ClosingIsOpen' /\ PromisedStep
<1>1. TypeOK /\ pc[h] # "idle" /\ pc'[h] = "idle" /\ on[h] \in Trades
  BY DEF Inductive, TypeOK, Abort, Finish
<1>2. SameStates /\ SameStored
  BY DEF Abort, SameStates, SameStored
<1>3. \A g \in Handlers : g # h => SameCoroutine(g)
  BY <1>1 DEF TypeOK, Abort, Finish, SameCoroutine
<1>4. pc'[h] \notin Saves \cup Closes
  BY <1>1 DEF Saves, Closes
<1>5. CASE pc[h] \in Saves
  BY <1>1, <1>2, <1>3, <1>4, <1>5, SaveStep DEF SameStored
<1>6. CASE pc[h] \in Closes
  <2>1. pc[h] \notin Saves
    BY <1>6 DEF Saves, Closes
  <2>2. RecoverablePlaces' = RecoverablePlaces
    BY <1>2, <1>3, <1>4, <2>1, RecoverableUnchanged
  <2>3. LivePlaces' = LivePlaces
    BY <1>2, LiveUnchanged
  <2>4. ClosingIsOpen'
    BY <1>1, <1>2, <1>3, <1>4, ClosingStaysOpen DEF SameStates, SameCoroutine
  <2>5. CASE \E g \in Handlers : g # h /\ pc[g] \in Closes /\ on[g] = on[h]
    <3>1. Closing' = Closing
      BY <1>3, <1>4, <1>6, <2>5 DEF Closing, SameCoroutine
    <3> QED
      BY <2>2, <2>3, <2>4, <3>1 DEF PromisedStep, Promise!promise
  <2>6. CASE \A g \in Handlers : g # h /\ pc[g] \in Closes => on[g] # on[h]
    <3>1. Closing' = Closing \ {on[h]}
      BY <1>3, <1>4, <1>6, <2>6 DEF Closing, SameCoroutine
    <3>2. Promise!EndClose(on[h])
      BY <2>2, <2>3, <3>1 DEF Promise!EndClose
    <3> QED
      BY <1>1, <2>4, <3>2 DEF PromisedStep, Promise!Next
  <2> QED
    BY <2>5, <2>6
<1>7. CASE pc[h] \notin Saves \cup Closes
  BY <1>1, <1>2, <1>3, <1>4, <1>7, QuietStep
<1> QED
  BY <1>5, <1>6, <1>7

\* The next process finds what was stored, and nothing in flight.
LEMMA RestartKeepsPromise ==
    ASSUME Inductive, ClosingIsOpen, Restart
    PROVE  ClosingIsOpen' /\ PromisedStep
<1>1. mem' = db /\ db' = db /\ \A h \in Handlers : pc'[h] = "idle"
  BY DEF Restart
<1>2. \A h \in Handlers : pc'[h] \notin Saves \cup Closes
  BY <1>1 DEF Saves, Closes
<1>3. LivePlaces' \in [Trades -> Promise!Places]
  BY PlaceType DEF LivePlaces
<1>4. ASSUME NEW t \in Trades
      PROVE  LivePlaces'[t] \in RecoverablePlaces[t]
  BY <1>1 DEF LivePlaces, RecoverablePlaces, Recoverable
<1>5. RecoverablePlaces' = [t \in Trades |-> {LivePlaces'[t]}]
  <2>1. ASSUME NEW t \in Trades
        PROVE  Recoverable(t)' = {LivePlaces'[t]}
    BY <1>1, <1>2 DEF Recoverable, Saving, LivePlaces
  <2> QED
    BY <2>1 DEF RecoverablePlaces
<1>6. Closing' = {} /\ ClosingIsOpen'
  BY <1>2 DEF Closing, ClosingIsOpen
<1>7. Promise!Restart
  BY <1>3, <1>4, <1>5, <1>6 DEF Promise!Restart
<1> QED
  BY <1>6, <1>7 DEF PromisedStep, Promise!Next

-----------------------------------------------------------------------------
(* The theorem *)

\* The process starts with nothing decided, stored or being closed.
LEMMA PromiseInit == Init => ClosingIsOpen /\ Promise!Init
<1> SUFFICES ASSUME Init PROVE ClosingIsOpen /\ Promise!Init
  OBVIOUS
<1>1. \A t \in Trades : mem[t].state = NoApproval /\ db[t].state = NoApproval
  BY DEF Init, EmptyRow
<1>2. \A h \in Handlers : pc[h] \notin Saves \cup Closes
  BY DEF Init, Saves, Closes
<1>3. Place(NoApproval) = "undecided"
  BY DEF Place
<1>4. LivePlaces = [t \in Trades |-> "undecided"]
  BY <1>1, <1>3 DEF LivePlaces
<1>5. RecoverablePlaces = [t \in Trades |-> {"undecided"}]
  <2>1. ASSUME NEW t \in Trades
        PROVE  Recoverable(t) = {"undecided"}
    BY <1>1, <1>2, <1>3 DEF Recoverable, Saving
  <2> QED
    BY <2>1 DEF RecoverablePlaces
<1>6. Closing = {} /\ ClosingIsOpen
  BY <1>2 DEF Closing, ClosingIsOpen
<1> QED
  BY <1>4, <1>5, <1>6 DEF Promise!Init

\* Every step of the lifecycle is one the promise allows.
LEMMA PromiseNext ==
    ASSUME Inductive, ClosingIsOpen, [Next]_vars
    PROVE  ClosingIsOpen' /\ PromisedStep
<1>1. ASSUME NEW h \in Handlers, Progress(h)
      PROVE  ClosingIsOpen' /\ PromisedStep
  BY <1>1, SubmissionSteps, RoutedKeepsPromise, SaveSteps, CloseSteps,
     AnalysisKeepsPromise DEF Progress
<1>2. ASSUME NEW h \in Handlers, NEW t \in Trades, Request(h, t)
      PROVE  ClosingIsOpen' /\ PromisedStep
  BY <1>2, SubmissionSteps, ActionSteps, CloseKeepsPromise DEF Request
<1>3. ASSUME \/ \E v \in BOOLEAN : SetHalted(v)
             \/ \E l \in LimitChoices : SetRiskLimits(l)
             \/ UNCHANGED vars
      PROVE  ClosingIsOpen' /\ PromisedStep
  <2>1. mem' = mem /\ db' = db /\ pc' = pc /\ on' = on /\ snap' = snap
    BY <1>3 DEF SetHalted, SetRiskLimits, vars, handlerVars
  <2>2. SameStates /\ SameStored /\ \A h \in Handlers : SameCoroutine(h)
    BY <2>1 DEF SameStates, SameStored, SameCoroutine
  <2> QED
    BY <2>2, QuietStep DEF Inductive
<1> QED
  BY <1>1, <1>2, <1>3, RefusalKeepsPromise, AbortKeepsPromise, RestartKeepsPromise
  DEF Next

(***************************************************************************)
(* TradeLifecycle implements ApprovalPromise.  To somebody who sees only   *)
(* where each trade stands, every interleaving of the handlers, failed     *)
(* call and crash looks like the promised workflow: a vetoed trade is      *)
(* opened by a person before it is executed, only a trade that was         *)
(* executed is closed, a closed one stays closed, and a restart finds a    *)
(* trade at a place whose record was saved (approvals.py, close_trade,     *)
(* hydrate).                                                               *)
(***************************************************************************)
THEOREM LifecycleKeepsPromise == Spec => KeepsPromise
<1>1. Init => ClosingIsOpen /\ Promise!Init
  BY PromiseInit
<1>2. Inductive /\ ClosingIsOpen /\ [Next]_vars
        => ClosingIsOpen' /\ [Promise!Next]_(Promise!promise)
  BY PromiseNext DEF PromisedStep
<1> QED
  BY <1>1, <1>2, AlwaysInductive, PTL DEF Spec, KeepsPromise, Promise!Spec
=============================================================================
