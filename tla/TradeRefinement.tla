--------------------------- MODULE TradeRefinement ---------------------------
(***************************************************************************)
(* TradeLifecycle implements ApprovalPromise.                              *)
(***************************************************************************)
EXTENDS TradeLifecycle

Place(state) ==
    IF state = NoApproval THEN "undecided"
    ELSE IF state = "RISK_REVIEW" THEN "vetoed"
    ELSE IF state = "EXECUTED_SIMULATION" THEN "executed"
    ELSE IF state = "REJECTED" THEN "rejected"
    ELSE IF state = "CLOSED" THEN "closed"
    ELSE "open"

\* The calls that save an approval, and those before close_trade has set it CLOSED.
Saves == {"save_routing", "save_action", "save_close"}
Closes == {"publish_close", "save_analysis"}

Saving(t) == {h \in Handlers : on[h] = t /\ pc[h] \in Saves}

LivePlaces == [t \in Trades |-> Place(mem[t].state)]

Recoverable(t) == {Place(db[t].state)} \cup {Place(snap[h].state) : h \in Saving(t)}

RecoverablePlaces == [t \in Trades |-> Recoverable(t)]

Closing == {on[h] : h \in {g \in Handlers : pc[g] \in Closes}}

Promise == INSTANCE ApprovalPromise
           WITH live <- LivePlaces, recoverable <- RecoverablePlaces,
                closing <- Closing

(***************************************************************************)
(* Every step of the handlers, of a crash and of a failed call is a move,  *)
(* a settlement or a restart of the promised workflow, or changes nothing  *)
(* the promise speaks of.                                                  *)
(***************************************************************************)
KeepsPromise == Promise!Spec
=============================================================================
