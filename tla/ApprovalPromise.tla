--------------------------- MODULE ApprovalPromise ---------------------------
(***************************************************************************)
(* What the approval workflow promises to somebody who sees only where a   *)
(* trade stands, and who knows that the process may die: TradeLifecycle    *)
(* without handlers, records, positions or limits.                         *)
(*                                                                         *)
(*  - A vetoed trade is never executed: a person opens it first.           *)
(*  - A closed trade stays closed, and a trade is closed only by somebody  *)
(*    who began to close it while it was executed.                         *)
(*  - A restart takes a trade back to a place it has been, namely to the   *)
(*    last one whose record was saved: one of `recoverable`.               *)
(***************************************************************************)
CONSTANT Trades

VARIABLES
    live,           \* where each trade stands
    recoverable,    \* where a restart may find it
    closing         \* the trades that somebody is closing

promise == <<live, recoverable, closing>>

Places == {"undecided", "vetoed", "open", "executed", "rejected", "closed"}

Moves ==
    {<<"undecided", "vetoed">>, <<"undecided", "open">>, <<"undecided", "rejected">>,
     <<"vetoed", "open">>, <<"vetoed", "rejected">>,
     <<"open", "open">>, <<"open", "executed">>, <<"open", "rejected">>,
     <<"executed", "executed">>, <<"executed", "open">>,
     <<"executed", "rejected">>,
     <<"executed", "closed">>, <<"open", "closed">>, <<"rejected", "closed">>,
     <<"closed", "closed">>}

TypeInvariant ==
    /\ live \in [Trades -> Places]
    /\ recoverable \in [Trades -> SUBSET Places]
    /\ closing \subseteq Trades

Init ==
    /\ live = [t \in Trades |-> "undecided"]
    /\ recoverable = [t \in Trades |-> {"undecided"}]
    /\ closing = {}

\* A decision; its record may or may not be on its way to the store.
Move(t, to) ==
    /\ <<live[t], to>> \in Moves
    /\ live' = [live EXCEPT ![t] = to]
    /\ recoverable' \in {recoverable, [recoverable EXCEPT ![t] = @ \cup {to}]}
    /\ IF to = "closed" THEN t \in closing /\ closing' \in {closing, closing \ {t}}
       ELSE UNCHANGED closing

BeginClose(t) ==
    /\ live[t] = "executed"
    /\ closing' = closing \cup {t}
    /\ UNCHANGED <<live, recoverable>>

\* Nobody closes t any more, successfully or not.
EndClose(t) ==
    /\ closing' = closing \ {t}
    /\ UNCHANGED <<live, recoverable>>

\* A save commits or fails: fewer places can be restored, never none.
Settle(t, left) ==
    /\ left \subseteq recoverable[t] /\ left # {}
    /\ recoverable' = [recoverable EXCEPT ![t] = left]
    /\ UNCHANGED <<live, closing>>

Restart ==
    /\ live' \in [Trades -> Places]
    /\ \A t \in Trades : live'[t] \in recoverable[t]
    /\ recoverable' = [t \in Trades |-> {live'[t]}]
    /\ closing' = {}

Next ==
    \/ \E t \in Trades, to \in Places : Move(t, to)
    \/ \E t \in Trades : BeginClose(t) \/ EndClose(t)
    \/ \E t \in Trades, left \in SUBSET Places : Settle(t, left)
    \/ Restart

Spec == Init /\ [][Next]_promise
=============================================================================
