----------------------------- MODULE MCControls -----------------------------
(***************************************************************************)
(* The controls around trading, which share no state with each other: the  *)
(* risk limits, the governor, the paper book, one account and the agents.  *)
(* The first state says which of them runs, the others stay as they began. *)
(* The modules that theorems are about are modules of this one.            *)
(***************************************************************************)
EXTENDS RiskSettings, RiskGovernor, Accounts, AgentControls, PaperBook, TLC

CONSTANTS
    x1, x2, y1, y2,     \* interchangeable requests
    Parts       \* those that run

VARIABLES
    part        \* which component runs

-----------------------------------------------------------------------------
(* The governor.  Each context makes a chosen set of at most two rules     *)
(* fail: two are enough to see which of several failures decides.  Numeric *)
(* facts sit at their threshold when the rule is to pass and one step past *)
(* it when it is to fail.                                                  *)

MCLimits == [max_position_size |-> 100, max_risk_per_trade |-> 200,
             max_daily_loss |-> 50, max_drawdown |-> 15]

\* The two ways rule 4 fails: too large, or too far from the stop.
MCContext(failed, onDown, wide, models) ==
    [trading_halted    |-> 1 \in failed,
     data_fresh        |-> 2 \notin failed,
     provider_up       |-> 3 \notin failed,
     on_provider_down  |-> onDown,
     size              |-> IF 4 \in failed /\ ~wide THEN 101 ELSE 100,
     entry             |-> 300,
     stop              |-> IF 4 \notin failed THEN 298 ELSE IF wide THEN 303 ELSE 300,
     limits            |-> MCLimits,
     daily_loss        |-> IF 5 \in failed THEN 50 ELSE 49,
     drawdown          |-> IF 6 \in failed THEN 15 ELSE 14,
     strategy_approved |-> 7 \notin failed,
     model             |-> IF 8 \in failed THEN "v2" ELSE "v1",
     approved_models   |-> models,
     confidence        |-> IF 9 \in failed THEN 54 ELSE 55,
     min_confidence    |-> 55,
     zscore            |-> IF 10 \in failed THEN -4 ELSE -3,
     max_zscore        |-> 3]

MCContexts ==
    {MCContext(failed, onDown, wide, models) :
        failed \in {s \in SUBSET (1 .. 10) : Cardinality(s) <= 2},
        onDown \in {"BLOCK", "REQUIRE_HUMAN"},
        wide \in BOOLEAN,
        models \in {{}, {"v1"}}}

-----------------------------------------------------------------------------
(* Accounts and agents *)

Xs == {x1, x2}
Ys == {y1, y2}

\* One account.
MCChanges == {"c1", "c2"}
MCTargets == {"ACTIVE", "SUSPENDED", "REVOKED"}

\* An agent of each kind that a cycle depends on, each with the statuses it is given here.
MCStatuses == [BEAR |-> {"PAUSED", "ACTIVE"}, STORAGE |-> {"DISABLED", "TESTING"},
               CHIEF_INVESTMENT_AGENT |-> {"DISABLED"}]
MCTouched == DOMAIN MCStatuses

-----------------------------------------------------------------------------
(* The paper book: orders of nothing and of less than nothing, one that is *)
(* filled whole and one that may be filled in part.                        *)

MCQuantities == {-2, 0, 2, 5}

-----------------------------------------------------------------------------
mcVars == <<part, vars, governorVars, bookVars, accountVars, agentVars>>

\* A component that does not run begins in one way.
MCInit ==
    /\ part \in Parts
    /\ Init
    /\ BookInit
    /\ AccountsInit
    /\ AgentControlsInit
    /\ GovernorInit
    /\ part # "governor" => ctx = NoContext /\ raises = 0

SetLimits ==
    /\ part = "settings"
    /\ Next
    /\ UNCHANGED <<part, governorVars, bookVars, accountVars, agentVars>>

Govern ==
    /\ part = "governor"
    /\ GovernorNext
    /\ UNCHANGED <<part, vars, bookVars, accountVars, agentVars>>

Trade ==
    /\ part = "book"
    /\ BookNext
    /\ UNCHANGED <<part, vars, governorVars, accountVars, agentVars>>

\* Two links and a change of status, one link and two changes, or two of these and a fault.
LogIn ==
    /\ part = "accounts"
    /\ AccountsNext
    /\ Len(links') + statusChanges' + accountFaults' <= 3
    /\ UNCHANGED <<part, vars, governorVars, bookVars, agentVars>>

RunAgents ==
    /\ part = "agents"
    /\ AgentControlsNext
    /\ \A p \in Ys : patch'[p] # Vacant => patch'[p].status \in MCStatuses[patch'[p].agent]
    /\ UNCHANGED <<part, vars, governorVars, bookVars, accountVars>>

MCNext == SetLimits \/ Govern \/ Trade \/ LogIn \/ RunAgents

MCSpec == MCInit /\ [][MCNext]_mcVars

\* Exchanging two requests of a kind changes nothing.
Symmetry == Permutations(Xs) \cup Permutations(Ys) \cup Permutations(AdminRequests)

=============================================================================
