---------------------------- MODULE RiskGovernor ----------------------------
(***************************************************************************)
(* RiskGovernor.evaluate_fail_closed: the loop over the rule chain, the    *)
(* short circuit at the first failing rule, and the two ways it fails      *)
(* closed (no context at all; a rule that raises).  RiskRules!Verdict is   *)
(* the reference the loop is compared with.                                *)
(***************************************************************************)
EXTENDS RiskRules

CONSTANTS
    Contexts,       \* the contexts a caller may pass
    NoContext       \* the caller passes None: not in Contexts

VARIABLES
    ctx,            \* the argument
    raises,         \* the position of a rule that raises, 0 for none
    next,           \* position of the next rule to run
    trail,          \* rule_results: the verdicts recorded so far
    result          \* the returned verdict, "NONE" until the call returns

governorVars == <<ctx, raises, next, trail, result>>

GovernorTypeOK ==
    /\ ctx \in Contexts \cup {NoContext}
    /\ raises \in 0 .. Len(RuleChain)
    /\ next \in 1 .. Len(RuleChain) + 1
    /\ trail \in Seq(Verdicts)
    /\ result \in Verdicts \cup {"NONE"}

GovernorInit ==
    /\ ctx \in Contexts \cup {NoContext}
    /\ raises \in 0 .. Len(RuleChain)
    /\ next = 1
    /\ trail = << >>
    /\ result = "NONE"

-----------------------------------------------------------------------------
Return(verdict) ==
    /\ result' = verdict
    /\ UNCHANGED <<ctx, raises>>

\* ctx is None: governor_availability fails closed.
Unavailable ==
    /\ result = "NONE"
    /\ ctx = NoContext
    /\ trail' = <<"BLOCK">>
    /\ UNCHANGED next
    /\ Return("BLOCK")

Running == result = "NONE" /\ ctx # NoContext

\* A rule raises: governor_exception replaces whatever was recorded.
RuleRaises ==
    /\ Running
    /\ next = raises
    /\ trail' = <<"BLOCK">>
    /\ UNCHANGED next
    /\ Return("BLOCK")

RulePasses ==
    /\ Running
    /\ next \in DOMAIN RuleChain
    /\ next # raises
    /\ ~Fails(next, ctx)
    /\ trail' = Append(trail, "ALLOW")
    /\ next' = next + 1
    /\ UNCHANGED <<ctx, raises, result>>

\* Mutant: a failing rule is recorded but does not short-circuit.
MutRuleFails ==
    /\ Running
    /\ next \in DOMAIN RuleChain
    /\ next # raises
    /\ Fails(next, ctx)
    /\ trail' = Append(trail, FailureVerdict(next, ctx))
    /\ next' = next + 1
    /\ UNCHANGED <<ctx, raises, result>>

\* The first failing rule short-circuits the rest of the chain.
RuleFails ==
    /\ Running
    /\ next \in DOMAIN RuleChain
    /\ next # raises
    /\ Fails(next, ctx)
    /\ trail' = Append(trail, FailureVerdict(next, ctx))
    /\ UNCHANGED next
    /\ Return(FailureVerdict(next, ctx))

ChainExhausted ==
    /\ Running
    /\ next = Len(RuleChain) + 1
    /\ UNCHANGED <<next, trail>>
    /\ Return("ALLOW")

GovernorNext ==
    \/ Unavailable
    \/ RuleRaises
    \/ RulePasses
    \/ RuleFails
    \/ ChainExhausted

GovernorSpec == GovernorInit /\ [][GovernorNext]_governorVars

-----------------------------------------------------------------------------
(* Properties *)

Done == result # "NONE"

(***************************************************************************)
(* The loop computes the reference verdict: an exception counts only when  *)
(* the chain reaches the rule that raises before a rule that fails         *)
(* (governor.py: evaluate inside the try of evaluate_fail_closed).  An     *)
(* ALLOW is explained by ten passed rules and nothing else ("ANY           *)
(* unexpected failure ... resolves to BLOCK").                             *)
(***************************************************************************)
MatchesReference ==
    Done =>
      /\ ctx = NoContext => result = "BLOCK"
      /\ ctx # NoContext =>
           LET failed == {n \in Positions : Fails(n, ctx)} IN
           IF raises # 0 /\ \A n \in failed : raises <= n
           THEN result = "BLOCK"
           ELSE result = Verdict(ctx)
      /\ result = "ALLOW" => trail = [n \in Positions |-> "ALLOW"]
=============================================================================
