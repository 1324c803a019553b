--------------------------- MODULE ControlsProofs ---------------------------
(***************************************************************************)
(* The controls around trading, each for any values of its constants: the  *)
(* governor's loop, the life of an account with its links and sessions,    *)
(* the risk limits, the agents with the administrators who pause them, and *)
(* the paper book.  They share no state.                                   *)
(***************************************************************************)
EXTENDS RiskSettings, RiskGovernor, Accounts, AgentControls, PaperBook, SequenceTheorems,
        FiniteSetTheorems, WellFoundedInduction, TLAPS

-----------------------------------------------------------------------------
(* The rule chain, for every context *)

(***************************************************************************)
(* If some rule fails, one of them fails first: the CHOOSE in Verdict      *)
(* names a rule of the chain (RiskGovernor.evaluate).                      *)
(***************************************************************************)
LEMMA FirstFailureExists ==
    ASSUME NEW given, ~AllPass(given)
    PROVE  \E n \in Positions : FirstFailure(n, given)
<1> SUFFICES ASSUME \A n \in Positions : ~FirstFailure(n, given)
             PROVE  FALSE
  OBVIOUS
<1> DEFINE clear(n) == \A m \in 1 .. n : ~Fails(m, given)
<1>1. ASSUME NEW n \in Positions, \A m \in 1 .. (n - 1) : ~Fails(m, given)
      PROVE  clear(n)
  <2>1. ~Fails(n, given)
    BY <1>1 DEF FirstFailure
  <2>2. \A m \in 1 .. n : m = n \/ m \in 1 .. (n - 1)
    BY DEF Positions
  <2> QED
    BY <1>1, <2>1, <2>2
<1> HIDE DEF clear
<1>2. ASSUME NEW n \in 0 .. 9, clear(n)
      PROVE  clear(n + 1)
  <2>1. n + 1 \in Positions /\ (n + 1) - 1 = n
    BY DEF Positions
  <2>2. \A m \in 1 .. ((n + 1) - 1) : ~Fails(m, given)
    BY <1>2, <2>1 DEF clear
  <2> QED
    BY <1>1, <2>1, <2>2
<1>3. clear(0)
  BY DEF clear
<1>4. clear(1) /\ clear(2) /\ clear(3) /\ clear(4) /\ clear(5)
  <2>1. clear(1)
    BY <1>2, <1>3
  <2>2. clear(2)
    BY <1>2, <2>1
  <2>3. clear(3)
    BY <1>2, <2>2
  <2>4. clear(4)
    BY <1>2, <2>3
  <2>5. clear(5)
    BY <1>2, <2>4
  <2> QED
    BY <2>1, <2>2, <2>3, <2>4, <2>5
<1>5. clear(10)
  <2>1. clear(6)
    BY <1>2, <1>4
  <2>2. clear(7)
    BY <1>2, <2>1
  <2>3. clear(8)
    BY <1>2, <2>2
  <2>4. clear(9)
    BY <1>2, <2>3
  <2> QED
    BY <1>2, <2>4
<1> QED
  BY <1>5 DEF clear, AllPass, Positions

(***************************************************************************)
(* A failing chain answers with the verdict of its first failing rule.     *)
(***************************************************************************)
LEMMA FirstFailureDecides ==
    ASSUME NEW given, NEW n \in Positions, FirstFailure(n, given)
    PROVE  Verdict(given) = FailureVerdict(n, given)
<1>1. ~AllPass(given)
  BY DEF AllPass, FirstFailure
<1>2. ASSUME NEW m \in Positions, FirstFailure(m, given)
      PROVE  m = n
  <2>1. m < n => FALSE
    <3>1. m < n => m \in 1 .. (n - 1)
      BY DEF Positions
    <3> QED
      BY <3>1, <1>2 DEF FirstFailure
  <2>2. n < m => FALSE
    <3>1. n < m => n \in 1 .. (m - 1)
      BY DEF Positions
    <3> QED
      BY <3>1, <1>2 DEF FirstFailure
  <2> QED
    BY <2>1, <2>2 DEF Positions
<1>3. (CHOOSE m \in Positions : FirstFailure(m, given)) = n
  BY <1>2
<1> QED
  BY <1>1, <1>3 DEF Verdict

(***************************************************************************)
(* A failing rule answers with a verdict, if the one configured for the    *)
(* provider rule is (governor.py, the rules of RULE_CHAIN).                *)
(***************************************************************************)
LEMMA FailureVerdictType ==
    ASSUME NEW given, NEW n \in Positions, given.on_provider_down \in Verdicts
    PROVE  FailureVerdict(n, given) \in Verdicts
  BY DEF FailureVerdict, Positions, Verdicts

(***************************************************************************)
(* Every context gets a verdict the rest of the system knows.              *)
(***************************************************************************)
THEOREM VerdictType ==
    ASSUME NEW given, given.on_provider_down \in Verdicts
    PROVE  Verdict(given) \in Verdicts
<1>1. CASE AllPass(given)
  BY <1>1 DEF Verdict, Verdicts
<1>2. CASE ~AllPass(given)
  <2>1. PICK n \in Positions : FirstFailure(n, given)
    BY <1>2, FirstFailureExists
  <2> QED
    BY <2>1, FirstFailureDecides, FailureVerdictType
<1> QED
  BY <1>1, <1>2

(***************************************************************************)
(* ALLOW means that every rule of the chain passed, as long as the         *)
(* configurable provider rule is not configured to allow.                  *)
(***************************************************************************)
THEOREM AllowIffAllPass ==
    ASSUME NEW given, given.on_provider_down # "ALLOW"
    PROVE  Verdict(given) = "ALLOW" <=> AllPass(given)
<1>1. ASSUME ~AllPass(given)
      PROVE  Verdict(given) # "ALLOW"
  <2>1. PICK n \in Positions : FirstFailure(n, given)
    BY <1>1, FirstFailureExists
  <2>2. FailureVerdict(n, given) # "ALLOW"
    BY DEF FailureVerdict, Positions
  <2> QED
    BY <2>1, <2>2, FirstFailureDecides
<1> QED
  BY <1>1 DEF Verdict

(***************************************************************************)
(* Tightening the limits never opens the gate: a context refused under     *)
(* some limits is refused under any limits that are no looser (PUT         *)
(* /risk/limits while trades wait for their check).                        *)
(***************************************************************************)
NumericContext(given) ==
    /\ given.size \in Int /\ given.entry \in Int /\ given.stop \in Int
    /\ given.daily_loss \in Int /\ given.drawdown \in Int

NumericLimits(l) ==
    /\ l.max_position_size \in Int /\ l.max_risk_per_trade \in Int
    /\ l.max_daily_loss \in Int /\ l.max_drawdown \in Int

NoLooser(tight, loose) ==
    /\ tight.max_position_size <= loose.max_position_size
    /\ tight.max_risk_per_trade <= loose.max_risk_per_trade
    /\ tight.max_daily_loss <= loose.max_daily_loss
    /\ tight.max_drawdown <= loose.max_drawdown

SameBut(c, d) ==
    /\ c.trading_halted = d.trading_halted /\ c.data_fresh = d.data_fresh
    /\ c.provider_up = d.provider_up /\ c.on_provider_down = d.on_provider_down
    /\ c.size = d.size /\ c.entry = d.entry /\ c.stop = d.stop
    /\ c.daily_loss = d.daily_loss /\ c.drawdown = d.drawdown
    /\ c.strategy_approved = d.strategy_approved
    /\ c.model = d.model /\ c.approved_models = d.approved_models
    /\ c.confidence = d.confidence /\ c.min_confidence = d.min_confidence
    /\ c.zscore = d.zscore /\ c.max_zscore = d.max_zscore

THEOREM TighterLimitsNeverAllowMore ==
    ASSUME NEW c, NEW d, SameBut(c, d), c.on_provider_down # "ALLOW",
           NumericContext(c), NumericLimits(c.limits), NumericLimits(d.limits),
           NoLooser(d.limits, c.limits), Verdict(d) = "ALLOW"
    PROVE  Verdict(c) = "ALLOW"
<1>1. AllPass(d)
  BY AllowIffAllPass DEF SameBut
<1>2. RiskPerTrade(c) = RiskPerTrade(d) /\ RiskPerTrade(c) \in Int
  BY DEF RiskPerTrade, SameBut, NumericContext, Magnitude
<1>3. ASSUME NEW n \in Positions
      PROVE  Fails(n, c) => Fails(n, d)
  <2>1. Oversized(c) => Oversized(d)
    BY <1>2 DEF Oversized, SameBut, NumericContext, NumericLimits, NoLooser
  <2>2. UnapprovedModel(c) => UnapprovedModel(d)
    BY DEF UnapprovedModel, SameBut
  <2>3. c.daily_loss >= c.limits.max_daily_loss => d.daily_loss >= d.limits.max_daily_loss
    BY DEF SameBut, NumericContext, NumericLimits, NoLooser
  <2>4. c.drawdown >= c.limits.max_drawdown => d.drawdown >= d.limits.max_drawdown
    BY DEF SameBut, NumericContext, NumericLimits, NoLooser
  <2> HIDE DEF Oversized, UnapprovedModel
  <2> QED
    BY <2>1, <2>2, <2>3, <2>4 DEF Fails, SameBut
<1>4. AllPass(c)
  BY <1>1, <1>3 DEF AllPass
<1> QED
  BY <1>4 DEF Verdict

-----------------------------------------------------------------------------
(* The governor *)

\* How the provider rule answers is configuration; it is a verdict, and never ALLOW.
ProviderRuleAnswers ==
    \A c \in Contexts : c.on_provider_down \in Verdicts \ {"ALLOW"}

LEMMA ChainLength == Len(RuleChain) = 10 /\ DOMAIN RuleChain = Positions
  BY DEF RuleChain, Positions

\* A failing rule never answers ALLOW.
LEMMA FailureNeverAllows ==
    ASSUME ProviderRuleAnswers, NEW c \in Contexts, NEW n \in Positions
    PROVE  FailureVerdict(n, c) \in Verdicts \ {"ALLOW"}
  BY DEF ProviderRuleAnswers, FailureVerdict, Positions, Verdicts

-----------------------------------------------------------------------------
\* Every step of the loop keeps the types.
LEMMA TypeOKInductive ==
    ASSUME ProviderRuleAnswers, NoContext \notin Contexts
    PROVE  /\ GovernorInit => GovernorTypeOK
           /\ GovernorTypeOK /\ [GovernorNext]_governorVars => GovernorTypeOK'
<1>1. GovernorInit => GovernorTypeOK
  BY ChainLength DEF GovernorInit, GovernorTypeOK
<1>2. ASSUME GovernorTypeOK, [GovernorNext]_governorVars
      PROVE  GovernorTypeOK'
  <2> USE <1>2 DEF GovernorTypeOK
  <2>1. CASE Unavailable
    BY <2>1 DEF Unavailable, Return, Verdicts
  <2>2. CASE RuleRaises
    BY <2>2 DEF RuleRaises, Return, Verdicts
  <2>3. CASE RulePasses
    <3>1. next' \in 1 .. Len(RuleChain) + 1
      BY <2>3, ChainLength DEF RulePasses, Positions
    <3>2. trail' \in Seq(Verdicts)
      BY <2>3 DEF RulePasses, Verdicts
    <3> QED
      BY <2>3, <3>1, <3>2 DEF RulePasses
  <2>4. CASE RuleFails
    <3>1. ctx \in Contexts /\ next \in Positions
      BY <2>4, ChainLength DEF RuleFails, Running
    <3>2. FailureVerdict(next, ctx) \in Verdicts
      BY <3>1, FailureNeverAllows
    <3> QED
      BY <2>4, <3>2 DEF RuleFails, Return
  <2>5. CASE ChainExhausted
    BY <2>5 DEF ChainExhausted, Return, Verdicts
  <2>6. CASE UNCHANGED governorVars
    BY <2>6 DEF governorVars
  <2> QED
    BY <1>2, <2>1, <2>2, <2>3, <2>4, <2>5, <2>6 DEF GovernorNext
<1> QED
  BY <1>1, <1>2

(***************************************************************************)
(* While the loop runs, every rule before the next one passed, none of     *)
(* them raised, and the trail says so.                                     *)
(***************************************************************************)
SoFar ==
    result = "NONE" =>
      /\ Len(trail) = next - 1
      /\ \A n \in 1 .. next - 1 : trail[n] = "ALLOW" /\ n # raises
      /\ ctx # NoContext => \A n \in 1 .. next - 1 : ~Fails(n, ctx)

LoopInv == GovernorTypeOK /\ SoFar /\ MatchesReference

LEMMA LoopInductive ==
    ASSUME ProviderRuleAnswers, NoContext \notin Contexts, LoopInv, [GovernorNext]_governorVars
    PROVE  LoopInv'
<1> USE DEF LoopInv
<1>1. GovernorTypeOK /\ GovernorTypeOK'
  BY TypeOKInductive
<1>2. CASE Unavailable
  BY <1>1, <1>2 DEF Unavailable, Return, SoFar, MatchesReference, Done
<1>3. CASE RuleRaises
  <2>1. /\ ctx \in Contexts /\ raises \in Positions /\ raises = next
        /\ result' = "BLOCK" /\ ctx' = ctx /\ raises' = raises
        /\ ctx # NoContext /\ result = "NONE"
    BY <1>1, <1>3, ChainLength DEF RuleRaises, Running, Return, GovernorTypeOK, Positions
  <2>2. \A n \in Positions : Fails(n, ctx) => raises <= n
    <3>1. \A n \in 1 .. next - 1 : ~Fails(n, ctx)
      BY <2>1 DEF SoFar
    <3>2. \A n \in Positions : ~(raises <= n) => n \in 1 .. next - 1
      BY <2>1 DEF Positions
    <3> QED
      BY <3>1, <3>2
  <2>3. SoFar'
    BY <2>1 DEF SoFar
  <2>4. MatchesReference'
    <3>1. raises # 0
      BY <2>1 DEF Positions
    <3> HIDE DEF LoopInv
    <3> QED
      BY <2>1, <2>2, <3>1 DEF MatchesReference, Done
  <2> QED
    BY <1>1, <2>3, <2>4
<1>4. CASE RulePasses
  <2>1. /\ result = "NONE" /\ result' = "NONE" /\ ctx' = ctx /\ raises' = raises
        /\ ctx # NoContext /\ next \in Positions /\ next' = next + 1
        /\ next # raises /\ ~Fails(next, ctx) /\ trail' = Append(trail, "ALLOW")
    BY <1>1, <1>4, ChainLength DEF RulePasses, Running
  <2>2. trail \in Seq(Verdicts) /\ Len(trail) = next - 1
    BY <1>1, <2>1 DEF GovernorTypeOK, SoFar
  <2>3. \A n \in 1 .. next' - 1 : n = next \/ n \in 1 .. next - 1
    BY <2>1 DEF Positions
  <2>4. /\ Len(trail') = next' - 1 /\ trail'[next] = "ALLOW"
        /\ \A n \in 1 .. next - 1 : trail'[n] = trail[n]
    BY <2>1, <2>2 DEF Positions
  <2>5. SoFar'
    BY <2>1, <2>3, <2>4 DEF SoFar
  <2>6. MatchesReference'
    BY <2>1 DEF MatchesReference, Done
  <2> QED
    BY <1>1, <2>5, <2>6
<1>5. CASE RuleFails
  <2>1. /\ ctx \in Contexts /\ next \in Positions /\ ctx # NoContext /\ result = "NONE"
        /\ ctx' = ctx /\ raises' = raises /\ next # raises /\ Fails(next, ctx)
        /\ result' = FailureVerdict(next, ctx)
    BY <1>1, <1>5, ChainLength DEF RuleFails, Running, Return, GovernorTypeOK
  <2>2. result' \in Verdicts \ {"ALLOW"}
    BY <2>1, FailureNeverAllows
  <2>3. FirstFailure(next, ctx)
    BY <2>1 DEF FirstFailure, SoFar
  <2>4. result' = Verdict(ctx)
    BY <2>1, <2>3, FirstFailureDecides
  <2>5. ~(raises # 0 /\ \A n \in Positions : Fails(n, ctx) => raises <= n)
    <3>1. ASSUME raises # 0, raises <= next
          PROVE  FALSE
      <4>1. raises \in 1 .. next - 1
        BY <1>1, <2>1, <3>1, ChainLength DEF GovernorTypeOK, Positions
      <4> QED
        BY <2>1, <4>1 DEF SoFar
    <3> QED
      BY <2>1, <3>1
  <2>6. SoFar'
    BY <2>2 DEF SoFar, Verdicts
  <2>7. MatchesReference'
    <3> HIDE DEF LoopInv
    <3> QED
      BY <2>1, <2>2, <2>4, <2>5 DEF MatchesReference, Done
  <2> QED
    BY <1>1, <2>6, <2>7
<1>6. CASE ChainExhausted
  <2>1. /\ result = "NONE" /\ result' = "ALLOW" /\ ctx' = ctx /\ raises' = raises
        /\ ctx # NoContext /\ next = 11 /\ trail' = trail
    BY <1>1, <1>6, ChainLength DEF ChainExhausted, Running, Return
  <2>2. /\ \A n \in Positions : ~Fails(n, ctx) /\ trail[n] = "ALLOW" /\ n # raises
        /\ Len(trail) = 10
    BY <2>1 DEF SoFar, Positions
  <2>3. raises = 0
    BY <1>1, <2>2, ChainLength DEF GovernorTypeOK, Positions
  <2>4. trail = [n \in Positions |-> "ALLOW"]
    BY <1>1, <2>2 DEF GovernorTypeOK, Positions
  <2>5. Verdict(ctx) = "ALLOW"
    BY <2>2 DEF Verdict, AllPass
  <2> HIDE DEF LoopInv
  <2> QED
    BY <1>1, <2>1, <2>3, <2>4, <2>5 DEF LoopInv, SoFar, MatchesReference, Done
<1>7. CASE UNCHANGED governorVars
  BY <1>1, <1>7 DEF governorVars, SoFar, MatchesReference, Done
<1> QED
  BY <1>2, <1>3, <1>4, <1>5, <1>6, <1>7 DEF GovernorNext

(***************************************************************************)
(* The loop computes the reference verdict for every context, whichever    *)
(* rule raises, and an ALLOW lists ten passed rules                        *)
(* (RiskGovernor.evaluate_fail_closed).                                    *)
(***************************************************************************)
THEOREM LoopMatchesReference ==
    ASSUME ProviderRuleAnswers, NoContext \notin Contexts
    PROVE  GovernorSpec => []MatchesReference
<1>1. GovernorInit => LoopInv
  BY TypeOKInductive DEF GovernorInit, LoopInv, SoFar, MatchesReference, Done
<1>2. LoopInv /\ [GovernorNext]_governorVars => LoopInv'
  BY LoopInductive
<1>3. LoopInv => MatchesReference
  BY DEF LoopInv
<1> QED
  BY <1>1, <1>2, <1>3, PTL DEF GovernorSpec

-----------------------------------------------------------------------------
(* Accounts *)

(***************************************************************************)
(* What a request has read and done by the step it awaits: a link that is  *)
(* followed exists, and is consumed before the user is stamped; a change   *)
(* was validated against the status it was read with.                      *)
(***************************************************************************)
VisitSoFar(v) ==
    visit[v].step \in {"user", "consume", "stamp", "session"} =>
      /\ visit[v].link \in DOMAIN links
      /\ visit[v].step \in {"stamp", "session"} => links[visit[v].link].consumed

ChangeSoFar(c) ==
    change[c].step = "write" =>
      /\ change[c].before \in Statuses
      /\ change[c].after \in Allowed[change[c].before]

VisitRecords ==
    [step : {"user", "consume", "stamp", "session"}, link : Nat, invited : BOOLEAN]

\* The parts of the type invariant that the argument needs.
Shapes ==
    /\ links \in Seq(Links)
    /\ visit \in [Visits -> {Idle} \cup VisitRecords]
    /\ change = [c \in Changes |-> change[c]]
    /\ raced = [kind \in {"links", "visits", "status"} |-> raced[kind]]

RequestsSoFar ==
    /\ Shapes
    /\ \A v \in Visits : VisitSoFar(v)
    /\ \A c \in Changes : ChangeSoFar(c)

-----------------------------------------------------------------------------
\* Links are never deleted, and a consumed one stays consumed.
LinksOnlyGrow ==
    /\ links' \in Seq(Links)
    /\ DOMAIN links \subseteq DOMAIN links'
    /\ \A k \in DOMAIN links : links[k].consumed => links'[k].consumed

LEMMA RevokedKeepsConsumed ==
    ASSUME NEW link \in Links, NEW purpose
    PROVE  Revoked(link, purpose) \in Links /\ Revoked(link, purpose).consumed = link.consumed
  BY DEF Revoked, Live, Links

LEMMA LinksGrow ==
    ASSUME links \in Seq(Links), [AccountsNext]_accountVars,
           \A v \in Visits : VisitSoFar(v),
           \A i \in Issuers : issue[i].step = "insert" => issue[i].purpose \in Purposes
    PROVE  LinksOnlyGrow
<1>1. CASE \E i \in Issuers : RevokeLinks(i)
  <2> PICK i \in Issuers : RevokeLinks(i)
    BY <1>1
  <2>1. links' = [k \in DOMAIN links |-> Revoked(links[k], issue[i].purpose)]
    BY DEF RevokeLinks
  <2>2. \A k \in DOMAIN links : /\ Revoked(links[k], issue[i].purpose) \in Links
                                /\ links[k].consumed => Revoked(links[k], issue[i].purpose).consumed
    BY RevokedKeepsConsumed
  <2>3. links' \in Seq(Links)
    BY <2>1, <2>2
  <2> QED
    BY <2>1, <2>2, <2>3 DEF LinksOnlyGrow
<1>2. CASE \E i \in Issuers : InsertLink(i)
  <2> PICK i \in Issuers : InsertLink(i)
    BY <1>2
  <2> DEFINE new == [purpose |-> issue[i].purpose, consumed |-> FALSE, revoked |-> FALSE]
  <2>1. new \in Links /\ links' = Append(links, new)
    BY DEF InsertLink, Links
  <2> HIDE DEF new
  <2> QED
    BY <2>1 DEF LinksOnlyGrow
<1>3. CASE \E v \in Visits : Consume(v)
  <2> PICK v \in Visits : Consume(v)
    BY <1>3
  <2>1. /\ visit[v].link \in DOMAIN links
        /\ links' = [links EXCEPT ![visit[v].link].consumed = TRUE]
    BY DEF Consume, VisitSoFar
  <2> DEFINE new == [links[visit[v].link] EXCEPT !.consumed = TRUE]
  <2>2. new \in Links /\ new.consumed
    <3>1. links[visit[v].link] \in Links
      BY <2>1
    <3> QED
      BY <3>1 DEF Links
  <2>3. links' = [links EXCEPT ![visit[v].link] = new]
    BY <2>1
  <2> HIDE DEF new
  <2> QED
    BY <2>1, <2>2, <2>3 DEF LinksOnlyGrow
<1>4. CASE UNCHANGED links
  BY <1>4 DEF LinksOnlyGrow
<1> QED
  BY <1>1, <1>2, <1>3, <1>4
     DEF AccountsNext, accountVars, tables, requests, CreateUser, RequestLink, FollowLink, ReadUser, Stamp,
         CreateSession, RevokeSession, ReadStatus, WriteStatus, Crash

-----------------------------------------------------------------------------
\* A link is issued for a purpose.
IssuesHavePurposes ==
    issue \in [Issuers -> {Idle} \cup [step : {"revoke", "insert"}, purpose : Purposes]]

LEMMA PurposesInductive ==
    /\ AccountsInit => IssuesHavePurposes
    /\ IssuesHavePurposes /\ [AccountsNext]_accountVars => IssuesHavePurposes'
<1>1. AccountsInit => IssuesHavePurposes
  BY DEF AccountsInit, IssuesHavePurposes
<1>2. ASSUME IssuesHavePurposes, [AccountsNext]_accountVars
      PROVE  IssuesHavePurposes'
  <2> USE <1>2 DEF IssuesHavePurposes
  <2>1. CASE \E i \in Issuers : CreateUser(i) \/ RequestLink(i) \/ RevokeLinks(i) \/ InsertLink(i)
    <3> PICK i \in Issuers : CreateUser(i) \/ RequestLink(i) \/ RevokeLinks(i) \/ InsertLink(i)
      BY <2>1
    <3> DEFINE Records == [step : {"revoke", "insert"}, purpose : Purposes]
    <3>1. CASE CreateUser(i)
      BY <3>1 DEF CreateUser, Purposes
    <3>2. CASE RequestLink(i)
      <4>1. (IF status = "INVITED" THEN "INITIAL_INVITATION" ELSE "LOGIN") \in Purposes
        BY DEF Purposes
      <4> QED
        BY <3>2, <4>1 DEF RequestLink
    <3>3. CASE RevokeLinks(i)
      <4>1. issue[i] \in Records
        BY <3>3 DEF RevokeLinks, Idle
      <4>2. [issue[i] EXCEPT !.step = "insert"] \in Records
        BY <4>1
      <4> QED
        BY <3>3, <4>2 DEF RevokeLinks
    <3>4. CASE InsertLink(i)
      BY <3>4 DEF InsertLink
    <3> QED
      BY <3>1, <3>2, <3>3, <3>4
  <2>2. CASE Crash
    BY <2>2 DEF Crash
  <2>3. CASE UNCHANGED issue
    BY <2>3
  <2> QED
    BY <1>2, <2>1, <2>2, <2>3
       DEF AccountsNext, accountVars, requests, FollowLink, ReadUser, Consume, Stamp, CreateSession,
           RevokeSession, ReadStatus, WriteStatus
<1> QED
  BY <1>1, <1>2

Inductive == RequestsSoFar /\ IssuesHavePurposes

LEMMA RequestsInductive ==
    ASSUME Inductive, [AccountsNext]_accountVars
    PROVE  RequestsSoFar'
<1> USE DEF Inductive, RequestsSoFar, Shapes
<1>1. LinksOnlyGrow
  <2>1. \A i \in Issuers : issue[i].step = "insert" => issue[i].purpose \in Purposes
    BY DEF IssuesHavePurposes, Idle
  <2> QED
    BY <2>1, LinksGrow
<1>2. ASSUME NEW v \in Visits, visit'[v] = visit[v]
      PROVE  VisitSoFar(v)'
  BY <1>1, <1>2 DEF VisitSoFar, LinksOnlyGrow
\* One visit gets a new record, with what that record needs.
<1>3. ASSUME NEW v \in Visits, NEW r \in {Idle} \cup VisitRecords,
             visit' = [visit EXCEPT ![v] = r],
             r.step # "idle" => r.link \in DOMAIN links,
             r.step \in {"stamp", "session"} => links'[r.link].consumed
      PROVE  /\ visit' \in [Visits -> {Idle} \cup VisitRecords]
             /\ \A w \in Visits : VisitSoFar(w)'
  <2>1. visit' \in [Visits -> {Idle} \cup VisitRecords] /\ visit'[v] = r
    BY <1>3
  <2>2. VisitSoFar(v)'
    BY <1>1, <1>3, <2>1 DEF VisitSoFar, LinksOnlyGrow
  <2>3. ASSUME NEW w \in Visits, w # v
        PROVE  VisitSoFar(w)'
    BY <1>2, <1>3, <2>3
  <2> QED
    BY <2>1, <2>2, <2>3
<1>4. /\ visit' \in [Visits -> {Idle} \cup VisitRecords]
      /\ \A v \in Visits : VisitSoFar(v)'
  <2>1. CASE \E v \in Visits, k \in DOMAIN links : FollowLink(v, k)
    <3>1. PICK v \in Visits, k \in DOMAIN links : FollowLink(v, k)
      BY <2>1
    <3> DEFINE r == [step |-> "user", link |-> k, invited |-> FALSE]
    <3>2. k \in Nat
      BY <3>1
    <3>3. r \in VisitRecords /\ r.step = "user" /\ r.link = k
      BY <3>2 DEF VisitRecords
    <3>4. visit' = [visit EXCEPT ![v] = r]
      BY <3>1 DEF FollowLink
    <3> HIDE DEF r
    <3> QED
      BY <1>3, <3>1, <3>3, <3>4
  <2>2. CASE \E v \in Visits : ReadUser(v)
    <3> PICK v \in Visits : ReadUser(v)
      BY <2>2
    <3>1. visit[v] \in VisitRecords /\ visit[v].link \in DOMAIN links
      BY DEF ReadUser, VisitSoFar, Idle
    <3>2. CASE status \in Authenticatable
      <4> DEFINE r == [visit[v] EXCEPT !.step = "consume", !.invited = (status = "INVITED")]
      <4>1. /\ r \in VisitRecords /\ r.step = "consume" /\ r.link = visit[v].link
        BY <3>1 DEF VisitRecords
      <4>2. visit' = [visit EXCEPT ![v] = r]
        BY <3>2 DEF ReadUser
      <4> HIDE DEF r
      <4> QED
        BY <1>3, <3>1, <4>1, <4>2
    <3>3. CASE status \notin Authenticatable
      BY <1>3, <3>3 DEF ReadUser, Idle
    <3> QED
      BY <3>2, <3>3
  <2>3. CASE \E v \in Visits : Consume(v)
    <3> PICK v \in Visits : Consume(v)
      BY <2>3
    <3>1. visit[v] \in VisitRecords /\ visit[v].link \in DOMAIN links
      BY DEF Consume, VisitSoFar, Idle
    <3> DEFINE r == [visit[v] EXCEPT !.step = "stamp"]
    <3>2. r \in VisitRecords /\ r.step = "stamp" /\ r.link = visit[v].link
      BY <3>1 DEF VisitRecords
    <3>3. links'[visit[v].link].consumed
      <4>1. links[visit[v].link] \in Links
        BY <3>1
      <4> QED
        BY <3>1, <4>1 DEF Consume, Links
    <3>4. visit' = [visit EXCEPT ![v] = r]
      BY DEF Consume
    <3> HIDE DEF r
    <3> QED
      BY <1>3, <3>1, <3>2, <3>3, <3>4
  <2>4. CASE \E v \in Visits : Stamp(v)
    <3> PICK v \in Visits : Stamp(v)
      BY <2>4
    <3>1. /\ visit[v] \in VisitRecords /\ visit[v].link \in DOMAIN links
          /\ links[visit[v].link].consumed
      BY DEF Stamp, VisitSoFar, Idle
    <3> DEFINE r == [visit[v] EXCEPT !.step = "session"]
    <3>2. r \in VisitRecords /\ r.step = "session" /\ r.link = visit[v].link
      BY <3>1 DEF VisitRecords
    <3>3. visit' = [visit EXCEPT ![v] = r]
      BY DEF Stamp
    <3>4. links'[visit[v].link].consumed
      BY <1>1, <3>1 DEF LinksOnlyGrow
    <3> HIDE DEF r
    <3> QED
      BY <1>3, <3>1, <3>2, <3>3, <3>4
  <2>5. CASE \E v \in Visits : CreateSession(v)
    BY <1>3, <2>5 DEF CreateSession, Idle
  <2>6. CASE Crash
    BY <2>6 DEF Crash, VisitSoFar, Idle
  <2>7. CASE UNCHANGED visit
    BY <1>2, <2>7
  <2> QED
    BY <2>1, <2>2, <2>3, <2>4, <2>5, <2>6, <2>7
       DEF AccountsNext, accountVars, requests, CreateUser, RequestLink, RevokeLinks, InsertLink,
           RevokeSession, ReadStatus, WriteStatus
<1>5. /\ change' = [c \in Changes |-> change'[c]]
      /\ \A c \in Changes : ChangeSoFar(c)'
  <2>1. CASE \E c \in Changes, target \in Targets : ReadStatus(c, target)
    BY <2>1 DEF ReadStatus, ChangeSoFar
  <2>2. CASE \E c \in Changes : WriteStatus(c)
    BY <2>2 DEF WriteStatus, ChangeSoFar, Idle
  <2>3. CASE Crash
    BY <2>3 DEF Crash, ChangeSoFar, Idle
  <2>4. CASE UNCHANGED change
    BY <2>4 DEF ChangeSoFar
  <2> QED
    BY <2>1, <2>2, <2>3, <2>4
       DEF AccountsNext, accountVars, requests, CreateUser, RequestLink, RevokeLinks, InsertLink, FollowLink,
           ReadUser, Consume, Stamp, CreateSession, RevokeSession
<1>6. raced' = [kind \in {"links", "visits", "status"} |-> raced'[kind]]
  BY DEF AccountsNext, accountVars, CreateUser, RequestLink, RevokeLinks, InsertLink, FollowLink, ReadUser,
         Consume, Stamp, CreateSession, RevokeSession, ReadStatus, WriteStatus, Crash
<1> QED
  BY <1>1, <1>4, <1>5, <1>6 DEF LinksOnlyGrow

-----------------------------------------------------------------------------
\* A status is only written by a new account, a first visit or a validated change.
LEMMA StepIsAllowable ==
    ASSUME Inductive, [AccountsNext]_accountVars
    PROVE  Allowable
<1> USE DEF Inductive, RequestsSoFar, Shapes, Allowable
<1>1. CASE \E i \in Issuers : CreateUser(i)
  BY <1>1 DEF CreateUser
<1>2. CASE \E v \in Visits : Stamp(v)
  <2> PICK v \in Visits : Stamp(v)
    BY <1>2
  <2>1. SUFFICES ASSUME ~raced'.status, status' # status
                 PROVE  /\ <<status, status'>> = <<"INVITED", "ACTIVE">>
                        /\ \E k \in DOMAIN links : links[k].consumed
    OBVIOUS
  <2>2. visit[v].invited /\ status' = "ACTIVE" /\ visit[v].step = "stamp"
    BY <2>1 DEF Stamp
  <2>3. status = "INVITED"
    BY <2>1, <2>2 DEF Stamp
  <2>4. visit[v].link \in DOMAIN links /\ links[visit[v].link].consumed
    BY <2>2 DEF VisitSoFar
  <2> QED
    BY <2>2, <2>3, <2>4
<1>3. CASE \E c \in Changes : WriteStatus(c)
  BY <1>3 DEF WriteStatus, ChangeSoFar
<1>4. CASE UNCHANGED status
  BY <1>4
<1> QED
  BY <1>1, <1>2, <1>3, <1>4
     DEF AccountsNext, accountVars, tables, RequestLink, RevokeLinks, InsertLink, FollowLink, ReadUser,
         Consume, CreateSession, RevokeSession, ReadStatus, Crash

(***************************************************************************)
(* Unless a status was written over one that had changed since it was      *)
(* read, the account follows _ALLOWED_TRANSITIONS, and an invited user     *)
(* becomes active by following a link only, for any number of concurrent   *)
(* requests (change_user_status, verify_magic_link).                       *)
(***************************************************************************)
THEOREM AccountsFollowTheTable == AccountsSpec => StatusFollowsTable
<1>1. AccountsInit => Inductive
  BY PurposesInductive DEF AccountsInit, Inductive, RequestsSoFar, Shapes, VisitSoFar, ChangeSoFar, Idle
<1>2. Inductive /\ [AccountsNext]_accountVars => Inductive'
  BY RequestsInductive, PurposesInductive DEF Inductive
<1>3. Inductive /\ [AccountsNext]_accountVars => [Allowable]_accountVars
  BY StepIsAllowable
<1> QED
  BY <1>1, <1>2, <1>3, PTL DEF AccountsSpec, StatusFollowsTable
-----------------------------------------------------------------------------
(* One live link of a purpose, one session of a link *)

SessionRows == [link : Nat, revoked : BOOLEAN]

Recorded ==
    /\ sessions \in Seq(SessionRows)
    /\ accountFaults \in Nat
    /\ raced \in [links : BOOLEAN, visits : BOOLEAN, status : BOOLEAN]

\* Before there is a user there is no link and nobody issues one; later, one at a time.
OneIssue ==
    /\ status = "NONE" => links = <<>> /\ \A i \in Issuers : issue[i] = Idle
    /\ ~raced.links => \A i, j \in Issuers : issue[i] # Idle /\ issue[j] # Idle => i = j

\* A live link is the newest of its purpose, and is gone when another is about to come.
OneLive ==
    ~raced.links =>
      /\ \A j, k \in DOMAIN links : Live(links[j]) /\ k > j => links[k].purpose # links[j].purpose
      /\ \A i \in Issuers, k \in DOMAIN links :
           issue[i].step = "insert" /\ Live(links[k]) => links[k].purpose # issue[i].purpose

OneVisit ==
    ~raced.visits => \A v, w \in Visits : visit[v] # Idle /\ visit[w] # Idle => v = w

\* Only a consumed link has a session, and the link of a visit has none yet.
OneSession ==
    /\ \A s \in DOMAIN sessions :
         sessions[s].link \in DOMAIN links /\ links[sessions[s].link].consumed
    /\ ~raced.visits =>
         /\ \A j, k \in DOMAIN sessions : sessions[j].link = sessions[k].link => j = k
         /\ \A v \in Visits, s \in DOMAIN sessions :
              visit[v].step # "idle" => sessions[s].link # visit[v].link

\* A link that was consumed has its session, or the visit that consumed it goes on.
NothingLost ==
    accountFaults = 0 =>
      \A k \in DOMAIN links : links[k].consumed =>
        \/ \E s \in DOMAIN sessions : sessions[s].link = k
        \/ \E v \in Visits : visit[v].step \in {"stamp", "session"} /\ visit[v].link = k

LinksInductive ==
    Inductive /\ Recorded /\ OneIssue /\ OneLive /\ OneVisit /\ OneSession /\ NothingLost

LEMMA RecordedInductive ==
    ASSUME Inductive, Recorded, [AccountsNext]_accountVars
    PROVE  Recorded'
<1>1. sessions' \in Seq(SessionRows)
  <2> USE DEF Inductive, RequestsSoFar, Shapes, Recorded
  <2>1. CASE \E v \in Visits : CreateSession(v)
    <3> PICK v \in Visits : CreateSession(v)
      BY <2>1
    <3>1. visit[v].link \in Nat
      BY DEF CreateSession, Idle, VisitRecords
    <3> DEFINE new == [link |-> visit[v].link, revoked |-> FALSE]
    <3>2. new \in SessionRows /\ sessions' = Append(sessions, new)
      BY <3>1 DEF CreateSession, SessionRows
    <3> HIDE DEF new
    <3> QED
      BY <3>2
  <2>2. CASE \E k \in DOMAIN sessions : RevokeSession(k)
    <3> PICK k \in DOMAIN sessions : RevokeSession(k)
      BY <2>2
    <3> DEFINE new == [sessions[k] EXCEPT !.revoked = TRUE]
    <3>1. sessions[k] \in SessionRows
      OBVIOUS
    <3>2. new \in SessionRows
      BY <3>1 DEF SessionRows
    <3>3. sessions' = [sessions EXCEPT ![k] = new]
      BY DEF RevokeSession
    <3> HIDE DEF new
    <3> QED
      BY <3>2, <3>3
  <2>3. CASE UNCHANGED sessions
    BY <2>3
  <2> QED
    BY <2>1, <2>2, <2>3
       DEF AccountsNext, accountVars, tables, CreateUser, RequestLink, RevokeLinks, InsertLink, FollowLink,
           ReadUser, Consume, Stamp, ReadStatus, WriteStatus, Crash
<1>2. accountFaults' \in {accountFaults, accountFaults + 1}
  BY DEF AccountsNext, accountVars, CreateUser, RequestLink, RevokeLinks, InsertLink, FollowLink, ReadUser,
         Consume, Stamp, CreateSession, RevokeSession, ReadStatus, WriteStatus, Crash
<1>3. raced' \in [links : BOOLEAN, visits : BOOLEAN, status : BOOLEAN]
  <2>1. raced \in [links : BOOLEAN, visits : BOOLEAN, status : BOOLEAN]
    BY DEF Recorded
  <2> QED
    BY <2>1 DEF AccountsNext, accountVars, CreateUser, RequestLink, RevokeLinks, InsertLink, FollowLink,
         ReadUser, Consume, Stamp, CreateSession, RevokeSession, ReadStatus, WriteStatus, Crash
<1> QED
  BY <1>1, <1>2, <1>3 DEF Recorded

LEMMA OneIssueInductive ==
    ASSUME Inductive, Recorded, OneIssue, [AccountsNext]_accountVars
    PROVE  OneIssue'
<1> USE DEF Inductive, RequestsSoFar, Shapes, Recorded, OneIssue, IssuesHavePurposes
<1>1. CASE \E i \in Issuers : CreateUser(i)
  BY <1>1 DEF CreateUser
<1>2. CASE \E i \in Issuers : RequestLink(i)
  <2> PICK i \in Issuers : RequestLink(i)
    BY <1>2
  <2>1. status' # "NONE"
    BY DEF RequestLink, Authenticatable, tables
  <2>2. ~raced'.links => \A j \in Issuers : issue[j] = Idle
    BY DEF RequestLink
  <2>3. \A j \in Issuers : j # i => issue'[j] = issue[j]
    BY DEF RequestLink
  <2> QED
    BY <2>1, <2>2, <2>3
<1>3. CASE \E i \in Issuers : RevokeLinks(i)
  BY <1>3 DEF RevokeLinks, Idle
<1>4. CASE \E i \in Issuers : InsertLink(i)
  BY <1>4 DEF InsertLink, Idle
<1>5. CASE \E v \in Visits : Consume(v)
  BY <1>5 DEF Consume, VisitSoFar
<1>6. CASE \E v \in Visits : Stamp(v)
  <2> PICK v \in Visits : Stamp(v)
    BY <1>6
  <2>1. /\ status' # "NONE" \/ status' = status
        /\ UNCHANGED <<links, issue>> /\ raced'.links = raced.links
    BY DEF Stamp
  <2> QED
    BY <2>1
<1>7. CASE \E c \in Changes : WriteStatus(c)
  <2> PICK c \in Changes : WriteStatus(c)
    BY <1>7
  <2>1. change[c].before \in Statuses /\ status' \in Allowed[change[c].before]
    BY DEF WriteStatus, ChangeSoFar
  <2>2. status' # "NONE"
    BY <2>1 DEF Allowed, Statuses
  <2>3. UNCHANGED <<links, issue>> /\ raced'.links = raced.links
    BY DEF WriteStatus
  <2> QED
    BY <2>2, <2>3
<1>8. CASE Crash
  BY <1>8 DEF Crash, tables
<1>9. CASE UNCHANGED <<status, links, issue>> /\ raced'.links = raced.links
  BY <1>9
<1> QED
  BY <1>1, <1>2, <1>3, <1>4, <1>5, <1>6, <1>7, <1>8, <1>9
     DEF AccountsNext, accountVars, tables, requests, FollowLink, ReadUser, CreateSession, RevokeSession,
         ReadStatus

\* No step brings a link back to life or gives it another purpose.
LEMMA LinksStay ==
    ASSUME Inductive, [AccountsNext]_accountVars
    PROVE  \A k \in DOMAIN links : /\ k \in DOMAIN links' /\ links'[k].purpose = links[k].purpose
                                   /\ Live(links'[k]) => Live(links[k])
<1> USE DEF Inductive, RequestsSoFar, Shapes
<1>1. CASE \E i \in Issuers : RevokeLinks(i)
  <2> PICK i \in Issuers : RevokeLinks(i)
    BY <1>1
  <2>1. links' = [k \in DOMAIN links |-> Revoked(links[k], issue[i].purpose)]
    BY DEF RevokeLinks
  <2>2. \A k \in DOMAIN links : links[k] \in Links
    OBVIOUS
  <2> QED
    BY <2>1, <2>2 DEF Revoked, Live, Links
<1>2. CASE \E i \in Issuers : InsertLink(i)
  <2> PICK i \in Issuers : InsertLink(i)
    BY <1>2
  <2> DEFINE new == [purpose |-> issue[i].purpose, consumed |-> FALSE, revoked |-> FALSE]
  <2>1. new \in Links /\ links' = Append(links, new)
    BY DEF InsertLink, Links, IssuesHavePurposes, Idle
  <2> HIDE DEF new
  <2> QED
    BY <2>1
<1>3. CASE \E v \in Visits : Consume(v)
  <2> PICK v \in Visits : Consume(v)
    BY <1>3
  <2>1. /\ visit[v].link \in DOMAIN links
        /\ links' = [links EXCEPT ![visit[v].link].consumed = TRUE]
    BY DEF Consume, VisitSoFar
  <2>2. \A k \in DOMAIN links : links[k] \in Links
    OBVIOUS
  <2> QED
    BY <2>1, <2>2 DEF Live, Links
<1>4. CASE UNCHANGED links
  BY <1>4
<1> QED
  BY <1>1, <1>2, <1>3, <1>4
     DEF AccountsNext, accountVars, tables, requests, CreateUser, RequestLink, FollowLink, ReadUser, Stamp,
         CreateSession, RevokeSession, ReadStatus, WriteStatus, Crash

LEMMA OneLiveInductive ==
    ASSUME Inductive, Recorded, OneIssue, OneLive, [AccountsNext]_accountVars
    PROVE  OneLive'
<1> SUFFICES ASSUME ~raced'.links
             PROVE  OneLive'
  BY DEF OneLive
<1>1. ~raced.links
  BY DEF Recorded, AccountsNext, accountVars, CreateUser, RequestLink, RevokeLinks, InsertLink, FollowLink,
         ReadUser, Consume, Stamp, CreateSession, RevokeSession, ReadStatus, WriteStatus, Crash
<1>2. links \in Seq(Links)
  BY DEF Inductive, RequestsSoFar, Shapes
\* What is left to show when no link is inserted: that an insertion is prepared.
<1>3. ASSUME DOMAIN links' = DOMAIN links,
             \A i \in Issuers, k \in DOMAIN links :
               issue'[i].step = "insert" /\ Live(links'[k]) => links[k].purpose # issue'[i].purpose
      PROVE  OneLive'
  BY <1>1, <1>3, LinksStay DEF OneLive
<1>4. CASE \E i \in Issuers : CreateUser(i)
  <2>1. links = <<>> /\ links' = links
    BY <1>4 DEF CreateUser, OneIssue
  <2> QED
    BY <1>3, <2>1
<1>5. CASE \E i \in Issuers : RequestLink(i)
  <2>1. PICK i \in Issuers : RequestLink(i)
    BY <1>5
  <2>2. links' = links /\ \A j \in Issuers : j # i => issue'[j] = issue[j]
    BY <2>1 DEF RequestLink, tables
  <2>3. issue'[i].step = "revoke"
    BY <2>1 DEF RequestLink, Inductive, IssuesHavePurposes
  <2> QED
    BY <1>1, <1>3, <2>2, <2>3 DEF OneLive
<1>6. CASE \E i \in Issuers : RevokeLinks(i)
  <2>1. PICK i \in Issuers : RevokeLinks(i)
    BY <1>6
  <2>2. /\ issue[i] # Idle
        /\ links' = [k \in DOMAIN links |-> Revoked(links[k], issue[i].purpose)]
        /\ \A j \in Issuers : j # i => issue'[j] = issue[j]
    BY <2>1 DEF RevokeLinks, Idle
  <2>3. issue'[i].purpose = issue[i].purpose
    <3>1. issue[i] \in [step : {"revoke", "insert"}, purpose : Purposes]
      BY <2>2 DEF Inductive, IssuesHavePurposes
    <3> QED
      BY <2>1, <3>1 DEF RevokeLinks, Inductive, IssuesHavePurposes
  <2>4. \A j \in Issuers : j # i => issue'[j] = Idle
    BY <1>1, <2>2 DEF OneIssue
  <2>5. \A k \in DOMAIN links : Live(links'[k]) => links[k].purpose # issue[i].purpose
    <3>1. \A k \in DOMAIN links : links[k] \in Links
      BY <1>2
    <3> QED
      BY <2>2, <3>1 DEF Revoked, Live, Links
  <2> QED
    BY <1>3, <2>2, <2>3, <2>4, <2>5 DEF Idle
<1>7. CASE \E i \in Issuers : InsertLink(i)
  <2>1. PICK i \in Issuers : InsertLink(i)
    BY <1>7
  <2> DEFINE purpose == issue[i].purpose
             new == [purpose |-> purpose, consumed |-> FALSE, revoked |-> FALSE]
  <2>2. issue[i].step = "insert" /\ links' = Append(links, new)
    BY <2>1 DEF InsertLink
  <2>3. \A j \in Issuers : issue'[j] = Idle
    BY <1>1, <2>1 DEF InsertLink, OneIssue, Inductive, IssuesHavePurposes, Idle
  <2>4. \A k \in DOMAIN links : Live(links[k]) => links[k].purpose # purpose
    BY <1>1, <2>2 DEF OneLive
  <2>5. new.purpose = purpose
    OBVIOUS
  <2> HIDE DEF new, purpose
  <2>6. ASSUME NEW j \in DOMAIN links', NEW k \in DOMAIN links', Live(links'[j]), k > j
        PROVE  links'[k].purpose # links'[j].purpose
    <3>1. j \in DOMAIN links /\ links'[j] = links[j]
      BY <1>2, <2>2, <2>6
    <3>2. CASE k \in DOMAIN links
      <4>1. links'[k] = links[k]
        BY <1>2, <2>2, <3>2
      <4> QED
        BY <1>1, <2>6, <3>1, <3>2, <4>1 DEF OneLive
    <3>3. CASE k \notin DOMAIN links
      <4>1. links'[k] = new
        BY <1>2, <2>2, <3>3
      <4> QED
        BY <2>4, <2>5, <2>6, <3>1, <4>1
    <3> QED
      BY <3>2, <3>3
  <2> QED
    BY <2>3, <2>6 DEF OneLive, Idle
<1>8. CASE UNCHANGED issue /\ DOMAIN links' = DOMAIN links
  BY <1>1, <1>3, <1>8, LinksStay DEF OneLive
<1>9. CASE Crash
  BY <1>3, <1>9 DEF Crash, tables, Idle
<1>10. ASSUME NEW v \in Visits, Consume(v)
       PROVE  UNCHANGED issue /\ DOMAIN links' = DOMAIN links
  BY <1>2, <1>10 DEF Consume
<1> QED
  BY <1>4, <1>5, <1>6, <1>7, <1>8, <1>9, <1>10
     DEF AccountsNext, accountVars, tables, requests, FollowLink, ReadUser, Stamp, CreateSession,
         RevokeSession, ReadStatus, WriteStatus

LEMMA OneVisitInductive ==
    ASSUME Inductive, Recorded, OneVisit, [AccountsNext]_accountVars
    PROVE  OneVisit'
<1> USE DEF Inductive, RequestsSoFar, Shapes, Recorded, OneVisit
<1>1. CASE \E v \in Visits, k \in DOMAIN links : FollowLink(v, k)
  <2> PICK v \in Visits, k \in DOMAIN links : FollowLink(v, k)
    BY <1>1
  <2>1. ~raced'.visits => \A w \in Visits : visit[w] = Idle
    BY DEF FollowLink
  <2>2. \A w \in Visits : w # v => visit'[w] = visit[w]
    BY DEF FollowLink
  <2> QED
    BY <2>1, <2>2
<1>2. CASE \E v \in Visits : ReadUser(v) \/ Consume(v) \/ Stamp(v) \/ CreateSession(v)
  <2> PICK v \in Visits : ReadUser(v) \/ Consume(v) \/ Stamp(v) \/ CreateSession(v)
    BY <1>2
  <2>1. visit[v] # Idle /\ \A w \in Visits : w # v => visit'[w] = visit[w]
    BY DEF ReadUser, Consume, Stamp, CreateSession, Idle
  <2>2. raced'.visits = raced.visits
    BY DEF ReadUser, Consume, Stamp, CreateSession
  <2> QED
    BY <2>1, <2>2
<1>3. CASE Crash
  BY <1>3 DEF Crash
<1>4. CASE visit' = visit /\ raced'.visits = raced.visits
  BY <1>4
<1> QED
  BY <1>1, <1>2, <1>3, <1>4
     DEF AccountsNext, accountVars, tables, requests, CreateUser, RequestLink, RevokeLinks, InsertLink,
         RevokeSession, ReadStatus, WriteStatus

LEMMA GrowingLinks ==
    ASSUME Inductive, [AccountsNext]_accountVars
    PROVE  LinksOnlyGrow
<1>1. \A i \in Issuers : issue[i].step = "insert" => issue[i].purpose \in Purposes
  BY DEF Inductive, IssuesHavePurposes, Idle
<1> QED
  BY <1>1, LinksGrow DEF Inductive, RequestsSoFar, Shapes

\* Sessions are never deleted and keep their link; a step adds that of its visit or none.
LEMMA SessionsStay ==
    ASSUME Inductive, Recorded, [AccountsNext]_accountVars
    PROVE  /\ \A s \in DOMAIN sessions : s \in DOMAIN sessions' /\ sessions'[s].link = sessions[s].link
           /\ \/ DOMAIN sessions' = DOMAIN sessions
              \/ \E v \in Visits :
                   /\ visit[v].step = "session" /\ visit' = [visit EXCEPT ![v] = Idle]
                   /\ \A s \in DOMAIN sessions' \ DOMAIN sessions : sessions'[s].link = visit[v].link
                   /\ \E s \in DOMAIN sessions' : sessions'[s].link = visit[v].link
                   /\ \A j, k \in DOMAIN sessions' \ DOMAIN sessions : j = k
                   /\ raced'.visits = raced.visits
<1>0. sessions \in Seq(SessionRows)
  BY DEF Recorded
<1>1. CASE \E v \in Visits : CreateSession(v)
  <2> PICK v \in Visits : CreateSession(v)
    BY <1>1
  <2> DEFINE new == [link |-> visit[v].link, revoked |-> FALSE]
  <2>1. /\ visit[v].step = "session" /\ visit' = [visit EXCEPT ![v] = Idle]
        /\ raced' = raced /\ sessions' = Append(sessions, new)
    BY DEF CreateSession
  <2>2. new.link = visit[v].link
    OBVIOUS
  <2> HIDE DEF new
  <2>3. /\ \A s \in DOMAIN sessions : s \in DOMAIN sessions' /\ sessions'[s] = sessions[s]
        /\ Len(sessions) + 1 \in DOMAIN sessions' /\ sessions'[Len(sessions) + 1] = new
        /\ \A s \in DOMAIN sessions' \ DOMAIN sessions : s = Len(sessions) + 1
    BY <1>0, <2>1
  <2> QED
    BY <2>1, <2>2, <2>3
<1>2. CASE \E k \in DOMAIN sessions : RevokeSession(k)
  <2> PICK k \in DOMAIN sessions : RevokeSession(k)
    BY <1>2
  <2> DEFINE new == [sessions[k] EXCEPT !.revoked = TRUE]
  <2>1. sessions[k] \in SessionRows
    BY <1>0
  <2>2. new.link = sessions[k].link
    BY <2>1 DEF SessionRows
  <2>3. sessions' = [sessions EXCEPT ![k] = new]
    BY DEF RevokeSession
  <2> HIDE DEF new
  <2> QED
    BY <1>0, <2>2, <2>3
<1>3. CASE UNCHANGED sessions
  BY <1>3
<1> QED
  BY <1>1, <1>2, <1>3
     DEF AccountsNext, accountVars, tables, CreateUser, RequestLink, RevokeLinks, InsertLink, FollowLink,
         ReadUser, Consume, Stamp, ReadStatus, WriteStatus, Crash

LEMMA OneSessionInductive ==
    ASSUME Inductive, Recorded, OneVisit, OneSession, [AccountsNext]_accountVars
    PROVE  OneSession'
<1>1. \A s \in DOMAIN sessions' :
        sessions'[s].link \in DOMAIN links' /\ links'[sessions'[s].link].consumed
  <2>1. \A v \in Visits : visit[v].step = "session"
           => visit[v].link \in DOMAIN links /\ links[visit[v].link].consumed
    BY DEF Inductive, RequestsSoFar, VisitSoFar
  <2> QED
    BY <2>1, SessionsStay, GrowingLinks DEF OneSession, LinksOnlyGrow
<1>2. ASSUME ~raced'.visits
      PROVE  /\ \A j, k \in DOMAIN sessions' : sessions'[j].link = sessions'[k].link => j = k
             /\ \A v \in Visits, s \in DOMAIN sessions' :
                  visit'[v].step # "idle" => sessions'[s].link # visit'[v].link
  <2>1. ~raced.visits
    BY <1>2 DEF Recorded, AccountsNext, accountVars, CreateUser, RequestLink, RevokeLinks, InsertLink,
         FollowLink, ReadUser, Consume, Stamp, CreateSession, RevokeSession, ReadStatus, WriteStatus, Crash
  <2>2. /\ \A j, k \in DOMAIN sessions : sessions[j].link = sessions[k].link => j = k
        /\ \A v \in Visits, s \in DOMAIN sessions :
             visit[v].step # "idle" => sessions[s].link # visit[v].link
    BY <2>1 DEF OneSession
  <2>3. CASE DOMAIN sessions' = DOMAIN sessions
    <3>1. \A v \in Visits : \/ visit'[v].step = "idle"
                            \/ visit[v].step # "idle" /\ visit'[v].link = visit[v].link
                            \/ visit'[v].link \in DOMAIN links /\ ~links[visit'[v].link].consumed
      <4> USE DEF Inductive, RequestsSoFar, Shapes
      <4>1. CASE \E v \in Visits, k \in DOMAIN links : FollowLink(v, k)
        BY <4>1 DEF FollowLink, Live
      <4>2. CASE \E v \in Visits : ReadUser(v) \/ Consume(v) \/ Stamp(v) \/ CreateSession(v)
        <5> PICK v \in Visits : ReadUser(v) \/ Consume(v) \/ Stamp(v) \/ CreateSession(v)
          BY <4>2
        <5>1. visit[v] \in VisitRecords /\ \A w \in Visits : w # v => visit'[w] = visit[w]
          BY DEF ReadUser, Consume, Stamp, CreateSession, Idle
        <5>2. visit'[v].step = "idle" \/ visit'[v].link = visit[v].link
          <6>1. CASE ReadUser(v)
            BY <5>1, <6>1 DEF ReadUser, Idle, VisitRecords
          <6>2. CASE Consume(v)
            BY <5>1, <6>2 DEF Consume, VisitRecords
          <6>3. CASE Stamp(v)
            BY <5>1, <6>3 DEF Stamp, VisitRecords
          <6>4. CASE CreateSession(v)
            BY <6>4 DEF CreateSession, Idle
          <6> QED
            BY <6>1, <6>2, <6>3, <6>4
        <5> QED
          BY <5>1, <5>2 DEF VisitRecords
      <4>3. CASE Crash
        BY <4>3 DEF Crash, Idle
      <4>4. CASE visit' = visit
        BY <4>4
      <4> QED
        BY <4>1, <4>2, <4>3, <4>4
           DEF AccountsNext, accountVars, tables, requests, CreateUser, RequestLink, RevokeLinks, InsertLink,
               RevokeSession, ReadStatus, WriteStatus
    <3> QED
      BY <2>2, <2>3, <3>1, SessionsStay DEF OneSession
  <2>4. ASSUME NEW v \in Visits,
               visit[v].step = "session", visit' = [visit EXCEPT ![v] = Idle],
               \A s \in DOMAIN sessions' \ DOMAIN sessions : sessions'[s].link = visit[v].link,
               \A j, k \in DOMAIN sessions' \ DOMAIN sessions : j = k
        PROVE  /\ \A j, k \in DOMAIN sessions' : sessions'[j].link = sessions'[k].link => j = k
               /\ \A w \in Visits : visit'[w].step = "idle"
    <3>1. \A w \in Visits : visit'[w] = Idle
      BY <2>1, <2>4 DEF OneVisit, Inductive, RequestsSoFar, Shapes, Idle
    <3>2. \A j \in DOMAIN sessions : sessions'[j].link # visit[v].link
      BY <2>2, <2>4, SessionsStay
    <3> QED
      BY <2>2, <2>4, <3>1, <3>2, SessionsStay DEF Idle
  <2> QED
    BY <2>3, <2>4, SessionsStay
<1> QED
  BY <1>1, <1>2 DEF OneSession

LEMMA NothingLostInductive ==
    ASSUME Inductive, Recorded, NothingLost, [AccountsNext]_accountVars
    PROVE  NothingLost'
<1> SUFFICES ASSUME accountFaults' = 0, NEW k \in DOMAIN links', links'[k].consumed
             PROVE  \/ \E s \in DOMAIN sessions' : sessions'[s].link = k
                    \/ \E v \in Visits : visit'[v].step \in {"stamp", "session"} /\ visit'[v].link = k
  BY DEF NothingLost
<1>1. ~Crash /\ accountFaults = 0
  <2>1. accountFaults \in Nat
    BY DEF Recorded
  <2>2. CASE Crash
    BY <2>1, <2>2 DEF Crash
  <2>3. CASE ~Crash
    <3>1. accountFaults' = accountFaults
      BY <2>3 DEF AccountsNext, accountVars, CreateUser, RequestLink, RevokeLinks, InsertLink, FollowLink,
           ReadUser, Consume, Stamp, CreateSession, RevokeSession, ReadStatus, WriteStatus
    <3> QED
      BY <2>3, <3>1
  <2> QED
    BY <2>2, <2>3
<1>2. /\ links \in Seq(Links)
      /\ visit \in [Visits -> {Idle} \cup VisitRecords]
  BY DEF Inductive, RequestsSoFar, Shapes
<1>3. CASE k \in DOMAIN links /\ links[k].consumed
  <2>1. CASE \E s \in DOMAIN sessions : sessions[s].link = k
    BY <2>1, SessionsStay
  <2>2. CASE \E v \in Visits : visit[v].step \in {"stamp", "session"} /\ visit[v].link = k
    <3> PICK v \in Visits : visit[v].step \in {"stamp", "session"} /\ visit[v].link = k
      BY <2>2
    <3>1. visit[v] \in VisitRecords
      BY <1>2 DEF Idle
    <3>2. CASE CreateSession(v)
      <4> DEFINE new == [link |-> k, revoked |-> FALSE]
      <4>1. sessions' = Append(sessions, new) /\ sessions \in Seq(SessionRows)
        BY <3>2 DEF CreateSession, Recorded
      <4>2. new.link = k
        OBVIOUS
      <4> HIDE DEF new
      <4>3. Len(sessions) + 1 \in DOMAIN sessions' /\ sessions'[Len(sessions) + 1] = new
        BY <4>1
      <4> QED
        BY <4>2, <4>3
    <3>3. CASE Stamp(v)
      BY <1>2, <3>1, <3>3 DEF Stamp, VisitRecords
    <3>4. CASE visit'[v] = visit[v]
      BY <3>4
    <3>5. ASSUME NEW w \in Visits, w # v,
                 \/ \E j \in DOMAIN links : FollowLink(w, j)
                 \/ ReadUser(w) \/ Consume(w) \/ Stamp(w) \/ CreateSession(w)
          PROVE  visit'[v] = visit[v]
      BY <1>2, <3>5 DEF FollowLink, ReadUser, Consume, Stamp, CreateSession
    <3>6. ~ReadUser(v) /\ ~Consume(v) /\ \A j \in DOMAIN links : ~FollowLink(v, j)
      BY DEF ReadUser, Consume, FollowLink, Idle
    <3>7. CASE visit' = visit
      BY <3>4, <3>7
    <3> QED
      BY <1>1, <3>2, <3>3, <3>4, <3>5, <3>6, <3>7
         DEF AccountsNext, accountVars, tables, requests, CreateUser, RequestLink, RevokeLinks, InsertLink,
             RevokeSession, ReadStatus, WriteStatus
  <2> QED
    BY <1>1, <1>3, <2>1, <2>2 DEF NothingLost
<1>4. CASE ~(k \in DOMAIN links /\ links[k].consumed)
  <2>1. PICK v \in Visits : Consume(v)
    <3>1. CASE \E i \in Issuers : RevokeLinks(i)
      <4>1. PICK i \in Issuers : links' = [j \in DOMAIN links |-> Revoked(links[j], issue[i].purpose)]
        BY <3>1 DEF RevokeLinks
      <4>2. \A j \in DOMAIN links : links[j] \in Links
        BY <1>2
      <4> QED
        BY <1>4, <4>1, <4>2, RevokedKeepsConsumed
    <3>2. CASE \E i \in Issuers : InsertLink(i)
      <4>1. PICK i \in Issuers :
              links' = Append(links, [purpose |-> issue[i].purpose, consumed |-> FALSE, revoked |-> FALSE])
        BY <3>2 DEF InsertLink
      <4> QED
        BY <1>2, <1>4, <4>1
    <3>3. CASE UNCHANGED links
      BY <1>4, <3>3
    <3> QED
      BY <3>1, <3>2, <3>3
         DEF AccountsNext, accountVars, tables, requests, CreateUser, RequestLink, FollowLink, ReadUser,
             Stamp, CreateSession, RevokeSession, ReadStatus, WriteStatus, Crash
  <2>2. visit[v].link \in DOMAIN links /\ visit[v] \in VisitRecords
    BY <1>2, <2>1 DEF Consume, Inductive, RequestsSoFar, VisitSoFar, Idle
  <2>3. k = visit[v].link
    BY <1>2, <1>4, <2>1, <2>2 DEF Consume
  <2>4. visit'[v].step = "stamp" /\ visit'[v].link = k
    BY <1>2, <2>1, <2>2, <2>3 DEF Consume, VisitRecords
  <2> QED
    BY <2>4
<1> QED
  BY <1>3, <1>4

(***************************************************************************)
(* For any number of concurrent requests, links and crashes: unless two    *)
(* links were being issued at once there is one live link of a purpose at  *)
(* most; unless two visits overlapped a link opens one session at most;    *)
(* and without a crash a consumed link has its session or its visit goes   *)
(* on (_issue_token, verify_magic_link).                                   *)
(***************************************************************************)
THEOREM LinksOpenOneSession == AccountsSpec => []LinkOpensOneSession
<1>1. AccountsInit => LinksInductive
  <2> SUFFICES ASSUME AccountsInit PROVE LinksInductive
    OBVIOUS
  <2>1. Inductive
    BY PurposesInductive DEF AccountsInit, Inductive, RequestsSoFar, Shapes, VisitSoFar, ChangeSoFar, Idle
  <2>2. Recorded /\ OneIssue /\ OneLive /\ OneVisit
    BY DEF AccountsInit, Recorded, OneIssue, OneLive, OneVisit, Idle
  <2>3. OneSession /\ NothingLost
    BY DEF AccountsInit, OneSession, NothingLost
  <2> QED
    BY <2>1, <2>2, <2>3 DEF LinksInductive
<1>2. LinksInductive /\ [AccountsNext]_accountVars => LinksInductive'
  <2> SUFFICES ASSUME LinksInductive, [AccountsNext]_accountVars PROVE LinksInductive'
    OBVIOUS
  <2>1. Inductive'
    BY RequestsInductive, PurposesInductive DEF Inductive, LinksInductive
  <2> QED
    BY <2>1, RecordedInductive, OneIssueInductive, OneLiveInductive, OneVisitInductive, OneSessionInductive,
       NothingLostInductive DEF LinksInductive
<1>3. LinksInductive => LinkOpensOneSession
  <2> SUFFICES ASSUME LinksInductive PROVE LinkOpensOneSession
    OBVIOUS
  <2>1. DOMAIN links \subseteq Nat
    BY DEF LinksInductive, Inductive, RequestsSoFar, Shapes
  <2>2. \A j, k \in DOMAIN links : j = k \/ k > j \/ j > k
    BY <2>1
  <2> QED
    BY <2>2 DEF LinksInductive, OneLive, OneSession, NothingLost, LinkOpensOneSession, Idle
<1> QED
  BY <1>1, <1>2, <1>3, PTL DEF AccountsSpec

-----------------------------------------------------------------------------
(* The risk settings *)

USE DEF request, faults

(***************************************************************************)
(* The default limits are limits.                                          *)
(***************************************************************************)
LEMMA DefaultsType == Defaults \in Limits
BY ValueAssumption DEF Defaults, Limits

(***************************************************************************)
(* Setting the limits keeps the types, whoever stamps them.                *)
(***************************************************************************)
LEMMA SetTypes ==
    ASSUME TypeOK, clock' \in Nat, NEW r \in Requests, NEW v \in Values,
           NEW e \in Nat, NEW stamp \in {"clock", "past", "ahead"},
           NEW save \in {"save_limits", "save_settings"},
           Set(r, v, e, stamp, save)
    PROVE  TypeOK'
<1>1. limits' \in Limits
  BY DEF Set, Limits
<1>2. pc' \in [Requests -> Steps]
  BY DEF Set, TypeOK, Steps
<1> QED
  BY <1>1, <1>2 DEF Set, TypeOK

(***************************************************************************)
(* Type correctness of every state that requests, crashes and failed calls *)
(* reach.                                                                  *)
(***************************************************************************)
THEOREM SettingsTypes == Spec => []TypeOK
<1>1. Init => TypeOK
  BY DefaultsType DEF Init, TypeOK, Steps
<1>2. ASSUME TypeOK, [Next]_vars
      PROVE  TypeOK'
  <2>1. ASSUME NEW r \in DeskRequests, NEW v \in Values, PutLimits(r, v)
        PROVE  TypeOK'
    BY <1>2, <2>1, SetTypes DEF PutLimits, TypeOK, Requests
  <2>2. ASSUME NEW r \in DeskRequests, NEW v \in Values, PutEditedLimits(r, v)
        PROVE  TypeOK'
    <3>1. PICK e \in 0 .. clock + MaxAhead :
            Set(r, v, e, IF e > clock THEN "ahead" ELSE "past", "save_limits")
      BY <2>2 DEF PutEditedLimits
    <3>2. e \in Nat /\ clock' \in Nat /\ r \in Requests
      BY <1>2, <2>2, <3>1, BoundAssumption DEF PutEditedLimits, TypeOK, Requests
    <3>3. (IF e > clock THEN "ahead" ELSE "past") \in {"clock", "past", "ahead"}
      OBVIOUS
    <3> QED
      BY <1>2, <3>1, <3>2, <3>3, SetTypes
  <2>3. ASSUME NEW r \in AdminRequests, NEW v \in Values, PutSettings(r, v)
        PROVE  TypeOK'
    BY <1>2, <2>3, SetTypes DEF PutSettings, TypeOK, Requests
  <2>4. ASSUME NEW r \in Requests, LimitsSaved(r) \/ SettingsSaved(r) \/ Abort(r)
        PROVE  TypeOK'
    BY <1>2, <2>4 DEF LimitsSaved, SettingsSaved, Abort, TypeOK, Steps
  <2>5. ASSUME NEW r \in Requests, AuditSaved(r)
        PROVE  TypeOK'
    <3>1. [by |-> r, before |-> before[r], after |-> after[r]] \in Audits
      BY <1>2 DEF TypeOK, Audits
    <3> QED
      BY <1>2, <2>5, <3>1 DEF AuditSaved, TypeOK, Steps
  <2>6. ASSUME Restart
        PROVE  TypeOK'
    <3>1. limits' \in Limits
      BY <1>2, <2>6, DefaultsType DEF Restart, Newest, TypeOK
    <3> QED
      BY <1>2, <2>6, <3>1 DEF Restart, TypeOK, Steps
  <2>7. CASE UNCHANGED vars
    BY <1>2, <2>7 DEF vars, TypeOK
  <2> QED
    BY <1>2, <2>1, <2>2, <2>3, <2>4, <2>5, <2>6, <2>7 DEF Next
<1> QED
  BY <1>1, <1>2, PTL DEF Spec

-----------------------------------------------------------------------------
(* The audit trail *)

\* A request signs the limits it sets, and its row is saved before the event.
SettingsSoFar ==
    \A r \in Requests :
        /\ pc[r] \in {"save_limits", "save_settings"} => sent[r].by = r
        /\ pc[r] = "save_audit" => Durable(r)

(***************************************************************************)
(* No audit event without its row of risk_limits: update_risk_settings     *)
(* awaits the row before it records the event.                             *)
(***************************************************************************)
THEOREM AuditsAreDurable == Spec => []AuditedChangesAreDurable
<1> DEFINE IInv == SettingsSoFar /\ AuditedChangesAreDurable
<1>1. Init => IInv
  BY DEF Init, SettingsSoFar, AuditedChangesAreDurable
<1>2. ASSUME TypeOK, IInv, [Next]_vars
      PROVE  IInv'
  <2>1. ASSUME NEW r \in Requests, NEW v \in Values, NEW e, NEW stamp,
               NEW save \in {"save_limits", "save_settings"},
               Set(r, v, e, stamp, save)
        PROVE  IInv'
    <3>1. sent'[r].by = r
      BY <1>2, <2>1 DEF Set, TypeOK
    <3> QED
      BY <1>2, <2>1, <3>1
      DEF Set, TypeOK, SettingsSoFar, AuditedChangesAreDurable, Durable
  <2>2. ASSUME NEW r \in Requests, LimitsSaved(r) \/ SettingsSaved(r)
        PROVE  IInv'
    <3>1. /\ table' = table \cup {sent[r]} /\ sent' = sent /\ audits' = audits
          /\ sent[r].by = r
          /\ \A q \in Requests : q # r => pc'[q] = pc[q]
          /\ pc'[r] \in {"done", "save_audit"}
      BY <1>2, <2>2 DEF LimitsSaved, SettingsSaved, TypeOK, SettingsSoFar
    <3>2. Durable(r)' /\ \A q : Durable(q) => Durable(q)'
      BY <3>1 DEF Durable
    <3> QED
      BY <1>2, <3>1, <3>2 DEF SettingsSoFar, AuditedChangesAreDurable
  <2>3. ASSUME NEW r \in Requests, AuditSaved(r)
        PROVE  IInv'
    BY <1>2, <2>3
    DEF AuditSaved, TypeOK, SettingsSoFar, AuditedChangesAreDurable, Durable
  <2>4. ASSUME \/ \E r \in Requests : Abort(r)
               \/ Restart
               \/ UNCHANGED vars
        PROVE  IInv'
    <3>1. /\ table' = table /\ sent' = sent /\ audits' = audits
          /\ \A q \in Requests : pc'[q] \in {pc[q], "failed"}
      BY <1>2, <2>4 DEF Abort, Restart, vars, TypeOK
    <3> QED
      BY <1>2, <3>1 DEF SettingsSoFar, AuditedChangesAreDurable, Durable
  <2> QED
    BY <1>2, <2>1, <2>2, <2>3, <2>4
    DEF Next, PutLimits, PutEditedLimits, PutSettings, Requests
<1> QED
  BY <1>1, <1>2, SettingsTypes, PTL DEF Spec

-----------------------------------------------------------------------------
(* The limits in force *)

\* Limits with a stamp that is not ahead were stamped by now; and unless the limits in
\* force have a stamp that had passed, no such limits in the table or on their way to
\* it are newer.
NoNewerLimits ==
    /\ limits.stamp # "ahead" => limits.effective <= clock
    /\ \A row \in table : row.stamp # "ahead" => row.effective <= clock
    /\ \A r \in Requests : sent[r].stamp # "ahead" => sent[r].effective <= clock
    /\ limits.stamp # "past" =>
         /\ \A row \in table : row.stamp # "ahead" => row.effective <= limits.effective
         /\ \A r \in Requests :
              pc[r] \in {"save_limits", "save_settings"} /\ sent[r].stamp # "ahead" =>
                 sent[r].effective <= limits.effective

(***************************************************************************)
(* Whatever the bodies say, wherever a crash or a failed call falls and    *)
(* however late an insert commits: durable limits are newer than those in  *)
(* force only by a stamp that a caller chose.                              *)
(***************************************************************************)
THEOREM LimitsAreNewest == Spec => []LimitsNeverRegress
<1>1. Init => NoNewerLimits
  BY DEF Init, Defaults, NoNewerLimits
<1>2. ASSUME TypeOK, NoNewerLimits, [Next]_vars
      PROVE  NoNewerLimits'
  <2>1. /\ clock \in Nat /\ limits.effective \in Nat
        /\ \A row \in table : row.effective \in Nat
        /\ \A r \in Requests : sent[r].effective \in Nat
    BY <1>2 DEF TypeOK, Limits
  <2>2. ASSUME NEW r \in Requests, NEW v \in Values,
               NEW save \in {"save_limits", "save_settings"},
               clock' = clock + 1, Set(r, v, clock', "clock", save)
        PROVE  NoNewerLimits'
    <3>1. limits'.effective = clock + 1 /\ sent'[r].effective = clock + 1
      BY <1>2, <2>2 DEF Set, TypeOK
    <3>2. \A q \in Requests : q # r => pc'[q] = pc[q] /\ sent'[q] = sent[q]
      BY <1>2, <2>2 DEF Set, TypeOK
    <3>3. table' = table
      BY <2>2 DEF Set
    <3> QED
      BY <1>2, <2>1, <2>2, <3>1, <3>2, <3>3 DEF NoNewerLimits
  <2>3. ASSUME NEW r \in Requests, NEW v \in Values, PutEditedLimits(r, v)
        PROVE  NoNewerLimits'
    <3>1. PICK e \in 0 .. clock + MaxAhead :
            Set(r, v, e, IF e > clock THEN "ahead" ELSE "past", "save_limits")
      BY <2>3 DEF PutEditedLimits
    <3>2. e \in Int /\ clock \in Int
      BY <2>1, <3>1, BoundAssumption
    <3>3. /\ limits'.effective = e /\ limits'.stamp = IF e > clock THEN "ahead" ELSE "past"
          /\ sent'[r] = limits'
      BY <1>2, <3>1 DEF Set, TypeOK
    <3>4. \A q \in Requests : q # r => sent'[q] = sent[q] /\ pc'[q] = pc[q]
      BY <1>2, <3>1 DEF Set, TypeOK
    <3>5. table' = table /\ clock' = clock
      BY <2>3, <3>1 DEF Set, PutEditedLimits
    <3>6. CASE e > clock
      <4>1. limits'.stamp = "ahead"
        BY <3>3, <3>6
      <4>2. /\ \A row \in table : row.stamp # "ahead" => row.effective <= e
            /\ \A q \in Requests : sent[q].stamp # "ahead" => sent[q].effective <= e
        BY <1>2, <2>1, <3>2, <3>6 DEF NoNewerLimits
      <4> QED
        BY <1>2, <3>3, <3>4, <3>5, <4>1, <4>2 DEF NoNewerLimits
    <3>7. CASE ~ (e > clock)
      <4>1. limits'.stamp = "past" /\ e <= clock
        BY <3>2, <3>3, <3>7
      <4> QED
        BY <1>2, <3>3, <3>4, <3>5, <4>1 DEF NoNewerLimits
    <3> QED
      BY <3>6, <3>7
  <2>4. ASSUME NEW r \in Requests, LimitsSaved(r) \/ SettingsSaved(r)
        PROVE  NoNewerLimits'
    BY <1>2, <2>4 DEF LimitsSaved, SettingsSaved, TypeOK, NoNewerLimits
  <2>5. ASSUME \/ \E r \in Requests : AuditSaved(r) \/ Abort(r)
               \/ UNCHANGED vars
        PROVE  NoNewerLimits'
    BY <1>2, <2>5 DEF AuditSaved, Abort, vars, TypeOK, NoNewerLimits
  <2>6. ASSUME Restart
        PROVE  NoNewerLimits'
    <3>1. \A q \in Requests : pc'[q] \notin {"save_limits", "save_settings"}
      BY <1>2, <2>6 DEF Restart, InFlight, TypeOK
    <3>2. /\ \A row \in table : row.effective <= limits'.effective
          /\ limits'.stamp # "ahead" => limits'.effective <= clock
      <4>1. CASE table = {}
        BY <2>1, <2>6, <4>1 DEF Restart, Newest, Defaults
      <4>2. CASE table # {}
        BY <1>2, <2>1, <2>6, <4>2 DEF Restart, Newest, NoNewerLimits
      <4> QED
        BY <4>1, <4>2
    <3> QED
      BY <1>2, <2>6, <3>1, <3>2 DEF Restart, NoNewerLimits
  <2> QED
    BY <1>2, <2>2, <2>3, <2>4, <2>5, <2>6
    DEF Next, PutLimits, PutSettings, Requests
<1>3. TypeOK /\ NoNewerLimits => LimitsNeverRegress
  <2> SUFFICES ASSUME TypeOK, NoNewerLimits, NEW row \in table,
                      row.effective > limits.effective, limits.stamp # "past"
               PROVE  row.stamp = "ahead"
    BY DEF LimitsNeverRegress
  <2>1. row.effective \in Nat /\ limits.effective \in Nat
    BY DEF TypeOK, Limits
  <2> QED
    BY <2>1 DEF NoNewerLimits
<1> QED
  BY <1>1, <1>2, <1>3, SettingsTypes, PTL DEF Spec

-----------------------------------------------------------------------------
(* The agents: types *)

\* What is kept of a request in progress.
PatchRecords ==
    [step : {"load", "update", "refresh", "audit"}, agent : Administrable,
     before : Settable \cup {NoRow}, loaded : Settable \cup {NoRow}, status : Settable]

CycleSteps == {"read", "research", "quant", "submit", "deliberate", "route", "done"}
Actions == {"NONE", "WAIT_FOR_MORE_DATA", "REJECT", "REDUCE_SIZE", "APPROVE_FOR_REVIEW"}
Outcomes == {"NONE", "RISK_REVIEW", "HUMAN_REVIEW", "REJECTED"}
Ideas == [probability : Int, confidence : Int]

\* What is kept of a cycle in progress.
CycleRecords ==
    [step : CycleSteps, boot : BOOLEAN, off : SUBSET Administrable, ran : SUBSET Administrable,
     skipped : SUBSET Administrable, failed : SUBSET Administrable, idea : Ideas,
     action : Actions, state : Outcomes]

\* A status for each row and each agent of the trail, records for what is in progress.
AgentTypes ==
    /\ DOMAIN configs \subseteq Administrable
    /\ configs \in [DOMAIN configs -> Settable]
    /\ audited \in [Administrable -> Settable]
    /\ patch \in [Patches -> {Vacant} \cup PatchRecords]
    /\ \A p \in Patches :
         patch[p] # Vacant /\ patch[p].step # "load" => patch[p].agent \in DOMAIN configs
    /\ cycle \in [Cycles -> {Vacant} \cup CycleRecords]

\* A record of a request or a cycle is not that of none.
LEMMA RecordsAreTold ==
    /\ Vacant \notin PatchRecords /\ Vacant \notin CycleRecords
    /\ Vacant.step = "idle"
    /\ \A r \in PatchRecords : r.step \in {"load", "update", "refresh", "audit"}
    /\ \A r \in CycleRecords : r.step \in CycleSteps
<1>1. Vacant.step = "idle"
  BY DEF Vacant
<1>2. /\ \A r \in PatchRecords : r.step \in {"load", "update", "refresh", "audit"}
      /\ \A r \in CycleRecords : r.step \in CycleSteps
  BY DEF PatchRecords, CycleRecords
<1> QED
  BY <1>1, <1>2 DEF CycleSteps

\* What the strategy proposes is an idea.
LEMMA ProposalType ==
    ASSUME NEW balance \in WeekBalances, NEW delta \in DemandDeltas
    PROVE  Proposal(balance, delta) \in Ideas
<1>1. balance \in Int /\ delta \in Int
  BY FiguresAssumption
<1>2. StorageSignal(balance) \in Int /\ WeatherSignal(delta) \in Int
  BY <1>1 DEF StorageSignal, WeatherSignal
<1>3. Size(delta) \in Int
  BY <1>1 DEF Size
<1>4. \A a, b \in Int : Least(a, b) \in Int
  BY DEF Least
<1>5. \A n \in Int : n \div 10 \in Int
  OBVIOUS
<1>6. WeatherConfidence(delta) \in Int
  <2>1. PICK tenths \in Int : tenths = (Size(delta) + 5) \div 10
    BY <1>3, <1>5
  <2>2. PICK most \in Int : most = Least(50, tenths)
    BY <1>4
  <2> QED
    BY <2>1, <2>2 DEF WeatherConfidence
<1>7. PICK combined \in Int : combined = StorageSignal(balance) + WeatherSignal(delta)
  BY <1>2
<1>8. /\ Least(750, 500 + 80 * combined) \in Int
      /\ Least(800, 450 + 100 * combined + WeatherConfidence(delta) \div 10) \in Int
  <2>1. PICK confidence \in Int : confidence = WeatherConfidence(delta) \div 10
    BY <1>5, <1>6
  <2>2. PICK m, n \in Int : /\ m = 500 + 80 * combined
                            /\ n = 450 + 100 * combined + confidence
    OBVIOUS
  <2>3. Least(750, m) \in Int /\ Least(800, n) \in Int
    BY <1>4
  <2> QED
    BY <2>1, <2>2, <2>3
<1>9. NoIdea \in Ideas
  BY DEF NoIdea, Ideas
<1> QED
  BY <1>7, <1>8, <1>9 DEF Proposal, Ideas

\* Cycle c goes on to record k, and nothing else of the cycles changes.
CycleGoes(c, k) ==
    /\ k \in {Vacant} \cup CycleRecords
    /\ cycle' = [cycle EXCEPT ![c] = k]

\* Each step of a cycle takes it from one record to another.
LEMMA CycleMoves ==
    ASSUME AgentTypes, NEW c \in Cycles
    PROVE  /\ BeginCycle(c) => CycleGoes(c, Fresh(FALSE))
           /\ SeedAndBoot(c) => CycleGoes(c, [Fresh(TRUE) EXCEPT !.ran = {News}])
           /\ ReadControls(c) => CycleGoes(c, [cycle[c] EXCEPT !.step = "research", !.off = Disabled])
           /\ Submit(c) => CycleGoes(c, [cycle[c] EXCEPT !.step = "deliberate", !.off = Disabled])
           /\ CycleFails(c) => CycleGoes(c, Vacant)
           /\ Forget(c) => CycleGoes(c, Vacant)
<1>1. Disabled \subseteq Administrable
  BY DEF Disabled, AgentTypes
<1>2. NoIdea \in Ideas
  BY DEF NoIdea, Ideas
<1>3. Fresh(FALSE) \in CycleRecords
  BY <1>2 DEF Fresh, CycleRecords, CycleSteps, Actions, Outcomes
<1>4. [Fresh(TRUE) EXCEPT !.ran = {News}] \in CycleRecords
  BY <1>2 DEF Fresh, CycleRecords, CycleSteps, Actions, Outcomes, Administrable
<1>5. cycle[c].step # "idle" => cycle[c] \in CycleRecords
  BY RecordsAreTold DEF AgentTypes
<1>6. ASSUME cycle[c] \in CycleRecords, NEW step \in CycleSteps
      PROVE  [cycle[c] EXCEPT !.step = step, !.off = Disabled] \in CycleRecords
  BY <1>1, <1>6 DEF CycleRecords
<1> QED
  BY <1>3, <1>4, <1>5, <1>6 DEF BeginCycle, SeedAndBoot, ReadControls, Submit, CycleFails, Forget,
     Goes, CycleGoes, At, CycleSteps

-----------------------------------------------------------------------------
(* What a cycle has done by each of its steps *)

\* What a trade idea rests on.
Reads == {"STORAGE", "WEATHER", Strategy}

(***************************************************************************)
(* A cycle in record k, while the trail shows s of the agents: it goes by  *)
(* a read of the table at least as strict as the trail, who ran was not    *)
(* shown off, and what it has reached names who was needed for it.         *)
(***************************************************************************)
CycleSoFar(k, s) ==
    /\ k.step \in {"research", "quant", "deliberate", "route"} =>
         s.off \subseteq k.off /\ s.on \cap k.off = {}
    /\ k.ran \cap (s.off \ Unasked) = {} /\ k.skipped \cap s.on = {}
    /\ k.step \in {"read", "research"} => k.failed = {}
    /\ k.step \in {"submit", "deliberate", "route"} => k.idea # NoIdea
    /\ k.idea # NoIdea => Reads \subseteq k.ran \ k.failed
    /\ k.step \notin {"route", "done"} => k.action = "NONE"
    /\ k.step # "done" => k.state = "NONE"
    /\ k.action # "NONE" => k.idea # NoIdea
    /\ k.action \notin {"NONE", "WAIT_FOR_MORE_DATA"} => Members \subseteq k.ran
    /\ Router \notin k.failed
    /\ k.state = "HUMAN_REVIEW" => k.idea # NoIdea /\ Router \in k.ran

\* The fewer agents the trail shows, the less it says.
LEMMA LessIsShown ==
    ASSUME NEW k, NEW s, NEW t, CycleSoFar(k, s), t.off \subseteq s.off, t.on \subseteq s.on
    PROVE  CycleSoFar(k, t)
  BY DEF CycleSoFar

\* Who answered is added to who had.
LEMMA AnswersAdd ==
    ASSUME NEW k \in CycleRecords, NEW team, {team.ran, team.failed, team.skipped}
                                               \subseteq SUBSET Administrable
    PROVE  /\ With(k, team) \in CycleRecords
           /\ With(k, team).ran = k.ran \cup team.ran
           /\ With(k, team).failed = k.failed \cup team.failed
           /\ With(k, team).skipped = k.skipped \cup team.skipped
           /\ With(k, team).off = k.off /\ With(k, team).step = k.step
           /\ With(k, team).boot = k.boot /\ With(k, team).idea = k.idea
           /\ With(k, team).action = k.action /\ With(k, team).state = k.state
<1>1. PICK ran, failed, skipped \in SUBSET Administrable :
        ran = team.ran /\ failed = team.failed /\ skipped = team.skipped
  OBVIOUS
<1>2. With(k, team) = [k EXCEPT !.ran = k.ran \cup ran, !.failed = k.failed \cup failed,
                                !.skipped = k.skipped \cup skipped]
  BY <1>1 DEF With
<1>3. /\ k.ran \cup ran \in SUBSET Administrable /\ k.failed \cup failed \in SUBSET Administrable
      /\ k.skipped \cup skipped \in SUBSET Administrable
  BY DEF CycleRecords
<1> QED
  BY <1>1, <1>2, <1>3 DEF CycleRecords

\* Those of a group that are not off are asked, the others passed over.
LEMMA WhoIsAsked ==
    ASSUME NEW group \in SUBSET Administrable, NEW off, NEW raising
    PROVE  LET team == Asked(group, off, raising) IN
           /\ {team.ran, team.failed, team.skipped} \subseteq SUBSET Administrable
           /\ team.ran = group \ off /\ team.skipped = group \cap off
           /\ team.failed \subseteq group
  BY DEF Asked

\* The groups are of the agents that have controls, and no agent is in two of them.
LEMMA GroupsAreApart ==
    /\ Fundamental \subseteq Administrable /\ Boot \subseteq Administrable
    /\ Quant \subseteq Administrable /\ Members \subseteq Administrable
    /\ {Strategy, Chief, Router, News} \subseteq Administrable
    /\ Strategy \notin Fundamental /\ {"STORAGE", "WEATHER"} \subseteq Fundamental
    /\ (Boot \cup Quant) \cap (Reads \cup {Router}) = {}
    /\ Members \cap (Reads \cup {Router}) = {} /\ Router \notin Fundamental \cup {Strategy}
    /\ Unasked = {Chief, News}
  BY DEF Administrable, Fundamental, Boot, Quant, Members, Strategy, Chief, Router, News, Reads, Unasked

\* The table is read, and the trail shows no more than it says.
LEMMA ReadingKeeps ==
    ASSUME NEW k \in CycleRecords, NEW s, NEW off \in SUBSET Administrable, CycleSoFar(k, s),
           s.off \subseteq off, s.on \cap off = {},
           NEW step, \/ k.step = "read" /\ step = "research"
                     \/ k.step = "submit" /\ step = "deliberate"
    PROVE  CycleSoFar([k EXCEPT !.step = step, !.off = off], s)
<1> DEFINE m == [k EXCEPT !.step = step, !.off = off]
<1>1. /\ m.step = step /\ m.off = off /\ m.ran = k.ran /\ m.failed = k.failed
      /\ m.skipped = k.skipped /\ m.idea = k.idea /\ m.action = k.action /\ m.state = k.state
  BY DEF CycleRecords
<1> HIDE DEF m
<1>2. CycleSoFar(m, s)
  BY <1>1 DEF CycleSoFar
<1> QED
  BY <1>2 DEF m

\* The fundamental agents and the strategy run.
LEMMA ResearchKeeps ==
    ASSUME AgentTypes, NEW c \in Cycles, Research(c), NEW s, CycleSoFar(cycle[c], s)
    PROVE  \E k \in CycleRecords : CycleGoes(c, k) /\ CycleSoFar(k, s)
<1> DEFINE off == cycle[c].off
<1>1. cycle[c] \in CycleRecords /\ cycle[c].step = "research"
  BY RecordsAreTold DEF AgentTypes, Research, At
<1>2. PICK raising \in Raising(Fundamental \cup {Strategy}), data \in BOOLEAN,
           balance \in WeekBalances, delta \in DemandDeltas :
         LET team == Asked(Fundamental, off, raising \ (IF data THEN {} ELSE {"SUPPLY", "DEMAND", "STORAGE"}))
             ready == data /\ {"STORAGE", "WEATHER"} \subseteq team.ran \ team.failed
             author == Asked(IF ready \/ Strategy \in off THEN {Strategy} ELSE {}, off, raising)
             idea == IF author.ran = {} \/ author.failed # {} THEN NoIdea ELSE Proposal(balance, delta)
         IN /\ agentFaults' = agentFaults + Cardinality(team.failed \cup author.failed)
            /\ Goes(c, [With(With(cycle[c], team), author) EXCEPT
                          !.ran = @ \cup {Chief}, !.idea = idea,
                          !.step = IF cycle[c].boot THEN "quant" ELSE Submission(idea)])
  BY Zenon DEF Research
<1> DEFINE fit == raising \ (IF data THEN {} ELSE {"SUPPLY", "DEMAND", "STORAGE"})
           team == Asked(Fundamental, off, fit)
           ready == data /\ {"STORAGE", "WEATHER"} \subseteq team.ran \ team.failed
           called == IF ready \/ Strategy \in off THEN {Strategy} ELSE {}
           author == Asked(called, off, raising)
<1>t. /\ {team.ran, team.failed, team.skipped} \subseteq SUBSET Administrable
      /\ team.ran = Fundamental \ off /\ team.skipped = Fundamental \cap off
      /\ team.failed \subseteq Fundamental
  <2> HIDE DEF fit
  <2> QED
    BY WhoIsAsked, GroupsAreApart
<1>a. /\ called \in SUBSET Administrable /\ called \subseteq {Strategy}
      /\ called \ off # {} => {"STORAGE", "WEATHER"} \subseteq team.ran \ team.failed
  <2> HIDE DEF team
  <2> QED
    BY GroupsAreApart
<1>b. /\ {author.ran, author.failed, author.skipped} \subseteq SUBSET Administrable
      /\ author.ran = called \ off /\ author.skipped = called \cap off
      /\ author.failed \subseteq called
  <2> HIDE DEF called
  <2> QED
    BY <1>a, WhoIsAsked
<1> HIDE DEF fit, team, ready, called, author
<1>3. PICK idea \in Ideas :
        /\ idea = IF author.ran = {} \/ author.failed # {} THEN NoIdea ELSE Proposal(balance, delta)
        /\ cycle' = [cycle EXCEPT ![c] =
                          [With(With(cycle[c], team), author) EXCEPT
                             !.ran = @ \cup {Chief}, !.idea = idea,
                             !.step = IF cycle[c].boot THEN "quant" ELSE Submission(idea)]]
  <2>1. NoIdea \in Ideas
    BY DEF NoIdea, Ideas
  <2> QED
    BY <1>2, <2>1, ProposalType DEF author, called, ready, team, fit, Goes
<1>5. PICK step \in {"quant", "submit", "done"} :
        step = (IF cycle[c].boot THEN "quant" ELSE Submission(idea))
  BY DEF Submission
<1>6. PICK k0 \in CycleRecords :
        /\ k0 = With(cycle[c], team)
        /\ k0.ran = cycle[c].ran \cup (Fundamental \ off) /\ k0.failed = team.failed
        /\ k0.skipped = cycle[c].skipped \cup (Fundamental \cap off)
        /\ k0.off = off /\ k0.action = cycle[c].action /\ k0.state = cycle[c].state
  <2>1. cycle[c].failed = {}
    BY <1>1 DEF CycleSoFar
  <2>2. PICK k \in CycleRecords : k = cycle[c]
    BY <1>1
  <2>3. /\ With(k, team) \in CycleRecords
        /\ With(k, team).ran = k.ran \cup team.ran
        /\ With(k, team).failed = k.failed \cup team.failed
        /\ With(k, team).skipped = k.skipped \cup team.skipped
        /\ With(k, team).off = k.off /\ With(k, team).action = k.action
        /\ With(k, team).state = k.state
    BY <1>t, AnswersAdd
  <2> QED
    BY <1>t, <2>1, <2>2, <2>3
<1>7. PICK k1 \in CycleRecords :
        /\ k1 = With(k0, author)
        /\ k1.ran = k0.ran \cup (called \ off) /\ k1.failed = k0.failed \cup author.failed
        /\ k1.skipped = k0.skipped \cup (called \cap off)
        /\ k1.off = off /\ k1.action = cycle[c].action /\ k1.state = cycle[c].state
  BY <1>b, <1>6, AnswersAdd
<1> DEFINE k == [k1 EXCEPT !.ran = @ \cup {Chief}, !.idea = idea, !.step = step]
<1>8. /\ k \in CycleRecords
      /\ k.ran = k1.ran \cup {Chief} /\ k.failed = k1.failed /\ k.skipped = k1.skipped
      /\ k.idea = idea /\ k.step = step /\ k.off = off /\ k.action = cycle[c].action
      /\ k.state = cycle[c].state
  BY <1>7, GroupsAreApart DEF CycleRecords, CycleSteps
<1>9. CycleGoes(c, k)
  BY <1>3, <1>5, <1>6, <1>7, <1>8 DEF CycleGoes
<1> HIDE DEF k
<1>10. /\ s.off \subseteq off /\ s.on \cap off = {}
       /\ cycle[c].action = "NONE" /\ cycle[c].state = "NONE"
       /\ cycle[c].ran \cap (s.off \ Unasked) = {} /\ cycle[c].skipped \cap s.on = {}
  BY <1>1 DEF CycleSoFar
<1>11. k.ran \cap (s.off \ Unasked) = {} /\ k.skipped \cap s.on = {}
  BY <1>6, <1>7, <1>8, <1>10, <1>a, GroupsAreApart
<1>12. idea # NoIdea => Reads \subseteq k.ran \ k.failed
  BY <1>3, <1>a, <1>b, <1>t, <1>6, <1>7, <1>8, GroupsAreApart DEF Reads
<1>13. step = "submit" => idea # NoIdea
  BY <1>5 DEF Submission
<1>14. Router \notin k.failed
  BY <1>a, <1>b, <1>t, <1>6, <1>7, <1>8, GroupsAreApart
<1>15. CycleSoFar(k, s)
  BY <1>1, <1>8, <1>10, <1>11, <1>12, <1>13, <1>14 DEF CycleSoFar
<1> QED
  BY <1>8, <1>9, <1>15

\* The rest of a boot's cycle.
LEMMA QuantResearchKeeps ==
    ASSUME AgentTypes, NEW c \in Cycles, QuantResearch(c), NEW s, CycleSoFar(cycle[c], s)
    PROVE  \E k \in CycleRecords : CycleGoes(c, k) /\ CycleSoFar(k, s)
<1>1. PICK k0 \in CycleRecords : k0 = cycle[c] /\ k0.step = "quant"
  BY RecordsAreTold DEF AgentTypes, QuantResearch, At
<1>2. PICK absent \in SUBSET {"PIPELINE", "RELATIVE_VALUE"}, history \in BOOLEAN :
         LET group == (Boot \cup (IF history THEN Quant ELSE {})) \ absent
         IN \E raising \in Raising(group \ cycle[c].off) :
              LET team == Asked(group, cycle[c].off, raising)
              IN /\ agentFaults' = agentFaults + Cardinality(team.failed)
                 /\ Goes(c, [With(cycle[c], team) EXCEPT !.step = Submission(cycle[c].idea)])
  BY Zenon DEF QuantResearch
<1>3. PICK group, raising :
         /\ group \in SUBSET (Boot \cup Quant)
         /\ LET team == Asked(group, cycle[c].off, raising)
            IN Goes(c, [With(cycle[c], team) EXCEPT !.step = Submission(cycle[c].idea)])
  <2> DEFINE group == (Boot \cup (IF history THEN Quant ELSE {})) \ absent
  <2>1. PICK raising \in Raising(group \ cycle[c].off) :
           LET team == Asked(group, cycle[c].off, raising)
           IN /\ agentFaults' = agentFaults + Cardinality(team.failed)
              /\ Goes(c, [With(cycle[c], team) EXCEPT !.step = Submission(cycle[c].idea)])
    BY <1>2, Zenon
  <2>2. group \in SUBSET (Boot \cup Quant)
    OBVIOUS
  <2> HIDE DEF group
  <2> QED
    BY <2>1, <2>2
<1>4. PICK team : /\ team = Asked(group, k0.off, raising)
                  /\ cycle' = [cycle EXCEPT ![c] = [With(k0, team) EXCEPT !.step = Submission(k0.idea)]]
  BY <1>1, <1>3 DEF Goes
<1>5. /\ {team.ran, team.failed, team.skipped} \subseteq SUBSET Administrable
      /\ team.ran = group \ k0.off /\ team.skipped = group \cap k0.off
      /\ team.failed \subseteq Boot \cup Quant
  <2>1. group \in SUBSET Administrable
    BY <1>3, GroupsAreApart
  <2>2. PICK off : off = k0.off
    OBVIOUS
  <2>3. LET asked == Asked(group, off, raising) IN
        /\ {asked.ran, asked.failed, asked.skipped} \subseteq SUBSET Administrable
        /\ asked.ran = group \ off /\ asked.skipped = group \cap off
        /\ asked.failed \subseteq group
    BY <2>1, WhoIsAsked
  <2>4. team = Asked(group, off, raising)
    BY <1>4, <2>2
  <2> QED
    BY <1>3, <2>2, <2>3, <2>4
<1>6. PICK k1 \in CycleRecords :
        /\ k1 = With(k0, team)
        /\ k1.ran = k0.ran \cup team.ran /\ k1.failed = k0.failed \cup team.failed
        /\ k1.skipped = k0.skipped \cup team.skipped
        /\ k1.off = k0.off /\ k1.action = k0.action /\ k1.state = k0.state /\ k1.idea = k0.idea
  BY <1>5, AnswersAdd
<1> DEFINE k == [k1 EXCEPT !.step = Submission(k0.idea)]
<1>7. /\ k \in CycleRecords
      /\ k.ran = k1.ran /\ k.failed = k1.failed /\ k.skipped = k1.skipped /\ k.idea = k1.idea
      /\ k.step = Submission(k0.idea) /\ k.off = k1.off /\ k.action = k1.action
      /\ k.state = k1.state
  BY DEF CycleRecords, CycleSteps, Submission
<1>8. CycleGoes(c, k)
  BY <1>4, <1>6, <1>7 DEF CycleGoes
<1> HIDE DEF k
<1>9. CycleSoFar(k, s)
  <2>1. CycleSoFar(k0, s)
    BY <1>1
  <2>2. s.off \subseteq k0.off /\ s.on \cap k0.off = {}
    BY <1>1, <2>1 DEF CycleSoFar
  <2>3. k.ran \cap (s.off \ Unasked) = {} /\ k.skipped \cap s.on = {}
    BY <1>5, <1>6, <1>7, <2>1, <2>2 DEF CycleSoFar
  <2>4. k.idea # NoIdea => Reads \subseteq k.ran \ k.failed
    BY <1>5, <1>6, <1>7, <2>1, GroupsAreApart DEF CycleSoFar
  <2>5. Router \notin k.failed
    BY <1>5, <1>6, <1>7, <2>1, GroupsAreApart DEF CycleSoFar
  <2>6. k.action = "NONE" /\ k.state = "NONE"
    BY <1>1, <1>6, <1>7, <2>1 DEF CycleSoFar
  <2>7. k.step \in {"submit", "done"} /\ (k.step = "submit" => k.idea # NoIdea)
    BY <1>6, <1>7 DEF Submission
  <2> QED
    BY <2>3, <2>4, <2>5, <2>6, <2>7 DEF CycleSoFar
<1> QED
  BY <1>7, <1>8, <1>9

\* The committee deliberates.
LEMMA DeliberateKeeps ==
    ASSUME AgentTypes, NEW c \in Cycles, Deliberate(c), NEW s, CycleSoFar(cycle[c], s)
    PROVE  \E k \in CycleRecords : CycleGoes(c, k) /\ CycleSoFar(k, s)
<1>1. PICK k0 \in CycleRecords : k0 = cycle[c] /\ k0.step = "deliberate"
  BY RecordsAreTold DEF AgentTypes, Deliberate, At
<1>2. PICK raising \in Raising(Members \ cycle[c].off) :
         LET team == Asked(Members, cycle[c].off, raising)
             action == Recommendation(team.skipped = {}, FALSE, Unresolved(cycle[c].idea),
                                      ConsensusScore(cycle[c].idea, 1000))
         IN /\ agentFaults' = agentFaults + Cardinality(team.failed)
            /\ Goes(c, [With(cycle[c], team) EXCEPT !.step = "route", !.action = action])
  BY Zenon DEF Deliberate
<1>3. PICK team, action :
        /\ action \in Actions \ {"NONE"}
        /\ team = Asked(Members, k0.off, raising)
        /\ team.skipped # {} => action = "WAIT_FOR_MORE_DATA"
        /\ cycle' = [cycle EXCEPT ![c] = [With(k0, team) EXCEPT !.step = "route", !.action = action]]
  <2> DEFINE score == ConsensusScore(cycle[c].idea, 1000)
             unresolved == Unresolved(cycle[c].idea)
             team == Asked(Members, cycle[c].off, raising)
             action == Recommendation(team.skipped = {}, FALSE, unresolved, score)
  <2>1. cycle' = [cycle EXCEPT ![c] = [With(cycle[c], team) EXCEPT !.step = "route", !.action = action]]
    BY <1>2 DEF Goes
  <2> HIDE DEF score, unresolved, team
  <2>2. action \in Actions \ {"NONE"} /\ (team.skipped # {} => action = "WAIT_FOR_MORE_DATA")
    BY DEF Recommendation, Actions
  <2> HIDE DEF action
  <2>3. cycle' = [cycle EXCEPT ![c] = [With(k0, team) EXCEPT !.step = "route", !.action = action]]
    BY <1>1, <2>1
  <2>4. team = Asked(Members, k0.off, raising)
    BY <1>1 DEF team
  <2>5. \E a \in Actions \ {"NONE"} :
          /\ team.skipped # {} => a = "WAIT_FOR_MORE_DATA"
          /\ cycle' = [cycle EXCEPT ![c] = [With(k0, team) EXCEPT !.step = "route", !.action = a]]
    BY <2>2, <2>3, Zenon
  <2> QED
    BY <2>4, <2>5, Zenon
<1>5. /\ {team.ran, team.failed, team.skipped} \subseteq SUBSET Administrable
      /\ team.ran = Members \ k0.off /\ team.skipped = Members \cap k0.off
      /\ team.failed \subseteq Members
  <2>1. Members \in SUBSET Administrable
    BY GroupsAreApart
  <2>2. PICK off : off = k0.off
    OBVIOUS
  <2>3. LET asked == Asked(Members, off, raising) IN
        /\ {asked.ran, asked.failed, asked.skipped} \subseteq SUBSET Administrable
        /\ asked.ran = Members \ off /\ asked.skipped = Members \cap off
        /\ asked.failed \subseteq Members
    BY <2>1, WhoIsAsked
  <2>4. team = Asked(Members, off, raising)
    BY <1>3, <2>2
  <2> QED
    BY <2>2, <2>3, <2>4
<1>6. PICK k1 \in CycleRecords :
        /\ k1 = With(k0, team)
        /\ k1.ran = k0.ran \cup team.ran /\ k1.failed = k0.failed \cup team.failed
        /\ k1.skipped = k0.skipped \cup team.skipped
        /\ k1.off = k0.off /\ k1.state = k0.state /\ k1.idea = k0.idea
  BY <1>5, AnswersAdd
<1> DEFINE k == [k1 EXCEPT !.step = "route", !.action = action]
<1>7. /\ k \in CycleRecords
      /\ k.ran = k1.ran /\ k.failed = k1.failed /\ k.skipped = k1.skipped /\ k.idea = k1.idea
      /\ k.step = "route" /\ k.off = k1.off /\ k.action = action /\ k.state = k1.state
  BY <1>3 DEF CycleRecords, CycleSteps
<1>8. CycleGoes(c, k)
  BY <1>3, <1>6, <1>7 DEF CycleGoes
<1> HIDE DEF k
<1>9. CycleSoFar(k, s)
  <2>1. CycleSoFar(k0, s)
    BY <1>1
  <2>2. s.off \subseteq k0.off /\ s.on \cap k0.off = {} /\ k.off = k0.off
    BY <1>1, <1>6, <1>7, <2>1 DEF CycleSoFar
  <2>3. k.ran \cap (s.off \ Unasked) = {} /\ k.skipped \cap s.on = {}
    BY <1>5, <1>6, <1>7, <2>1, <2>2 DEF CycleSoFar
  <2>4. k.idea # NoIdea /\ Reads \subseteq k.ran \ k.failed
    BY <1>1, <1>5, <1>6, <1>7, <2>1, GroupsAreApart DEF CycleSoFar
  <2>5. Router \notin k.failed
    BY <1>5, <1>6, <1>7, <2>1, GroupsAreApart DEF CycleSoFar
  <2>6. k.state = "NONE"
    BY <1>1, <1>6, <1>7, <2>1 DEF CycleSoFar
  <2>7. k.action \notin {"NONE", "WAIT_FOR_MORE_DATA"} => Members \subseteq k.ran
    BY <1>3, <1>5, <1>6, <1>7
  <2> QED
    BY <1>7, <2>2, <2>3, <2>4, <2>5, <2>6, <2>7 DEF CycleSoFar
<1> QED
  BY <1>7, <1>8, <1>9

\* The idea is routed.
LEMMA RouteKeeps ==
    ASSUME AgentTypes, NEW c \in Cycles, Route(c), NEW s, CycleSoFar(cycle[c], s)
    PROVE  \E k \in CycleRecords : CycleGoes(c, k) /\ CycleSoFar(k, s)
<1>1. PICK k0 \in CycleRecords : k0 = cycle[c] /\ k0.step = "route"
  BY RecordsAreTold DEF AgentTypes, Route, At
<1>2. PICK verdict \in {"ALLOW", "BLOCK"} :
         LET team == Asked({Router}, cycle[c].off, {})
             forward == team.ran # {} /\ Forwards(verdict, cycle[c].action)
         IN Goes(c, [With(cycle[c], team) EXCEPT
                       !.step = "done",
                       !.state = IF verdict # "ALLOW" THEN "RISK_REVIEW"
                                 ELSE IF forward THEN "HUMAN_REVIEW" ELSE "REJECTED"])
  BY Zenon DEF Route
<1>3. PICK team, state :
        /\ team = Asked({Router}, k0.off, {})
        /\ state \in Outcomes /\ (state = "HUMAN_REVIEW" => team.ran # {})
        /\ cycle' = [cycle EXCEPT ![c] = [With(k0, team) EXCEPT !.step = "done", !.state = state]]
  BY <1>1, <1>2 DEF Goes, Outcomes
<1>5. /\ {team.ran, team.failed, team.skipped} \subseteq SUBSET Administrable
      /\ team.ran = {Router} \ k0.off /\ team.skipped = {Router} \cap k0.off
      /\ team.failed = {}
  <2>1. {Router} \in SUBSET Administrable
    BY GroupsAreApart
  <2>2. PICK off : off = k0.off
    OBVIOUS
  <2>3. LET asked == Asked({Router}, off, {}) IN
        /\ {asked.ran, asked.failed, asked.skipped} \subseteq SUBSET Administrable
        /\ asked.ran = {Router} \ off /\ asked.skipped = {Router} \cap off
    BY <2>1, WhoIsAsked
  <2>4. team = Asked({Router}, off, {})
    BY <1>3, <2>2
  <2>5. team.failed = {}
    BY <2>4 DEF Asked
  <2> QED
    BY <2>2, <2>3, <2>4, <2>5
<1>6. PICK k1 \in CycleRecords :
        /\ k1 = With(k0, team)
        /\ k1.ran = k0.ran \cup team.ran /\ k1.failed = k0.failed \cup team.failed
        /\ k1.skipped = k0.skipped \cup team.skipped
        /\ k1.off = k0.off /\ k1.action = k0.action /\ k1.idea = k0.idea
  BY <1>5, AnswersAdd
<1> DEFINE k == [k1 EXCEPT !.step = "done", !.state = state]
<1>7. /\ k \in CycleRecords
      /\ k.ran = k1.ran /\ k.failed = k1.failed /\ k.skipped = k1.skipped /\ k.idea = k1.idea
      /\ k.step = "done" /\ k.off = k1.off /\ k.action = k1.action /\ k.state = state
  BY <1>3 DEF CycleRecords, CycleSteps
<1>8. CycleGoes(c, k)
  BY <1>3, <1>6, <1>7 DEF CycleGoes
<1> HIDE DEF k
<1>9. CycleSoFar(k, s)
  <2>1. CycleSoFar(k0, s)
    BY <1>1
  <2>2. s.off \subseteq k0.off /\ s.on \cap k0.off = {}
    BY <1>1, <2>1 DEF CycleSoFar
  <2>3. k.ran \cap (s.off \ Unasked) = {} /\ k.skipped \cap s.on = {}
    BY <1>5, <1>6, <1>7, <2>1, <2>2 DEF CycleSoFar
  <2>4. k.idea # NoIdea /\ Reads \subseteq k.ran \ k.failed
    BY <1>1, <1>5, <1>6, <1>7, <2>1 DEF CycleSoFar
  <2>5. Router \notin k.failed
    BY <1>5, <1>6, <1>7, <2>1 DEF CycleSoFar
  <2>6. k.state = "HUMAN_REVIEW" => Router \in k.ran
    BY <1>3, <1>5, <1>6, <1>7
  <2>7. k.action \notin {"NONE", "WAIT_FOR_MORE_DATA"} => Members \subseteq k.ran
    BY <1>6, <1>7, <2>1 DEF CycleSoFar
  <2> QED
    BY <1>7, <2>3, <2>4, <2>5, <2>6, <2>7 DEF CycleSoFar
<1> QED
  BY <1>7, <1>8, <1>9

-----------------------------------------------------------------------------
(* The table, its changes in progress and the audit trail *)

(***************************************************************************)
(* Of an agent whose changes neither overlapped nor went without their     *)
(* event: one request at most is in progress; the trail shows the row, or  *)
(* the status that the request found, or the request is about to write the *)
(* row's.                                                                  *)
(***************************************************************************)
TrailFollows(a) ==
    /\ \A p, q \in InProgress(a) : p = q
    /\ a \notin DOMAIN configs => audited[a] = "ACTIVE"
    /\ a \in DOMAIN configs /\ InProgress(a) = {} => audited[a] = configs[a]
    /\ \A p \in InProgress(a) :
         /\ patch[p].step \in {"load", "update"} /\ a \in DOMAIN configs => audited[a] = configs[a]
         /\ patch[p].step \in {"load", "update"} /\ patch[p].before # NoRow =>
              a \in DOMAIN configs /\ configs[a] = patch[p].before
         /\ patch[p].step = "refresh" /\ patch[p].before # NoRow => audited[a] = patch[p].before
         /\ patch[p].step = "audit" => patch[p].status = configs[a]

TrailIsSound == \A a \in Administrable \ troubled : TrailFollows(a)

\* Request p goes on to record r, and no other request moves.
PatchGoes(p, r) ==
    /\ r \in {Vacant} \cup PatchRecords
    /\ patch' = [patch EXCEPT ![p] = r]

\* A request that moves leaves the other requests of every agent as they are.
LEMMA OthersStay ==
    ASSUME AgentTypes, NEW p \in Patches, NEW r, PatchGoes(p, r)
    PROVE  /\ \A a : InProgress(a)' = (InProgress(a) \ {p}) \cup
                           (IF r # Vacant /\ r.agent = a THEN {p} ELSE {})
           /\ \A q \in Patches : q # p => patch'[q] = patch[q]
           /\ patch'[p] = r
  BY DEF PatchGoes, InProgress, AgentTypes

\* A begun request is on the agent's row; where it is not the only one, that is noted.
LEMMA BeginPatchKeeps ==
    ASSUME AgentTypes, TrailIsSound, NEW p \in Patches, NEW a \in Administrable, NEW to \in Settable,
           BeginPatch(p, a, to)
    PROVE  AgentTypes' /\ TrailIsSound'
<1> DEFINE found == IF a \in DOMAIN configs THEN configs[a] ELSE NoRow
           r == [step |-> "load", agent |-> a, before |-> found, loaded |-> NoRow, status |-> to]
<1>1. /\ r \in PatchRecords
      /\ configs' = configs /\ audited' = audited /\ cycle' = cycle
      /\ troubled' = (IF InProgress(a) # {} THEN troubled \cup {a} ELSE troubled)
  BY DEF BeginPatch, AgentTypes, PatchRecords
<1>2. PatchGoes(p, r) /\ r # Vacant /\ patch[p] = Vacant
  BY <1>1, RecordsAreTold DEF BeginPatch, PatchGoes
<1>3. /\ r.agent = a /\ r.step = "load"
      /\ a \in DOMAIN configs => r.before = configs[a]
      /\ a \notin DOMAIN configs => r.before = NoRow
  OBVIOUS
<1> HIDE DEF r
<1>4. /\ \A b : InProgress(b)' = (InProgress(b) \ {p}) \cup (IF a = b THEN {p} ELSE {})
      /\ \A q \in Patches : q # p => patch'[q] = patch[q]
      /\ patch'[p] = r
  BY <1>2, <1>3, OthersStay
<1>5. AgentTypes'
  BY <1>1, <1>2, <1>3, <1>4 DEF AgentTypes, PatchGoes
<1>6. ASSUME NEW b \in Administrable, b \notin troubled'
      PROVE  TrailFollows(b)'
  <2>1. TrailFollows(b) /\ p \notin InProgress(b) /\ InProgress(b) \subseteq Patches
    BY <1>1, <1>2, <1>6 DEF TrailIsSound, InProgress
  <2>2. CASE b # a
    <3>1. InProgress(b)' = InProgress(b)
      BY <1>4, <2>1, <2>2
    <3> QED
      BY <1>1, <1>4, <2>1, <3>1 DEF TrailFollows
  <2>3. CASE b = a
    <3>1. InProgress(b) = {} /\ InProgress(b)' = {p}
      BY <1>1, <1>4, <1>6, <2>3
    <3> QED
      BY <1>1, <1>3, <1>4, <2>1, <2>3, <3>1 DEF TrailFollows
  <2> QED
    BY <2>2, <2>3
<1> QED
  BY <1>5, <1>6 DEF TrailIsSound

\* Each later step of a request: the row loaded, its commit, the row read again, its audit
\* event.
LEMMA PatchGoesOnKeeps ==
    ASSUME AgentTypes, TrailIsSound, NEW p \in Patches,
           LoadPatch(p) \/ CommitPatch(p) \/ RefreshPatch(p) \/ AuditPatch(p) \/ PatchFails(p)
    PROVE  AgentTypes' /\ TrailIsSound'
<1>1. PICK a, k :
        /\ k = patch[p] /\ a = k.agent /\ k \in PatchRecords
        /\ a \in Administrable
        /\ k.step # "load" => a \in DOMAIN configs
        /\ a \in DOMAIN configs => configs[a] \in Settable
  <2>1. patch[p].step # "idle" => patch[p] \in PatchRecords
    BY RecordsAreTold DEF AgentTypes
  <2>2. patch[p] \in PatchRecords
    BY <2>1, RecordsAreTold DEF LoadPatch, CommitPatch, RefreshPatch, AuditPatch, PatchFails, AgentTypes
  <2> QED
    BY <2>2, RecordsAreTold DEF AgentTypes, PatchRecords
<1>2. /\ k.before \in Settable \cup {NoRow} /\ k.status \in Settable
      /\ p \in InProgress(a) /\ \A b : p \in InProgress(b) => b = a
  BY <1>1, RecordsAreTold DEF InProgress, PatchRecords
<1>3. ASSUME NEW r, PatchGoes(p, r), r # Vacant => r.agent = a,
             troubled \subseteq troubled', cycle' = cycle,
             DOMAIN configs' = DOMAIN configs, configs' \in [DOMAIN configs' -> Settable],
             audited' \in [Administrable -> Settable],
             \A b \in Administrable : b # a => configs'[b] = configs[b] /\ audited'[b] = audited[b],
             r # Vacant => a \in DOMAIN configs /\ r.step # "load",
             a \notin troubled' /\ a \notin DOMAIN configs => audited' = audited,
             a \notin troubled' /\ a \in DOMAIN configs =>
               IF r = Vacant THEN audited'[a] = configs'[a]
               ELSE /\ r.step = "update" => audited'[a] = configs'[a]
                    /\ r.step = "update" /\ r.before # NoRow => configs'[a] = r.before
                    /\ r.step = "refresh" /\ r.before # NoRow => audited'[a] = r.before
                    /\ r.step = "audit" => r.status = configs'[a]
      PROVE  AgentTypes' /\ TrailIsSound'
  <2>1. /\ \A b : InProgress(b)' = (InProgress(b) \ {p}) \cup
                           (IF r # Vacant /\ r.agent = b THEN {p} ELSE {})
        /\ \A q \in Patches : q # p => patch'[q] = patch[q]
        /\ patch'[p] = r
    BY <1>3, OthersStay
  <2>2. AgentTypes'
    BY <1>1, <1>3, <2>1 DEF AgentTypes, PatchGoes
  <2>3. ASSUME NEW b \in Administrable, b \notin troubled'
        PROVE  TrailFollows(b)'
    <3>1. TrailFollows(b) /\ InProgress(b) \subseteq Patches
      BY <1>3, <2>3 DEF TrailIsSound, InProgress
    <3>2. CASE b # a
      <4>1. InProgress(b)' = InProgress(b) /\ p \notin InProgress(b)
        BY <1>2, <1>3, <2>1, <3>2
      <4>2. configs'[b] = configs[b] /\ audited'[b] = audited[b]
        BY <1>3, <3>2
      <4> QED
        BY <1>3, <2>1, <3>1, <4>1, <4>2 DEF TrailFollows
    <3>3. CASE b = a
      <4>1. InProgress(b) = {p}
        BY <1>2, <3>1, <3>3 DEF TrailFollows
      <4>2. InProgress(b)' = IF r = Vacant THEN {} ELSE {p}
        BY <1>3, <2>1, <3>3, <4>1
      <4>3. CASE r = Vacant
        BY <1>3, <2>1, <2>3, <3>1, <3>3, <4>2, <4>3 DEF TrailFollows
      <4>4. CASE r # Vacant
        BY <1>3, <2>1, <2>3, <3>3, <4>2, <4>4 DEF TrailFollows
      <4> QED
        BY <4>3, <4>4
    <3> QED
      BY <3>2, <3>3
  <2> QED
    BY <2>2, <2>3 DEF TrailIsSound
<1>4. a \notin troubled =>
        /\ k.step \in {"load", "update"} /\ a \in DOMAIN configs => audited[a] = configs[a]
        /\ k.step \in {"load", "update"} /\ k.before # NoRow =>
             a \in DOMAIN configs /\ configs[a] = k.before
        /\ k.step = "refresh" /\ k.before # NoRow => audited[a] = k.before
        /\ k.step = "audit" => k.status = configs[a]
  BY <1>1, <1>2 DEF TrailIsSound, TrailFollows
<1>5. CASE CommitPatch(p)
  <2> DEFINE r == [k EXCEPT !.step = "refresh"]
  <2>1. /\ r \in PatchRecords /\ r.agent = a /\ r.step = "refresh" /\ r.before = k.before
    BY <1>1 DEF PatchRecords
  <2>2. /\ k.step = "update" /\ patch' = [patch EXCEPT ![p] = r]
        /\ configs' = IF k.status = k.loaded THEN configs ELSE [configs EXCEPT ![a] = k.status]
        /\ audited' = audited /\ cycle' = cycle /\ troubled' = troubled
    BY <1>1, <1>5 DEF CommitPatch
  <2> HIDE DEF r
  <2>3. /\ DOMAIN configs' = DOMAIN configs /\ configs' \in [DOMAIN configs' -> Settable]
        /\ \A b \in Administrable : b # a => configs'[b] = configs[b]
        /\ audited' \in [Administrable -> Settable]
    BY <1>1, <1>2, <2>2 DEF AgentTypes
  <2>4. PatchGoes(p, r) /\ r # Vacant
    BY <2>1, <2>2, RecordsAreTold DEF PatchGoes
  <2>5. a \in DOMAIN configs /\ configs'[a] \in Settable
    BY <1>1, <2>2, <2>3
  <2> QED
    BY <1>3, <1>4, <2>1, <2>2, <2>3, <2>4, <2>5
<1>6. CASE RefreshPatch(p)
  <2>0. k.step = "refresh" /\ a \in DOMAIN configs
    BY <1>1, <1>6 DEF RefreshPatch
  <2>1. PICK now : now = configs[a]
    OBVIOUS
  <2> DEFINE r == IF k.before \in {NoRow, now} THEN Vacant ELSE [k EXCEPT !.step = "audit", !.status = now]
  <2>2. /\ now \in Settable
        /\ k.before \notin {NoRow, now} =>
             r \in PatchRecords /\ r.agent = a /\ r.step = "audit" /\ r.status = now
        /\ k.before \in {NoRow, now} => r = Vacant
    BY <1>1, <2>0, <2>1 DEF PatchRecords
  <2>3. /\ k.step = "refresh" /\ patch' = [patch EXCEPT ![p] = r]
        /\ configs' = configs
        /\ audited' = audited /\ cycle' = cycle
        /\ troubled' = (IF k.before = NoRow THEN troubled \cup {a} ELSE troubled)
    BY <1>1, <1>6, <2>1 DEF RefreshPatch
  <2> HIDE DEF r
  <2>4. PatchGoes(p, r)
    BY <2>2, <2>3 DEF PatchGoes
  <2>5. /\ configs' \in [DOMAIN configs' -> Settable] /\ audited' \in [Administrable -> Settable]
    BY <2>3 DEF AgentTypes
  <2>6. k.before \notin {NoRow, now} => r # Vacant
    BY <2>2, RecordsAreTold
  <2> QED
    BY <1>3, <1>4, <2>0, <2>1, <2>2, <2>3, <2>4, <2>5, <2>6
<1>7. CASE AuditPatch(p)
  <2>1. /\ k.step = "audit" /\ patch' = [patch EXCEPT ![p] = Vacant]
        /\ configs' = configs /\ audited' = [audited EXCEPT ![a] = k.status]
        /\ cycle' = cycle /\ troubled' = troubled
    BY <1>1, <1>7 DEF AuditPatch
  <2>2. PatchGoes(p, Vacant)
    BY <2>1 DEF PatchGoes
  <2>3. /\ configs' \in [DOMAIN configs' -> Settable] /\ audited' \in [Administrable -> Settable]
        /\ audited'[a] = k.status
        /\ \A b \in Administrable : b # a => audited'[b] = audited[b]
    BY <1>1, <1>2, <2>1 DEF AgentTypes
  <2>4. a \in DOMAIN configs
    BY <1>1, <2>1
  <2> QED
    BY <1>3, <1>4, <2>1, <2>2, <2>3, <2>4
<1>8. CASE PatchFails(p)
  <2>1. /\ patch' = [patch EXCEPT ![p] = Vacant]
        /\ configs' = configs /\ audited' = audited /\ cycle' = cycle
        /\ troubled' = (IF k.step \in {"load", "update"} THEN troubled ELSE troubled \cup {a})
    BY <1>1, <1>8 DEF PatchFails
  <2>2. PatchGoes(p, Vacant)
    BY <2>1 DEF PatchGoes
  <2>3. /\ configs' \in [DOMAIN configs' -> Settable] /\ audited' \in [Administrable -> Settable]
    BY <2>1 DEF AgentTypes
  <2> QED
    BY <1>3, <1>4, <2>1, <2>2, <2>3
<1>9. CASE LoadPatch(p)
  <2> DEFINE r == [k EXCEPT !.step = "update", !.loaded = configs[a]]
  <2>1. /\ k.step = "load" /\ configs' = configs /\ audited' = audited /\ cycle' = cycle
        /\ troubled' = troubled
        /\ patch' = [patch EXCEPT ![p] = IF a \notin DOMAIN configs THEN Vacant ELSE r]
    BY <1>1, <1>9 DEF LoadPatch
  <2>2. /\ configs' \in [DOMAIN configs' -> Settable] /\ audited' \in [Administrable -> Settable]
    BY <2>1 DEF AgentTypes
  <2>3. CASE a \notin DOMAIN configs
    <3>1. PatchGoes(p, Vacant)
      BY <2>1, <2>3 DEF PatchGoes
    <3> QED
      BY <1>3, <1>4, <2>1, <2>2, <2>3, <3>1
  <2>4. CASE a \in DOMAIN configs
    <3>1. /\ r \in PatchRecords /\ r.agent = a /\ r.step = "update" /\ r.before = k.before
      BY <1>1, <2>4 DEF PatchRecords
    <3> HIDE DEF r
    <3>2. PatchGoes(p, r) /\ r # Vacant
      BY <2>1, <2>4, <3>1, RecordsAreTold DEF PatchGoes
    <3> QED
      BY <1>3, <1>4, <2>1, <2>2, <2>4, <3>1, <3>2
  <2> QED
    BY <2>3, <2>4
<1> QED
  BY <1>5, <1>6, <1>7, <1>8, <1>9

\* A boot gives rows to agents that have none; no step of a cycle touches the trail.
LEMMA CyclesKeepTheTrail ==
    ASSUME AgentTypes, TrailIsSound, UNCHANGED <<audited, patch, troubled>>,
           \/ configs' = configs
           \/ configs' = [a \in Administrable |-> IF a \in DOMAIN configs THEN configs[a] ELSE "ACTIVE"],
           cycle' \in [Cycles -> {Vacant} \cup CycleRecords]
    PROVE  AgentTypes' /\ TrailIsSound'
<1>1. /\ DOMAIN configs \subseteq DOMAIN configs' /\ DOMAIN configs' \subseteq Administrable
      /\ configs' \in [DOMAIN configs' -> Settable]
      /\ \A a \in DOMAIN configs : configs'[a] = configs[a]
      /\ \A a \in DOMAIN configs' \ DOMAIN configs : configs'[a] = "ACTIVE"
  BY DEF AgentTypes, Settable
<1>2. AgentTypes'
  BY <1>1 DEF AgentTypes
<1>3. ASSUME NEW a \in Administrable, a \notin troubled'
      PROVE  TrailFollows(a)'
  <2>1. TrailFollows(a) /\ InProgress(a)' = InProgress(a) /\ InProgress(a) \subseteq Patches
    BY <1>3 DEF TrailIsSound, InProgress
  <2>2. ASSUME a \notin DOMAIN configs, NEW q \in InProgress(a)
        PROVE  patch[q].step = "load" /\ patch[q].before = NoRow
    BY <2>1, <2>2 DEF InProgress, AgentTypes, TrailFollows
  <2> QED
    BY <1>1, <2>1, <2>2 DEF TrailFollows
<1> QED
  BY <1>2, <1>3 DEF TrailIsSound

\* What the trail shows of an agent is what its row says.
LEMMA ShownIsSo ==
    ASSUME AgentTypes, TrailIsSound
    PROVE  ShownNow.off \subseteq Disabled /\ ShownNow.on \cap Disabled = {}
<1>1. ASSUME NEW a \in Touched, Reliable(a)
      PROVE  /\ audited[a] \in Off => a \in Disabled
             /\ a \in Disabled => audited[a] \in Off
  <2>1. a \in Administrable /\ TrailFollows(a) /\ InProgress(a) = {}
    BY <1>1, TouchedAssumption DEF Reliable, TrailIsSound, InProgress
  <2> QED
    BY <2>1 DEF TrailFollows, Disabled, Off
<1> QED
  BY <1>1 DEF ShownNow

-----------------------------------------------------------------------------
(* The cycles *)

(***************************************************************************)
(* Every cycle has done what CycleSoFar allows for the agents the trail    *)
(* has shown since it began, and these the trail shows still, until the    *)
(* cycle is done.                                                          *)
(***************************************************************************)
CyclesAreSound ==
    \A c \in Cycles : cycle[c] # Vacant =>
        /\ CycleSoFar(cycle[c], shown[c])
        /\ ~At(c, "done") => shown[c].off \subseteq ShownNow.off /\ shown[c].on \subseteq ShownNow.on

\* A step in which each cycle stays, ends, begins with nothing done, or does what is
\* allowed for the agents shown so far.
LEMMA WatchedCycles ==
    ASSUME CyclesAreSound, Watch,
           \A c \in Cycles :
               \/ cycle'[c] = cycle[c] \/ cycle'[c] = Vacant
               \/ cycle[c] = Vacant /\ \A s : CycleSoFar(cycle'[c], s)
               \/ cycle[c] # Vacant /\ ~At(c, "done") /\ CycleSoFar(cycle'[c], shown[c])
    PROVE  CyclesAreSound'
<1>1. PICK now : now = ShownNow'
  OBVIOUS
<1>2. SUFFICES ASSUME NEW c \in Cycles, cycle'[c] # Vacant
               PROVE  /\ CycleSoFar(cycle'[c], shown'[c])
                      /\ cycle'[c].step # "done" =>
                           shown'[c].off \subseteq now.off /\ shown'[c].on \subseteq now.on
  BY <1>1 DEF CyclesAreSound, At, CycleSoFar
<1>3. shown'[c] = IF cycle[c] = Vacant THEN now
                  ELSE IF cycle[c].step = "done" THEN shown[c]
                  ELSE [off |-> shown[c].off \cap now.off, on |-> shown[c].on \cap now.on]
  BY <1>1, <1>2 DEF Watch, At
<1>4. CASE cycle[c] = Vacant
  BY <1>2, <1>3, <1>4
<1>5. CASE cycle[c] # Vacant /\ cycle[c].step = "done"
  <2>1. cycle'[c] = cycle[c] /\ shown'[c] = shown[c]
    BY <1>2, <1>3, <1>5 DEF At
  <2> QED
    BY <1>5, <2>1 DEF CyclesAreSound
<1>6. CASE cycle[c] # Vacant /\ cycle[c].step # "done"
  <2>1. /\ shown'[c].off = shown[c].off \cap now.off /\ shown'[c].on = shown[c].on \cap now.on
    BY <1>3, <1>6
  <2>2. CycleSoFar(cycle'[c], shown[c])
    BY <1>2, <1>6 DEF CyclesAreSound, At
  <2>3. CycleSoFar(cycle'[c], shown'[c])
    BY <2>1, <2>2, LessIsShown
  <2> QED
    BY <2>1, <2>3
<1> QED
  BY <1>4, <1>5, <1>6

\* A cycle has nothing to answer for when it begins.
LEMMA FreshCycles ==
    /\ \A s : CycleSoFar(Fresh(FALSE), s)
    /\ \A s : CycleSoFar([Fresh(TRUE) EXCEPT !.ran = {News}], s)
  BY DEF CycleSoFar, Fresh, News, Unasked, Router

\* The inductive invariant of the agents.
AgentsInv == AgentTypes /\ TrailIsSound /\ CyclesAreSound

\* A step of cycle c keeps the invariant.
LEMMA CycleStepKeeps ==
    ASSUME AgentsInv, CycleStep, Watch
    PROVE  AgentsInv'
<1> USE DEF AgentsInv
<1>1. PICK c \in Cycles :
        \/ BeginCycle(c) \/ SeedAndBoot(c) \/ ReadControls(c) \/ Research(c) \/ QuantResearch(c)
        \/ Submit(c) \/ Deliberate(c) \/ Route(c) \/ CycleFails(c) \/ Forget(c)
  BY DEF CycleStep, RunManually
<1>2. PICK k : /\ CycleGoes(c, k)
               /\ \/ k = Vacant
                  \/ cycle[c] = Vacant /\ \A s : CycleSoFar(k, s)
                  \/ cycle[c] # Vacant /\ ~At(c, "done") /\ CycleSoFar(k, shown[c])
  <2>1. CASE BeginCycle(c)
    BY <2>1, CycleMoves, FreshCycles DEF BeginCycle
  <2>2. CASE SeedAndBoot(c)
    BY <2>2, CycleMoves, FreshCycles DEF SeedAndBoot
  <2>3. CASE CycleFails(c) \/ Forget(c)
    BY <2>3, CycleMoves
  <2>4. cycle[c].step \in CycleSteps \ {"done"} =>
          /\ cycle[c] \in CycleRecords /\ cycle[c] # Vacant /\ ~At(c, "done")
          /\ CycleSoFar(cycle[c], shown[c])
          /\ shown[c].off \subseteq Disabled /\ shown[c].on \cap Disabled = {}
    BY RecordsAreTold, ShownIsSo DEF AgentTypes, CyclesAreSound, CycleSteps, At
  <2>5. CASE ReadControls(c) \/ Submit(c)
    <3>1. PICK k, off, s : k = cycle[c] /\ off = Disabled /\ s = shown[c]
      OBVIOUS
    <3>2. \/ k.step = "read" /\ CycleGoes(c, [k EXCEPT !.step = "research", !.off = off])
          \/ k.step = "submit" /\ CycleGoes(c, [k EXCEPT !.step = "deliberate", !.off = off])
      BY <2>5, <3>1, CycleMoves DEF ReadControls, Submit, At
    <3>3. k \in CycleRecords /\ cycle[c] # Vacant /\ ~At(c, "done")
      BY <2>4, <3>1, <3>2 DEF CycleSteps
    <3>4. CycleSoFar(k, s) /\ s.off \subseteq off /\ s.on \cap off = {}
      BY <2>4, <3>1, <3>2 DEF CycleSteps
    <3>5. off \in SUBSET Administrable
      BY <3>1 DEF Disabled, AgentTypes
    <3>6. /\ k.step = "read" => CycleSoFar([k EXCEPT !.step = "research", !.off = off], s)
          /\ k.step = "submit" => CycleSoFar([k EXCEPT !.step = "deliberate", !.off = off], s)
      BY <3>3, <3>4, <3>5, ReadingKeeps
    <3> QED
      BY <3>1, <3>2, <3>3, <3>6
  <2>6. CASE Research(c) \/ QuantResearch(c) \/ Deliberate(c) \/ Route(c)
    <3>1. cycle[c].step \in CycleSteps \ {"done"}
      BY <2>6 DEF Research, QuantResearch, Deliberate, Route, At, CycleSteps
    <3>2. PICK s : s = shown[c]
      OBVIOUS
    <3>3. CycleSoFar(cycle[c], s)
      BY <2>4, <3>1, <3>2
    <3>4. \E m \in CycleRecords : CycleGoes(c, m) /\ CycleSoFar(m, s)
      BY <2>6, <3>3, ResearchKeeps, QuantResearchKeeps, DeliberateKeeps, RouteKeeps
    <3> QED
      BY <2>4, <3>1, <3>2, <3>4
  <2> QED
    BY <1>1, <2>1, <2>2, <2>3, <2>5, <2>6
<1>3. /\ cycle' \in [Cycles -> {Vacant} \cup CycleRecords]
      /\ cycle'[c] = k /\ \A d \in Cycles : d # c => cycle'[d] = cycle[d]
  BY <1>2 DEF CycleGoes, AgentTypes
<1>4. CyclesAreSound'
  BY <1>2, <1>3, WatchedCycles
<1>5. /\ UNCHANGED <<audited, patch, troubled>>
      /\ \/ configs' = configs
         \/ configs' = [a \in Administrable |-> IF a \in DOMAIN configs THEN configs[a] ELSE "ACTIVE"]
  BY <1>1 DEF BeginCycle, SeedAndBoot, ReadControls, Research, QuantResearch, Submit, Deliberate, Route,
     CycleFails, Forget
<1>6. AgentTypes' /\ TrailIsSound'
  BY <1>3, <1>5, CyclesKeepTheTrail
<1> QED
  BY <1>4, <1>6

\* Every step keeps the invariant.
LEMMA AgentStepsKeep ==
    ASSUME AgentsInv, [AgentControlsNext]_agentVars
    PROVE  AgentsInv'
<1>1. CASE PatchStep /\ Watch
  <2>1. AgentTypes' /\ TrailIsSound'
    BY <1>1, BeginPatchKeeps, PatchGoesOnKeeps, TouchedAssumption DEF PatchStep, AgentsInv
  <2>2. cycle' = cycle
    BY <1>1 DEF PatchStep, BeginPatch, LoadPatch, CommitPatch, RefreshPatch, AuditPatch, PatchFails
  <2>3. CyclesAreSound'
    BY <1>1, <2>2, WatchedCycles DEF AgentsInv
  <2> QED
    BY <2>1, <2>3 DEF AgentsInv
<1>2. CASE CycleStep /\ Watch
  BY <1>2, CycleStepKeeps
<1>3. CASE UNCHANGED agentVars
  BY <1>3 DEF agentVars, AgentsInv, AgentTypes, TrailIsSound, TrailFollows, InProgress, CyclesAreSound,
     At, ShownNow, Reliable
<1> QED
  BY <1>1, <1>2, <1>3 DEF AgentControlsNext

\* The invariant holds of the seeded system.
LEMMA AgentsStart == AgentControlsInit => AgentsInv
<1> SUFFICES ASSUME AgentControlsInit PROVE AgentsInv
  OBVIOUS
<1>1. AgentTypes
  BY DEF AgentControlsInit, AgentTypes, Settable
<1>2. TrailIsSound
  BY DEF AgentControlsInit, TrailIsSound, TrailFollows, InProgress
<1>3. CyclesAreSound
  BY DEF AgentControlsInit, CyclesAreSound
<1> QED
  BY <1>1, <1>2, <1>3 DEF AgentsInv

(***************************************************************************)
(* Disabling an agent stops it from running, and fails closed, whatever    *)
(* requests, boots and cycles run at the same time (update_agent,          *)
(* _disabled_agent_types, run_research_cycle, deliberate,                  *)
(* submit_trade_idea).                                                     *)
(***************************************************************************)
THEOREM OffMeansOut == AgentControlsSpec => []DisabledAgentsStayOut
<1>1. AgentsInv => DisabledAgentsStayOut
  <2> SUFFICES ASSUME AgentsInv, NEW c \in Finished
               PROVE  OffStaysOut(c) /\ OnIsAsked(c) /\ ReviewHasAuthors(c)
    BY DEF DisabledAgentsStayOut
  <2>1. CycleSoFar(cycle[c], shown[c])
    BY RecordsAreTold DEF AgentsInv, CyclesAreSound, Finished, At
  <2>2. OnIsAsked(c)
    BY <2>1 DEF CycleSoFar, OnIsAsked
  <2>3. ReviewHasAuthors(c)
    BY <2>1 DEF CycleSoFar, ReviewHasAuthors, Reads
  <2>4. OffStaysOut(c)
    BY <2>1, GroupsAreApart DEF CycleSoFar, OffStaysOut, Reads, Unasked
  <2> QED
    BY <2>2, <2>3, <2>4
<1> QED
  BY <1>1, AgentsStart, AgentStepsKeep, PTL DEF AgentControlsSpec

-----------------------------------------------------------------------------
(* The paper book: numbers *)

\* A set of numbers has a least one.
LEMMA LeastNumber ==
    ASSUME NEW some \in SUBSET Nat, some # {}
    PROVE  \E n \in some : \A m \in some : n <= m
<1> DEFINE below(n) == 0 .. n - 1
           belows == {below(n) : n \in some}
           smaller == StrictSubsetOrdering(Nat)
<1>1. IsWellFoundedOn(smaller, FiniteSubsetsOf(Nat))
  BY FS_StrictSubsetOrderingWellFounded
<1>2. \A n \in some : IsFiniteSet(below(n)) /\ below(n) \in SUBSET Nat
  BY FS_Interval
<1>3. belows \subseteq FiniteSubsetsOf(Nat) /\ belows # {}
  BY <1>2 DEF FiniteSubsetsOf
<1> HIDE DEF smaller
<1>4. PICK x \in belows : \A y \in belows : ~ (<<y, x>> \in smaller)
  <2> HIDE DEF belows
  <2> QED
    BY <1>1, <1>3, WFMin
<1>5. PICK n \in some : x = below(n)
  OBVIOUS
<1>6. ASSUME NEW m \in some, m < n
      PROVE  FALSE
  <2>1. below(m) \subseteq below(n) /\ m \in below(n) /\ m \notin below(m)
    BY <1>6
  <2>2. <<below(m), below(n)>> \in StrictSubsetOrdering(Nat)
    <3> HIDE DEF below
    <3> QED
      BY <2>1, <1>2 DEF StrictSubsetOrdering
  <2> QED
    BY <2>2, <1>4, <1>5 DEF smaller
<1> QED
  BY <1>6


\* Induction: what holds of 0, and of n + 1 with n, holds of every number.
LEMMA EveryNumber ==
    ASSUME NEW good, 0 \in good, \A n \in Nat : n \in good => n + 1 \in good
    PROVE  Nat \subseteq good
<1> DEFINE bad == {n \in Nat : n \notin good}
<1> SUFFICES ASSUME bad # {} PROVE FALSE
  OBVIOUS
<1>1. PICK n \in bad : \A m \in bad : n <= m
  <2> HIDE DEF bad
  <2>1. bad \in SUBSET Nat
    BY DEF bad
  <2> QED
    BY <2>1, LeastNumber
<1>2. n \in Nat /\ n # 0 /\ n - 1 \in Nat
  OBVIOUS
<1>3. n - 1 \notin bad
  BY <1>1, <1>2
<1>4. (n - 1) + 1 \in good
  BY <1>2, <1>3
<1> QED
  BY <1>2, <1>4

-----------------------------------------------------------------------------
(* Sums *)

\* f is the running total of the first k numbers.
Runs(f, k, numbers) ==
    /\ f \in [0 .. k -> Int]
    /\ f[0] = 0
    /\ \A n \in 1 .. k : f[n] = f[n - 1] + numbers[n]

\* A sequence of integers has running totals.
LEMMA RunningTotalExists ==
    ASSUME NEW numbers \in Seq(Int), NEW k \in 0 .. Len(numbers)
    PROVE  \E f : Runs(f, k, numbers)
<1> DEFINE good == {n \in Nat : n <= Len(numbers) => \E f : Runs(f, n, numbers)}
<1>1. 0 \in good
  <2> DEFINE zero == [n \in 0 .. 0 |-> 0]
  <2>1. Runs(zero, 0, numbers)
    BY DEF Runs
  <2> QED
    BY <2>1
<1>2. ASSUME NEW n \in Nat, n \in good
      PROVE  n + 1 \in good
  <2> SUFFICES ASSUME n + 1 <= Len(numbers)
               PROVE  \E f : Runs(f, n + 1, numbers)
    OBVIOUS
  <2>1. PICK f : Runs(f, n, numbers)
    BY <1>2, LenProperties
  <2>2. numbers[n + 1] \in Int
    BY LenProperties
  <2> DEFINE g == [m \in 0 .. n + 1 |-> IF m = n + 1 THEN f[n] + numbers[n + 1] ELSE f[m]]
  <2>3. g \in [0 .. n + 1 -> Int]
    BY <2>1, <2>2 DEF Runs
  <2>4. g[0] = 0
    BY <2>1 DEF Runs
  <2>5. ASSUME NEW m \in 1 .. n + 1
        PROVE  g[m] = g[m - 1] + numbers[m]
    <3>1. CASE m = n + 1
      <4>1. g[m] = f[n] + numbers[m] /\ g[m - 1] = f[n]
        BY <3>1
      <4> QED
        BY <4>1
    <3>2. CASE m \in 1 .. n
      <4>1. g[m] = f[m] /\ g[m - 1] = f[m - 1]
        BY <3>2
      <4> QED
        BY <4>1, <3>2, <2>1 DEF Runs
    <3> QED
      BY <3>1, <3>2
  <2> HIDE DEF g
  <2> QED
    BY <2>3, <2>4, <2>5 DEF Runs
<1> HIDE DEF good
<1>3. Nat \subseteq good
  BY <1>1, <1>2, EveryNumber
<1> QED
  BY <1>3, LenProperties DEF good

\* And only one of each length.
LEMMA RunningTotalUnique ==
    ASSUME NEW numbers, NEW f, NEW g, NEW k \in Nat, NEW l \in Nat, k <= l,
           Runs(f, k, numbers), Runs(g, l, numbers)
    PROVE  \A n \in 0 .. k : f[n] = g[n]
<1> DEFINE good == {n \in Nat : n <= k => f[n] = g[n]}
<1>1. 0 \in good
  BY DEF Runs
<1>2. ASSUME NEW n \in Nat, n \in good
      PROVE  n + 1 \in good
  <2> SUFFICES ASSUME n + 1 <= k
               PROVE  f[n + 1] = g[n + 1]
    OBVIOUS
  <2>1. n + 1 \in 1 .. k /\ n + 1 \in 1 .. l /\ (n + 1) - 1 = n
    OBVIOUS
  <2>2. f[n] = g[n]
    BY <1>2
  <2> QED
    BY <2>1, <2>2 DEF Runs
<1> HIDE DEF good
<1>3. Nat \subseteq good
  BY <1>1, <1>2, EveryNumber
<1> QED
  BY <1>3 DEF good

\* Total is where the running total ends.
LEMMA TotalRuns ==
    ASSUME NEW numbers \in Seq(Int), NEW f, Runs(f, Len(numbers), numbers)
    PROVE  Total(numbers) = f[Len(numbers)] /\ Total(numbers) \in Int
<1> DEFINE Rec(g) == g = [n \in 0 .. Len(numbers) |->
                             IF n = 0 THEN 0 ELSE g[n - 1] + numbers[n]]
           upto == CHOOSE g : Rec(g)
<1>0. Len(numbers) \in Nat /\ \A n \in 1 .. Len(numbers) : numbers[n] \in Int
  BY LenProperties
<1>1. Total(numbers) = upto[Len(numbers)]
  BY DEF Total
<1>2. Rec(f)
  BY <1>0 DEF Runs
<1>3. Rec(upto)
  <2> HIDE DEF Rec
  <2> QED
    BY <1>2
<1> HIDE DEF upto
<1>4. /\ DOMAIN upto = 0 .. Len(numbers)
      /\ upto[0] = 0
      /\ \A n \in 1 .. Len(numbers) : upto[n] = upto[n - 1] + numbers[n]
  BY <1>0, <1>3
<1> DEFINE good == {n \in Nat : n <= Len(numbers) => upto[n] = f[n]}
<1>5. 0 \in good
  BY <1>4 DEF Runs
<1>6. ASSUME NEW n \in Nat, n \in good
      PROVE  n + 1 \in good
  <2> SUFFICES ASSUME n + 1 <= Len(numbers)
               PROVE  upto[n + 1] = f[n + 1]
    OBVIOUS
  <2>1. n + 1 \in 1 .. Len(numbers) /\ (n + 1) - 1 = n
    BY <1>0
  <2>2. upto[n] = f[n]
    BY <1>6, <1>0
  <2>3. upto[n + 1] = upto[n] + numbers[n + 1] /\ f[n + 1] = f[n] + numbers[n + 1]
    BY <2>1, <1>4 DEF Runs
  <2> QED
    BY <2>2, <2>3
<1> HIDE DEF good
<1>7. Nat \subseteq good
  BY <1>5, <1>6, EveryNumber
<1>8. upto[Len(numbers)] = f[Len(numbers)]
  BY <1>0, <1>7 DEF good
<1> QED
  BY <1>0, <1>1, <1>8 DEF Runs

\* The sum of no numbers.
LEMMA TotalOfNone == Total(<< >>) = 0
<1> DEFINE zero == [n \in 0 .. 0 |-> 0]
<1>1. << >> \in Seq(Int) /\ Len(<< >>) = 0
  BY EmptySeq
<1>2. Runs(zero, 0, << >>)
  BY DEF Runs
<1>3. zero[0] = 0
  OBVIOUS
<1> HIDE DEF zero
<1> QED
  BY <1>1, <1>2, <1>3, TotalRuns

\* One more number adds itself.
LEMMA TotalOfMore ==
    ASSUME NEW numbers \in Seq(Int), NEW x \in Int
    PROVE  Total(Append(numbers, x)) = Total(numbers) + x
<1> DEFINE more == Append(numbers, x)
<1>1. /\ more \in Seq(Int) /\ Len(more) = Len(numbers) + 1 /\ Len(numbers) \in Nat
      /\ more[Len(more)] = x
      /\ \A n \in 1 .. Len(numbers) : more[n] = numbers[n]
  BY LenProperties
<1> HIDE DEF more
<1>2. PICK f : Runs(f, Len(numbers), numbers)
  BY <1>1, RunningTotalExists
<1>3. PICK g : Runs(g, Len(more), more)
  BY <1>1, RunningTotalExists
<1>4. Runs(f, Len(numbers), more)
  BY <1>1, <1>2 DEF Runs
<1>5. f[Len(numbers)] = g[Len(numbers)]
  <2>1. \A n \in 0 .. Len(numbers) : f[n] = g[n]
    BY <1>1, <1>3, <1>4, RunningTotalUnique
  <2> QED
    BY <2>1, <1>1
<1>6. g[Len(more)] = g[Len(numbers)] + x
  <2>1. Len(more) \in 1 .. Len(more) /\ Len(more) - 1 = Len(numbers)
    BY <1>1
  <2> QED
    BY <1>1, <1>3, <2>1 DEF Runs
<1>7. Total(numbers) = f[Len(numbers)] /\ Total(more) = g[Len(more)]
  BY <1>1, <1>2, <1>3, TotalRuns
<1> QED
  BY <1>5, <1>6, <1>7 DEF more
-----------------------------------------------------------------------------
(* One fill *)

PaperPositions == [quantity : Int, avg_price : Fractions, realized_pnl : Fractions]

\* The realized profit less the cost of what is open is the cash brought in.
Balanced(pos, paid) ==
    Equal(Plus(pos.realized_pnl, Times(-pos.quantity, pos.avg_price)), Whole(-paid))

\* The same in integers.
LEMMA BalancedInIntegers ==
    ASSUME NEW pos \in PaperPositions, NEW paid \in Int
    PROVE  Balanced(pos, paid) <=>
             pos.realized_pnl.num * pos.avg_price.den
               - pos.quantity * pos.avg_price.num * pos.realized_pnl.den
             = -paid * (pos.realized_pnl.den * pos.avg_price.den)
<1> DEFINE r == pos.realized_pnl.num   e == pos.realized_pnl.den
           a == pos.avg_price.num      b == pos.avg_price.den
           q == pos.quantity
<1>1. r \in Int /\ e \in Int /\ a \in Int /\ b \in Int /\ q \in Int
  BY DEF PaperPositions, Fractions
<1>2. Balanced(pos, paid) <=> (r * b + ((-q) * a) * e) * 1 = (-paid) * (e * b)
  BY DEF Balanced, Equal, Plus, Times, Whole, Fraction
<1> HIDE DEF r, e, a, b, q
<1>3. (r * b + ((-q) * a) * e) * 1 = r * b - q * a * e
  BY <1>1
<1>4. (-paid) * (e * b) = -paid * (e * b)
  BY <1>1
<1> QED
  BY <1>2, <1>3, <1>4 DEF r, e, a, b, q

\* Adding to a long or a flat position.
LEMMA BlendingLong ==
    ASSUME NEW r \in Int, NEW e \in Int, NEW a \in Int, NEW b \in Int, NEW q \in Int,
           NEW s \in Int, NEW p \in Int, NEW paid \in Int,
           r * b - q * a * e = -paid * (e * b)
    PROVE  r * (b * (q + s)) - (q + s) * (q * a + p * s * b) * e
             = -(paid + s * p) * (e * (b * (q + s)))
<1>1. (q + s) * (r * b - q * a * e) = (q + s) * (-paid * (e * b))
  OBVIOUS
<1> QED
  BY <1>1

\* Closing s of it.
LEMMA ReducingBalances ==
    ASSUME NEW r \in Int, NEW e \in Int, NEW a \in Int, NEW b \in Int, NEW q \in Int,
           NEW s \in Int, NEW p \in Int, NEW paid \in Int,
           r * b - q * a * e = -paid * (e * b)
    PROVE  (r * b - s * (p * b - a) * e) * b - (q + s) * a * (e * b)
             = -(paid + s * p) * ((e * b) * b)
<1>1. b * (r * b - q * a * e) = b * (-paid * (e * b))
  OBVIOUS
<1> QED
  BY <1>1

Moves(pos, s, p, paid, new) ==
    /\ new \in PaperPositions
    /\ new.quantity = pos.quantity + s
    /\ Balanced(new, paid + s * p)

\* Opening or adding keeps the books.
LEMMA BlendedBalances ==
    ASSUME NEW pos \in PaperPositions, NEW s \in Int, NEW p \in Int, NEW paid \in Int,
           pos.quantity # 0 \/ s # 0, Adds(pos, s), Balanced(pos, paid)
    PROVE  /\ pos.quantity + s # 0
           /\ Moves(pos, s, p, paid, Blended(pos, s, p))
<1> DEFINE r == pos.realized_pnl.num   e == pos.realized_pnl.den
           a == pos.avg_price.num      b == pos.avg_price.den
           q == pos.quantity           t == q + s
           new == Blended(pos, s, p)   w == q * a + p * s * b
<1>1. /\ r \in Int /\ e \in Int /\ e > 0 /\ a \in Int /\ b \in Int /\ b > 0 /\ q \in Int
      /\ t \in Int /\ t = q + s /\ w = q * a + p * s * b /\ w \in Int
      /\ pos.realized_pnl \in Fractions
  BY DEF PaperPositions, Fractions
<1>2. t # 0
  BY <1>1 DEF Adds
<1>3. r * b - q * a * e = -paid * (e * b)
  BY BalancedInIntegers
<1>4. /\ new.quantity = t /\ new.realized_pnl = pos.realized_pnl
      /\ new.avg_price = Over(Plus(Times(q, pos.avg_price), Whole(p * s)), t)
      /\ new = [quantity |-> t, avg_price |-> new.avg_price, realized_pnl |-> pos.realized_pnl]
  <2> DEFINE price == Over(Plus(Times(q, pos.avg_price), Whole(p * s)), t)
  <2>1. new = [pos EXCEPT !.quantity = t, !.avg_price = price]
    BY <1>2 DEF Blended
  <2> HIDE DEF price, t, new
  <2>2. new = [quantity |-> t, avg_price |-> price, realized_pnl |-> pos.realized_pnl]
    BY <2>1 DEF PaperPositions
  <2> QED
    BY <2>2 DEF price
<1>5. Plus(Times(q, pos.avg_price), Whole(p * s)) = Fraction(w, b)
  <2>1. (q * a) * 1 + (p * s) * b = w /\ b * 1 = b
    BY <1>1
  <2> HIDE DEF w
  <2> QED
    BY <2>1 DEF Plus, Times, Whole, Fraction
<1> HIDE DEF r, e, a, b, q, t, w, new
<1>6. new.avg_price = IF t > 0 THEN Fraction(w, b * t) ELSE Fraction(-w, b * (-t))
  BY <1>4, <1>5 DEF Over, Fraction
<1>7. new.avg_price \in Fractions
  <2>1. CASE t > 0
    <3>1. b * t > 0
      BY <1>1, <2>1
    <3> QED
      BY <1>1, <1>6, <2>1, <3>1 DEF Fractions, Fraction
  <2>2. CASE t < 0
    <3>1. b * (-t) > 0
      BY <1>1, <2>2
    <3> QED
      BY <1>1, <1>6, <2>2, <3>1 DEF Fractions, Fraction
  <2> QED
    BY <1>1, <1>2, <2>1, <2>2
<1>8. new \in PaperPositions
  BY <1>1, <1>4, <1>7 DEF PaperPositions
<1>9. Balanced(new, paid + s * p)
  <2>1. r * (b * t) - t * w * e = -(paid + s * p) * (e * (b * t))
    BY <1>1, <1>3, BlendingLong
  <2>2. /\ new.realized_pnl.num = r /\ new.realized_pnl.den = e /\ new.quantity = t
    BY <1>4 DEF r, e
  <2>3. paid + s * p \in Int
    OBVIOUS
  <2>4. CASE t > 0
    <3>1. new.avg_price.num = w /\ new.avg_price.den = b * t
      BY <1>6, <2>4 DEF Fraction
    <3> QED
      BY <1>8, <2>1, <2>2, <2>3, <3>1, BalancedInIntegers
  <2>5. CASE t < 0
    <3>1. new.avg_price.num = -w /\ new.avg_price.den = b * (-t)
      BY <1>1, <1>6, <2>5 DEF Fraction
    <3>2. r * (b * (-t)) - t * (-w) * e = -(paid + s * p) * (e * (b * (-t)))
      BY <1>1, <2>1
    <3> QED
      BY <1>8, <2>2, <2>3, <3>1, <3>2, BalancedInIntegers
  <2> QED
    BY <1>1, <1>2, <2>4, <2>5
<1> QED
  BY <1>2, <1>4, <1>8, <1>9 DEF Moves, t, q, new

\* What is closed is the smaller of the two.
LEMMA SmallerOfTwo ==
    ASSUME NEW x \in Int, NEW y \in Int
    PROVE  Min({x, y}) = IF x <= y THEN x ELSE y
<1>1. \E m \in {x, y} : \A n \in {x, y} : m <= n
  OBVIOUS
<1> QED
  BY <1>1 DEF Min

\* Reducing, closing or flipping keeps the books.
LEMMA ReducedBalances ==
    ASSUME NEW pos \in PaperPositions, NEW s \in Int, NEW p \in Int, NEW paid \in Int,
           ~Adds(pos, s), Balanced(pos, paid)
    PROVE  Moves(pos, s, p, paid, Reduced(pos, s, p))
<1> DEFINE r == pos.realized_pnl.num   e == pos.realized_pnl.den
           a == pos.avg_price.num      b == pos.avg_price.den
           q == pos.quantity           t == q + s
           new == Reduced(pos, s, p)
           closing == Min({Absolute(s), Absolute(q)})
           k == IF q > 0 THEN closing ELSE -closing
           flipped == t # 0 /\ ~(t > 0 <=> q > 0)
<1>1. /\ r \in Int /\ e \in Int /\ e > 0 /\ a \in Int /\ b \in Int /\ b > 0 /\ q \in Int
      /\ t \in Int /\ t = q + s
      /\ pos.realized_pnl \in Fractions /\ pos.avg_price \in Fractions
  BY DEF PaperPositions, Fractions
<1>2. q # 0 /\ (q > 0 => s <= 0) /\ (q < 0 => s > 0)
  BY <1>1 DEF Adds
<1>3. k = IF t = 0 \/ flipped THEN q ELSE -s
  <2>1. Absolute(s) \in Int /\ Absolute(q) \in Int
    BY <1>1 DEF Absolute
  <2>2. closing = IF Absolute(s) <= Absolute(q) THEN Absolute(s) ELSE Absolute(q)
    BY <2>1, SmallerOfTwo
  <2> HIDE DEF closing, q
  <2> QED
    BY <1>1, <1>2, <2>2 DEF Absolute
<1>4. r * b - q * a * e = -paid * (e * b)
  BY BalancedInIntegers
<1>5. /\ new.quantity = t
      /\ new.avg_price = IF t = 0 THEN Whole(0) ELSE IF flipped THEN Whole(p) ELSE pos.avg_price
      /\ new.realized_pnl = Plus(pos.realized_pnl, Realized(pos, closing, p))
      /\ new = [quantity |-> t, avg_price |-> new.avg_price,
                realized_pnl |-> new.realized_pnl]
  BY DEF Reduced
<1>6. Realized(pos, closing, p) = Times(k, Plus(Whole(p), Times(-1, pos.avg_price)))
  BY DEF Realized
<1> HIDE DEF k, closing
<1>7. k \in Int
  BY <1>1, <1>3
<1>8. /\ new.realized_pnl.num = r * b + (k * (p * b - a)) * e
      /\ new.realized_pnl.den = e * b
  <2>1. Plus(Whole(p), Times(-1, pos.avg_price)) = Fraction(p * b - a, b)
    <3>1. p * b + ((-1) * a) * 1 = p * b - a /\ 1 * b = b
      BY <1>1
    <3> QED
      BY <3>1 DEF Plus, Times, Whole, Fraction
  <2> QED
    BY <1>5, <1>6, <2>1 DEF Plus, Times, Fraction
<1>9. new.realized_pnl \in Fractions
  <2>1. e * b > 0
    BY <1>1
  <2>2. new.realized_pnl = Fraction(new.realized_pnl.num, new.realized_pnl.den)
    BY <1>5 DEF Plus, Fraction
  <2> HIDE DEF r, e, a, b, q, t, new
  <2>3. new.realized_pnl.num \in Int /\ new.realized_pnl.den \in Int
    BY <1>1, <1>7, <1>8
  <2> QED
    BY <1>8, <2>1, <2>2, <2>3 DEF Fractions, Fraction
<1>10. new.avg_price \in Fractions
  BY <1>1, <1>5 DEF Fractions, Fraction, Whole
<1>11. new \in PaperPositions
  BY <1>1, <1>5, <1>9, <1>10 DEF PaperPositions
<1>12. Balanced(new, paid + s * p)
  <2>0. paid + s * p \in Int
    OBVIOUS
  <2>1. Balanced(new, paid + s * p) <=>
          (r * b + (k * (p * b - a)) * e) * new.avg_price.den - t * new.avg_price.num * (e * b)
            = -(paid + s * p) * ((e * b) * new.avg_price.den)
    BY <1>5, <1>8, <1>11, <2>0, BalancedInIntegers
  <2>2. CASE t = 0
    <3>1. new.avg_price.num = 0 /\ new.avg_price.den = 1 /\ k = q /\ s = -q
      BY <1>1, <1>3, <1>5, <2>2 DEF Whole, Fraction
    <3> HIDE DEF r, e, a, b, q, t, new
    <3>2. r * b + q * (p * b - a) * e = -(paid - q * p) * (e * b)
      BY <1>1, <1>4
    <3>3. paid + s * p = paid - q * p
      BY <1>1, <3>1
    <3>4. (r * b + (q * (p * b - a)) * e) * 1 - 0 * 0 * (e * b) = -(paid - q * p) * ((e * b) * 1)
      BY <1>1, <3>2
    <3> QED
      BY <2>1, <2>2, <3>1, <3>3, <3>4
  <2>3. CASE t # 0 /\ flipped
    <3>1. new.avg_price.num = p /\ new.avg_price.den = 1 /\ k = q
      BY <1>1, <1>3, <1>5, <2>3 DEF Whole, Fraction
    <3> HIDE DEF r, e, a, b, q, t, new
    <3>2. r * b + q * (p * b - a) * e - (q + s) * p * (e * b) = -(paid + s * p) * (e * b)
      BY <1>1, <1>4
    <3>3. (r * b + (q * (p * b - a)) * e) * 1 - t * p * (e * b) = -(paid + s * p) * ((e * b) * 1)
      BY <1>1, <3>2
    <3> QED
      BY <2>1, <3>1, <3>3
  <2>4. CASE t # 0 /\ ~flipped
    <3>1. new.avg_price.num = a /\ new.avg_price.den = b /\ k = -s
      BY <1>1, <1>3, <1>5, <2>4
    <3> HIDE DEF r, e, a, b, q, t, new
    <3>2. (r * b - s * (p * b - a) * e) * b - (q + s) * a * (e * b)
             = -(paid + s * p) * ((e * b) * b)
      BY <1>1, <1>4, ReducingBalances
    <3>3. (r * b + ((-s) * (p * b - a)) * e) * b - t * a * (e * b) = -(paid + s * p) * ((e * b) * b)
      BY <1>1, <3>2
    <3> QED
      BY <2>1, <3>1, <3>3
  <2> QED
    BY <2>2, <2>3, <2>4
<1> QED
  BY <1>5, <1>11, <1>12 DEF Moves
-----------------------------------------------------------------------------
(* The price of what is open *)

\* The prices of the fills that went one way, and the way of a position.
Entered(way, fs) == {fs[i].price : i \in {n \in DOMAIN fs : Heading(Signed(fs[n])) = way}}

SideOf(pos) == Heading(pos.quantity)

Priced(pos, fs) ==
    pos.quantity # 0 =>
      \E low, high \in Entered(SideOf(pos), fs) :
         /\ AtMost(Whole(low), pos.avg_price)
         /\ AtMost(pos.avg_price, Whole(high))

\* One more fill only adds its price.
LEMMA EnteredGrows ==
    ASSUME NEW fs \in Seq(FillRecords), NEW fill \in FillRecords, NEW way
    PROVE  /\ Entered(way, fs) \subseteq Entered(way, Append(fs, fill))
           /\ fill.price \in Entered(Heading(Signed(fill)), Append(fs, fill))
           /\ Entered(way, fs) \subseteq Int
<1> DEFINE more == Append(fs, fill)
<1>1. /\ Len(fs) \in Nat /\ DOMAIN fs = 1 .. Len(fs)
      /\ DOMAIN more = 1 .. Len(fs) + 1 /\ more[Len(fs) + 1] = fill
      /\ \A i \in 1 .. Len(fs) : more[i] = fs[i] /\ fs[i] \in FillRecords
  BY LenProperties
<1> HIDE DEF more
<1>2. DOMAIN fs \subseteq DOMAIN more /\ Len(fs) + 1 \in DOMAIN more
  BY <1>1
<1>3. Entered(way, fs) \subseteq Entered(way, more)
  BY <1>1, <1>2 DEF Entered
<1>4. fill.price \in Entered(Heading(Signed(fill)), more)
  BY <1>1, <1>2 DEF Entered
<1>5. Entered(way, fs) \subseteq Int
  BY <1>1 DEF Entered, FillRecords
<1> QED
  BY <1>3, <1>4, <1>5 DEF more

\* A mean of two prices is not below the smaller.
LEMMA MeanAbove ==
    ASSUME NEW a \in Int, NEW b \in Int, b > 0, NEW q \in Nat, NEW s \in Nat, NEW p \in Int,
           NEW low \in Int, NEW m \in Int, low * b <= a, m <= low, m <= p
    PROVE  m * (b * (q + s)) <= q * a + p * s * b
<1>1. m * b <= low * b
  <2>1. (low - m) * b >= 0
    OBVIOUS
  <2> QED
    BY <2>1
<1>2. q * (a - m * b) >= 0
  <2>1. a - m * b \in Nat
    BY <1>1
  <2> QED
    BY <2>1
<1>3. (s * b) * (p - m) >= 0
  <2>1. s * b \in Nat /\ p - m \in Nat
    OBVIOUS
  <2> QED
    BY <2>1
<1> QED
  BY <1>2, <1>3

\* Nor above the larger.
LEMMA MeanBelow ==
    ASSUME NEW a \in Int, NEW b \in Int, b > 0, NEW q \in Nat, NEW s \in Nat, NEW p \in Int,
           NEW high \in Int, NEW m \in Int, a <= high * b, high <= m, p <= m
    PROVE  q * a + p * s * b <= m * (b * (q + s))
<1>1. high * b <= m * b
  <2>1. (m - high) * b >= 0
    OBVIOUS
  <2> QED
    BY <2>1
<1>2. q * (m * b - a) >= 0
  <2>1. m * b - a \in Nat
    BY <1>1
  <2> QED
    BY <2>1
<1>3. (s * b) * (m - p) >= 0
  <2>1. s * b \in Nat /\ m - p \in Nat
    OBVIOUS
  <2> QED
    BY <2>1
<1> QED
  BY <1>2, <1>3

\* The sizes of a position and of a fill that adds to it, without their sign.
Held(pos, s) == IF s > 0 THEN pos.quantity ELSE -pos.quantity
Added(s) == IF s > 0 THEN s ELSE -s

\* The blended price of a position, in integers.
LEMMA BlendedPrice ==
    ASSUME NEW pos \in PaperPositions, NEW s \in Int, NEW p \in Int,
           pos.quantity # 0 \/ s # 0, Adds(pos, s)
    PROVE  /\ Held(pos, s) \in Nat /\ Added(s) \in Nat
           /\ pos.quantity + s # 0 /\ (pos.quantity + s > 0 <=> s > 0)
           /\ Blended(pos, s, p).quantity = pos.quantity + s
           /\ Blended(pos, s, p).avg_price.den = pos.avg_price.den * (Held(pos, s) + Added(s))
           /\ Blended(pos, s, p).avg_price.num
                = Held(pos, s) * pos.avg_price.num + p * Added(s) * pos.avg_price.den
<1> DEFINE a == pos.avg_price.num      b == pos.avg_price.den
           size == pos.quantity        t == size + s
           new == Blended(pos, s, p)   w == size * a + p * s * b
<1>1. /\ a \in Int /\ b \in Int /\ b > 0 /\ size \in Int
      /\ t \in Int /\ t = size + s /\ w = size * a + p * s * b /\ w \in Int
  BY DEF PaperPositions, Fractions
<1>2. t # 0 /\ (t > 0 <=> s > 0) /\ (s > 0 => size >= 0) /\ (s <= 0 => size <= 0)
  <2>1. (size = 0 \/ (size > 0 <=> s > 0)) /\ (size # 0 \/ s # 0)
    BY DEF Adds
  <2> HIDE DEF size, t
  <2> QED
    BY <1>1, <2>1
<1>3. /\ new.quantity = t
      /\ new.avg_price = Over(Plus(Times(size, pos.avg_price), Whole(p * s)), t)
  <2> DEFINE price == Over(Plus(Times(size, pos.avg_price), Whole(p * s)), t)
  <2>1. new = [pos EXCEPT !.quantity = t, !.avg_price = price]
    BY <1>2 DEF Blended
  <2> HIDE DEF price, t, new
  <2> QED
    BY <2>1 DEF PaperPositions, price
<1>4. Plus(Times(size, pos.avg_price), Whole(p * s)) = Fraction(w, b)
  <2>1. (size * a) * 1 + (p * s) * b = w /\ b * 1 = b
    BY <1>1
  <2> HIDE DEF w
  <2> QED
    BY <2>1 DEF Plus, Times, Whole, Fraction
<1> HIDE DEF a, b, size, t, w, new
<1>5. CASE s > 0
  <2>1. new.avg_price = Fraction(w, b * t)
    BY <1>2, <1>3, <1>4, <1>5 DEF Over, Fraction
  <2> QED
    BY <1>1, <1>2, <1>3, <1>5, <2>1 DEF Fraction, a, b, size, new, Held, Added
<1>6. CASE s <= 0
  <2>1. new.avg_price = Fraction(-w, b * (-t))
    BY <1>2, <1>3, <1>4, <1>6 DEF Over, Fraction
  <2>2. -w = (-size) * a + p * (-s) * b /\ -t = (-size) + (-s)
    BY <1>1
  <2>3. /\ new.avg_price.num = (-size) * a + p * (-s) * b
        /\ new.avg_price.den = b * ((-size) + (-s))
    BY <2>1, <2>2 DEF Fraction
  <2> QED
    BY <1>1, <1>2, <1>3, <1>6, <2>3 DEF a, b, size, new, Held, Added
<1> QED
  BY <1>5, <1>6

\* Adding keeps the price between prices of entry.
LEMMA BlendedPriced ==
    ASSUME NEW pos \in PaperPositions, NEW fs \in Seq(FillRecords), NEW fill \in FillRecords,
           NEW s \in Int, s = Signed(fill), s # 0, Adds(pos, s), Priced(pos, fs)
    PROVE  Priced(Blended(pos, s, fill.price), Append(fs, fill))
<1> DEFINE new == Blended(pos, s, fill.price)
           p == fill.price
           q == Held(pos, s)
           n == Added(s)
           a == pos.avg_price.num
           b == pos.avg_price.den
           more == Append(fs, fill)
<1>1. /\ a \in Int /\ b \in Int /\ b > 0 /\ p \in Int
      /\ pos.quantity \in Int
  BY DEF PaperPositions, Fractions, FillRecords
<1>2. /\ q \in Nat /\ n \in Nat
      /\ pos.quantity + s # 0 /\ (pos.quantity + s > 0 <=> s > 0)
      /\ new.quantity = pos.quantity + s
      /\ new.avg_price.den = b * (q + n)
      /\ new.avg_price.num = q * a + p * n * b
  BY <1>1, BlendedPrice
<1>3. SideOf(new) = Heading(s)
  BY <1>1, <1>2 DEF SideOf, Heading
<1>4. /\ Entered(Heading(s), fs) \subseteq Entered(Heading(s), more)
      /\ p \in Entered(Heading(s), more)
      /\ Entered(Heading(s), fs) \subseteq Int
  BY <1>1, EnteredGrows
<1>5. ASSUME NEW low \in Int, NEW high \in Int, low * b <= a, a <= high * b,
             low \in Entered(Heading(s), more), high \in Entered(Heading(s), more)
      PROVE  Priced(new, more)
  <2> DEFINE least == IF low <= p THEN low ELSE p
             most == IF p <= high THEN high ELSE p
  <2>1. /\ least \in Int /\ least <= low /\ least <= p /\ least \in Entered(Heading(s), more)
        /\ most \in Int /\ high <= most /\ p <= most /\ most \in Entered(Heading(s), more)
    BY <1>1, <1>4, <1>5
  <2> HIDE DEF least, most, q, n, a, b, p, new
  <2>2. least * (b * (q + n)) <= q * a + p * n * b
    BY <1>1, <1>2, <1>5, <2>1, MeanAbove
  <2>3. q * a + p * n * b <= most * (b * (q + n))
    BY <1>1, <1>2, <1>5, <2>1, MeanBelow
  <2>4. least * new.avg_price.den <= new.avg_price.num * 1
    BY <1>1, <1>2, <2>2
  <2>5. new.avg_price.num * 1 <= most * new.avg_price.den
    BY <1>1, <1>2, <2>3
  <2> QED
    BY <1>3, <2>1, <2>4, <2>5 DEF Priced, AtMost, Whole, Fraction
<1>6. CASE pos.quantity = 0
  <2>1. q = 0
    <3>1. -pos.quantity = 0 - pos.quantity
      BY <1>1
    <3>2. 0 - pos.quantity = 0
      BY <1>6
    <3> QED
      BY <1>6, <3>1, <3>2 DEF Held
  <2> HIDE DEF q, n, a, b, p, new, more
  <2>2. new.avg_price.den = b * n /\ new.avg_price.num = p * n * b
    BY <1>1, <1>2, <2>1
  <2>3. p * (b * n) <= (p * n * b) * 1 /\ (p * n * b) * 1 <= p * (b * n)
    BY <1>1, <1>2
  <2>4. AtMost(Whole(p), new.avg_price) /\ AtMost(new.avg_price, Whole(p))
    BY <2>2, <2>3 DEF AtMost, Whole, Fraction
  <2>5. Priced(new, more)
    BY <1>3, <1>4, <2>4 DEF Priced
  <2> QED
    BY <2>5 DEF new, more, p
<1>7. CASE pos.quantity # 0
  <2>1. SideOf(pos) = Heading(s)
    BY <1>1, <1>7 DEF SideOf, Heading, Adds
  <2>2. PICK low, high \in Entered(Heading(s), fs) : /\ AtMost(Whole(low), pos.avg_price)
                                                    /\ AtMost(pos.avg_price, Whole(high))
    BY <1>7, <2>1 DEF Priced
  <2>3. low * b <= a * 1 /\ a * 1 <= high * b
    BY <2>2 DEF AtMost, Whole, Fraction
  <2>4. low \in Int /\ high \in Int
    BY <1>4
  <2> HIDE DEF a, b, p, q, n, new, more
  <2>5. low * b <= a /\ a <= high * b
    BY <1>1, <2>3, <2>4
  <2>6. Priced(new, more)
    BY <1>4, <1>5, <2>4, <2>5
  <2> QED
    BY <2>6 DEF new, more, p
<1> QED
  BY <1>6, <1>7

\* A fill of nothing does not move the price of what is open.
LEMMA NothingPriced ==
    ASSUME NEW pos \in PaperPositions, NEW fs \in Seq(FillRecords), NEW fill \in FillRecords,
           Signed(fill) = 0, pos.quantity # 0, Adds(pos, 0), Priced(pos, fs)
    PROVE  Priced(Blended(pos, 0, fill.price), Append(fs, fill))
<1> DEFINE new == Blended(pos, 0, fill.price)
           q == -pos.quantity
           a == pos.avg_price.num
           b == pos.avg_price.den
           more == Append(fs, fill)
<1>1. /\ a \in Int /\ b \in Int /\ b > 0 /\ fill.price \in Int
      /\ pos.quantity \in Int /\ q \in Int /\ Held(pos, 0) = q /\ Added(0) = 0
  <2>1. ASSUME NEW s \in Int, s = 0 PROVE Held(pos, s) = q /\ Added(s) = 0
    <3>1. \A n \in Int : -n = 0 - n
      OBVIOUS
    <3>2. ~(s > 0) /\ 0 - s = 0
      BY <2>1
    <3>3. -s = 0
      BY <3>1, <3>2
    <3> QED
      BY <2>1, <3>2, <3>3 DEF Held, Added
  <2>2. Held(pos, 0) = q /\ Added(0) = 0
    BY <2>1
  <2> QED
    BY <2>2 DEF PaperPositions, Fractions, FillRecords
<1>2. /\ q \in Nat
      /\ new.quantity = pos.quantity + 0
      /\ new.avg_price.den = b * (q + 0)
      /\ new.avg_price.num = q * a + fill.price * 0 * b
  <2>1. ASSUME NEW s \in Int, s = 0
        PROVE  /\ Held(pos, s) \in Nat
               /\ Blended(pos, s, fill.price).quantity = pos.quantity + s
               /\ Blended(pos, s, fill.price).avg_price.den = b * (Held(pos, s) + Added(s))
               /\ Blended(pos, s, fill.price).avg_price.num
                    = Held(pos, s) * a + fill.price * Added(s) * b
    <3>1. Adds(pos, s) /\ (pos.quantity # 0 \/ s # 0)
      BY <2>1
    <3> QED
      BY <1>1, <3>1, BlendedPrice
  <2>2. /\ Held(pos, 0) \in Nat
        /\ new.quantity = pos.quantity + 0
        /\ new.avg_price.den = b * (Held(pos, 0) + Added(0))
        /\ new.avg_price.num = Held(pos, 0) * a + fill.price * Added(0) * b
    BY <2>1
  <2> QED
    BY <1>1, <2>2
<1>3. SideOf(new) = SideOf(pos)
  BY <1>1, <1>2 DEF SideOf
<1>4. /\ Entered(SideOf(pos), fs) \subseteq Entered(SideOf(pos), more)
      /\ Entered(SideOf(pos), fs) \subseteq Int
  BY EnteredGrows
<1>5. PICK low, high \in Entered(SideOf(pos), fs) : /\ AtMost(Whole(low), pos.avg_price)
                                                     /\ AtMost(pos.avg_price, Whole(high))
  BY DEF Priced
<1>6. low \in Int /\ high \in Int
  BY <1>4
<1>7. low * b <= a * 1 /\ a * 1 <= high * b
  BY <1>5 DEF AtMost, Whole, Fraction
<1> HIDE DEF a, b, q, new, more
<1>8. new.avg_price.den = b * q /\ new.avg_price.num = q * a
  BY <1>1, <1>2
<1>9. low * (b * q) <= q * a /\ q * a <= high * (b * q)
  <2>1. a - low * b \in Nat /\ high * b - a \in Nat
    BY <1>1, <1>6, <1>7
  <2>2. q * (a - low * b) >= 0 /\ q * (high * b - a) >= 0
    BY <1>2, <2>1
  <2> QED
    BY <1>1, <1>6, <2>2
<1>10. q * a * 1 = q * a
  BY <1>1
<1>11. AtMost(Whole(low), new.avg_price) /\ AtMost(new.avg_price, Whole(high))
  BY <1>8, <1>9, <1>10 DEF AtMost, Whole, Fraction
<1>12. Priced(new, more)
  BY <1>3, <1>4, <1>11 DEF Priced
<1> QED
  BY <1>12 DEF new, more

\* Reducing keeps the price; a flip was entered at the fill's.
LEMMA ReducedPriced ==
    ASSUME NEW pos \in PaperPositions, NEW fs \in Seq(FillRecords), NEW fill \in FillRecords,
           NEW s \in Int, s = Signed(fill), ~Adds(pos, s), Priced(pos, fs)
    PROVE  Priced(Reduced(pos, s, fill.price), Append(fs, fill))
<1> DEFINE new == Reduced(pos, s, fill.price)
           p == fill.price
           q == pos.quantity
           t == q + s
           more == Append(fs, fill)
           flipped == t # 0 /\ ~(t > 0 <=> q > 0)
<1>1. /\ p \in Int /\ q \in Int /\ t \in Int /\ t = q + s
  BY DEF PaperPositions, FillRecords
<1>2. q # 0 /\ (q > 0 => s <= 0) /\ (q < 0 => s > 0)
  BY <1>1 DEF Adds
<1>3. /\ new.quantity = t
      /\ new.avg_price = IF t = 0 THEN Whole(0) ELSE IF flipped THEN Whole(p) ELSE pos.avg_price
  BY DEF Reduced
<1> HIDE DEF new, more
<1>4. CASE t = 0
  <2>1. new.quantity = 0
    BY <1>3, <1>4
  <2>2. Priced(new, more)
    BY <2>1 DEF Priced
  <2> QED
    BY <2>2 DEF new, more
<1>5. CASE t # 0 /\ flipped
  <2>1. SideOf(new) = Heading(s)
    BY <1>1, <1>2, <1>3, <1>5 DEF SideOf, Heading
  <2>2. p \in Entered(Heading(s), more)
    BY <1>1, EnteredGrows DEF more
  <2>3. new.avg_price = Whole(p)
    BY <1>3, <1>5
  <2>4. AtMost(Whole(p), Whole(p))
    BY <1>1 DEF AtMost, Whole, Fraction
  <2> HIDE DEF p
  <2>5. \E low, high \in Entered(SideOf(new), more) :
           AtMost(Whole(low), new.avg_price) /\ AtMost(new.avg_price, Whole(high))
    BY <2>1, <2>2, <2>3, <2>4
  <2>6. Priced(new, more)
    BY <2>5 DEF Priced
  <2> QED
    BY <2>6 DEF new, more, p
<1>6. CASE t # 0 /\ ~flipped
  <2>1. SideOf(new) = SideOf(pos)
    BY <1>1, <1>2, <1>3, <1>6 DEF SideOf, Heading
  <2>2. Entered(SideOf(pos), fs) \subseteq Entered(SideOf(pos), more)
    BY <1>1, EnteredGrows DEF more
  <2>3. new.avg_price = pos.avg_price
    BY <1>3, <1>6
  <2>4. PICK low, high \in Entered(SideOf(pos), fs) : /\ AtMost(Whole(low), pos.avg_price)
                                                       /\ AtMost(pos.avg_price, Whole(high))
    BY <1>2 DEF Priced
  <2>5. \E l, h \in Entered(SideOf(new), more) :
           AtMost(Whole(l), new.avg_price) /\ AtMost(new.avg_price, Whole(h))
    BY <2>1, <2>2, <2>3, <2>4
  <2>6. Priced(new, more)
    BY <2>5 DEF Priced
  <2> QED
    BY <2>6 DEF new, more, p
<1> QED
  BY <1>4, <1>5, <1>6

-----------------------------------------------------------------------------
(* The theorem *)

BooksHold ==
    /\ BookTypeOK
    /\ FillsExplainPosition

\* An order's fill is a fill.
LEMMA OrdersFill ==
    ASSUME NEW order \in Orders, NEW market \in MarketPrices,
           NEW q \in FillQuantities(order.quantity), NEW cost \in Costs
    PROVE  [side |-> order.side, quantity |-> q,
            price |-> FillPrice(order.side, market, cost)] \in FillRecords
<1>1. order.quantity \in Int /\ order.side \in Sides
  BY PaperBookAssumption DEF Orders
<1>2. q \in Int
  BY <1>1 DEF FillQuantities, Absolute
<1>3. FillPrice(order.side, market, cost) \in Int
  BY PaperBookAssumption DEF FillPrice
<1> QED
  BY <1>1, <1>2, <1>3 DEF FillRecords

\* A sum over the fills, with one more.
LEMMA SumsGrow ==
    ASSUME NEW fs \in Seq(FillRecords), NEW fill \in FillRecords
    PROVE  LET more == Append(fs, fill) IN
           /\ Total([i \in DOMAIN fs |-> Signed(fs[i])]) \in Int
           /\ Total([i \in DOMAIN fs |-> Signed(fs[i]) * fs[i].price]) \in Int
           /\ Total([i \in DOMAIN more |-> Signed(more[i])])
                = Total([i \in DOMAIN fs |-> Signed(fs[i])]) + Signed(fill)
           /\ Total([i \in DOMAIN more |-> Signed(more[i]) * more[i].price])
                = Total([i \in DOMAIN fs |-> Signed(fs[i]) * fs[i].price])
                    + Signed(fill) * fill.price
<1> DEFINE more == Append(fs, fill)
           lots == [i \in DOMAIN fs |-> Signed(fs[i])]
           costs == [i \in DOMAIN fs |-> Signed(fs[i]) * fs[i].price]
           moreLots == [i \in DOMAIN more |-> Signed(more[i])]
           moreCosts == [i \in DOMAIN more |-> Signed(more[i]) * more[i].price]
<1>1. /\ Len(fs) \in Nat /\ DOMAIN fs = 1 .. Len(fs)
      /\ DOMAIN more = 1 .. Len(fs) + 1 /\ more[Len(fs) + 1] = fill
      /\ \A i \in 1 .. Len(fs) : more[i] = fs[i] /\ fs[i] \in FillRecords
  BY LenProperties
<1>2. \A f \in FillRecords : Signed(f) \in Int /\ Signed(f) * f.price \in Int
  BY DEF FillRecords, Signed
<1> HIDE DEF more
<1>3. lots \in Seq(Int) /\ costs \in Seq(Int) /\ Len(lots) = Len(fs) /\ Len(costs) = Len(fs)
  BY <1>1, <1>2
<1>4. moreLots = Append(lots, Signed(fill))
  BY <1>1, <1>2, <1>3
<1>5. moreCosts = Append(costs, Signed(fill) * fill.price)
  BY <1>1, <1>2, <1>3
<1> HIDE DEF lots, costs, moreLots, moreCosts
<1>6. Total(lots) \in Int /\ Total(costs) \in Int
  <2>0. Len(lots) \in 0 .. Len(lots) /\ Len(costs) \in 0 .. Len(costs)
    BY <1>1, <1>3
  <2>1. (\E f : Runs(f, Len(lots), lots)) /\ (\E f : Runs(f, Len(costs), costs))
    BY <1>3, <2>0, RunningTotalExists
  <2> QED
    BY <1>3, <2>1, TotalRuns
<1>7. /\ Total(moreLots) = Total(lots) + Signed(fill)
      /\ Total(moreCosts) = Total(costs) + Signed(fill) * fill.price
  BY <1>2, <1>3, <1>4, <1>5, TotalOfMore
<1> QED
  BY <1>6, <1>7 DEF lots, costs, moreLots, moreCosts, more

\* One fill, whatever came before.
LEMMA FillKeepsBooks ==
    ASSUME NEW pos \in PaperPositions, NEW fs \in Seq(FillRecords), NEW fill \in FillRecords,
           NEW paid \in Int, Balanced(pos, paid), Priced(pos, fs)
    PROVE  /\ Moves(pos, Signed(fill), fill.price, paid, Applied(pos, fill))
           /\ Priced(Applied(pos, fill), Append(fs, fill))
<1>1. Signed(fill) \in Int /\ fill.price \in Int
  BY DEF FillRecords, Signed
<1>2. ASSUME Adds(pos, Signed(fill)), pos.quantity # 0 \/ Signed(fill) # 0
      PROVE  /\ Moves(pos, Signed(fill), fill.price, paid, Applied(pos, fill))
             /\ Priced(Applied(pos, fill), Append(fs, fill))
  <2>1. Applied(pos, fill) = Blended(pos, Signed(fill), fill.price)
    BY <1>2 DEF Applied
  <2>2. Moves(pos, Signed(fill), fill.price, paid, Blended(pos, Signed(fill), fill.price))
    BY <1>1, <1>2, BlendedBalances
  <2>3. CASE Signed(fill) # 0
    BY <1>1, <1>2, <2>1, <2>2, <2>3, BlendedPriced
  <2>4. CASE Signed(fill) = 0
    <3>1. Adds(pos, 0) /\ pos.quantity # 0
      BY <1>2, <2>4
    <3>2. Priced(Blended(pos, 0, fill.price), Append(fs, fill))
      BY <2>4, <3>1, NothingPriced
    <3> QED
      BY <2>1, <2>2, <2>4, <3>2
  <2> QED
    BY <2>3, <2>4
<1>3. CASE pos.quantity = 0 /\ Signed(fill) = 0
  <2>1. Applied(pos, fill) = pos
    <3>1. pos.quantity + Signed(fill) = 0 /\ Adds(pos, Signed(fill))
      BY <1>3 DEF Adds
    <3>2. Applied(pos, fill) = [pos EXCEPT !.quantity = 0, !.avg_price = pos.avg_price]
      BY <3>1 DEF Applied, Blended
    <3> QED
      BY <1>3, <3>2 DEF PaperPositions
  <2>2. paid + Signed(fill) * fill.price = paid /\ pos.quantity + Signed(fill) = pos.quantity
    BY <1>1, <1>3
  <2> QED
    BY <1>3, <2>1, <2>2 DEF Moves, Priced
<1>4. CASE ~Adds(pos, Signed(fill))
  <2>1. Applied(pos, fill) = Reduced(pos, Signed(fill), fill.price)
    BY <1>4 DEF Applied
  <2> QED
    BY <1>1, <1>4, <2>1, ReducedBalances, ReducedPriced
<1> QED
  BY <1>2, <1>3, <1>4

\* The property, in the words of these lemmas.
LEMMA BooksRestated ==
    /\ EntryPrices = Entered(SideOf(position), fills)
    /\ FillsExplainPosition <=> /\ position.quantity = Bought
                                /\ Balanced(position, Paid)
                                /\ Priced(position, fills)
  BY DEF EntryPrices, Entered, SideOf, FillsExplainPosition, Balanced, Priced

(***************************************************************************)
(* For any quantities, those of nothing and less than nothing among them,  *)
(* any prices and costs and any number of fills, in any order and parts,   *)
(* what the position holds is what the fills bought, its realized profit   *)
(* less the cost of what is open is the cash they brought in, and the      *)
(* average price lies between prices of fills that moved it its way        *)
(* (PaperPosition.apply_fill).                                             *)
(***************************************************************************)
THEOREM BooksExplainPosition == BookSpec => []FillsExplainPosition
<1>1. BookInit => BooksHold
  <2> SUFFICES ASSUME BookInit PROVE BooksHold
    OBVIOUS
  <2>1. position = Flat /\ fills = << >>
    BY DEF BookInit
  <2>2. BookTypeOK
    BY <2>1 DEF BookTypeOK, Flat, Fractions, Whole, Fraction
  <2>3. Bought = 0 /\ Paid = 0
    <3>1. DOMAIN fills = {}
      BY <2>1
    <3>2. /\ [i \in DOMAIN fills |-> Signed(fills[i])] = << >>
          /\ [i \in DOMAIN fills |-> Signed(fills[i]) * fills[i].price] = << >>
      BY <3>1
    <3> QED
      BY <3>2, TotalOfNone DEF Bought, Paid
  <2>4. position.quantity = 0 /\ position.realized_pnl = Whole(0) /\ position.avg_price = Whole(0)
    BY <2>1 DEF Flat
  <2> QED
    BY <2>2, <2>3, <2>4
    DEF BooksHold, FillsExplainPosition, Equal, Plus, Times, Whole, Fraction
<1>2. BooksHold /\ [BookNext]_bookVars => BooksHold'
  <2> SUFFICES ASSUME BooksHold, [BookNext]_bookVars PROVE BooksHold'
    OBVIOUS
  <2>1. ASSUME NEW order \in Orders, NEW market \in MarketPrices, SubmitOrder(order, market)
        PROVE  BooksHold'
    <3>1. PICK q \in FillQuantities(order.quantity), cost \in Costs :
            LET fill == [side |-> order.side, quantity |-> q,
                         price |-> FillPrice(order.side, market, cost)] IN
            /\ position' = Applied(position, fill)
            /\ fills' = Append(fills, fill)
      BY <2>1 DEF SubmitOrder
    <3> DEFINE fill == [side |-> order.side, quantity |-> q,
                        price |-> FillPrice(order.side, market, cost)]
    <3>2. fill \in FillRecords
      BY OrdersFill
    <3>3. position' = Applied(position, fill) /\ fills' = Append(fills, fill)
      BY <3>1
    <3> HIDE DEF fill
    <3>4. position \in PaperPositions /\ fills \in Seq(FillRecords)
      BY DEF BooksHold, BookTypeOK, PaperPositions
    <3>5. /\ Bought \in Int /\ Paid \in Int
          /\ Bought' = Bought + Signed(fill)
          /\ Paid' = Paid + Signed(fill) * fill.price
      BY <3>2, <3>3, <3>4, SumsGrow DEF Bought, Paid
    <3>6. position.quantity = Bought /\ Balanced(position, Paid) /\ Priced(position, fills)
      BY BooksRestated DEF BooksHold
    <3>7. /\ Moves(position, Signed(fill), fill.price, Paid, position')
          /\ Priced(position', fills')
      BY <3>2, <3>3, <3>4, <3>5, <3>6, FillKeepsBooks
    <3>8. /\ position' \in PaperPositions
          /\ position'.quantity = Bought'
          /\ Balanced(position', Paid')
      BY <3>5, <3>6, <3>7 DEF Moves
    <3>9. BookTypeOK'
      BY <3>2, <3>3, <3>4, <3>8 DEF BookTypeOK, PaperPositions
    <3>10. FillsExplainPosition'
      BY <3>7, <3>8
      DEF FillsExplainPosition, EntryPrices, Entered, SideOf, Balanced, Priced
    <3> QED
      BY <3>9, <3>10 DEF BooksHold
  <2>2. CASE UNCHANGED bookVars
    BY <2>2 DEF BooksHold, BookTypeOK, FillsExplainPosition, Bought, Paid, EntryPrices, bookVars
  <2> QED
    BY <2>1, <2>2 DEF BookNext
<1>3. BooksHold => FillsExplainPosition
  BY DEF BooksHold
<1> QED
  BY <1>1, <1>2, <1>3, PTL DEF BookSpec
=============================================================================
