------------------------------ MODULE AlphaProofs ------------------------------
(***************************************************************************)
(* The Alpha layer, for any jobs, sights, clocks and limits: what becomes  *)
(* of a signal and its impact whatever the interleaving, that a replay of  *)
(* a past moment keeps its answer, and what the chat's answers depend on.  *)
(***************************************************************************)
EXTENDS AlphaCycle, ChatTools, SequenceTheorems, FiniteSetTheorems, WellFoundedInduction,
        TLAPS

-----------------------------------------------------------------------------
(* Numbers *)

\* A set of numbers has a least one.
LEMMA LeastNumber ==
    ASSUME NEW some \in SUBSET Nat, some # {}
    PROVE  \E n \in some : \A m \in some : n <= m
<1> DEFINE below(n) == 0 .. n - 1
           belows == {below(n) : n \in some}
           smaller == StrictSubsetOrdering(Nat)
<1>1. IsWellFoundedOn(smaller, FiniteSubsetsOf(Nat))
  BY FS_StrictSubsetOrderingWellFounded
<1>2. \A n \in some : IsFiniteSet(below(n)) /\ below(n) \in SUBSET Nat
  BY FS_Interval
<1>3. belows \subseteq FiniteSubsetsOf(Nat) /\ belows # {}
  BY <1>2 DEF FiniteSubsetsOf
<1> HIDE DEF smaller
<1>4. PICK x \in belows : \A y \in belows : ~ (<<y, x>> \in smaller)
  <2> HIDE DEF belows
  <2> QED
    BY <1>1, <1>3, WFMin
<1>5. PICK n \in some : x = below(n)
  OBVIOUS
<1>6. ASSUME NEW m \in some, m < n
      PROVE  FALSE
  <2>1. below(m) \subseteq below(n) /\ m \in below(n) /\ m \notin below(m)
    BY <1>6
  <2>2. <<below(m), below(n)>> \in StrictSubsetOrdering(Nat)
    <3> HIDE DEF below
    <3> QED
      BY <2>1, <1>2 DEF StrictSubsetOrdering
  <2> QED
    BY <2>2, <1>4, <1>5 DEF smaller
<1> QED
  BY <1>6


\* Induction: what holds of 0, and of n + 1 with n, holds of every number.
LEMMA EveryNumber ==
    ASSUME NEW good, 0 \in good, \A n \in Nat : n \in good => n + 1 \in good
    PROVE  Nat \subseteq good
<1> DEFINE bad == {n \in Nat : n \notin good}
<1> SUFFICES ASSUME bad # {} PROVE FALSE
  OBVIOUS
<1>1. PICK n \in bad : \A m \in bad : n <= m
  <2> HIDE DEF bad
  <2>1. bad \in SUBSET Nat
    BY DEF bad
  <2> QED
    BY <2>1, LeastNumber
<1>2. n \in Nat /\ n # 0 /\ n - 1 \in Nat
  OBVIOUS
<1>3. n - 1 \notin bad
  BY <1>1, <1>2
<1>4. (n - 1) + 1 \in good
  BY <1>2, <1>3
<1> QED
  BY <1>2, <1>4

-----------------------------------------------------------------------------
(* Selected rows *)

\* f lists, for each n up to k, what of the first n elements of s is in S.
KeepsUpTo(f, k, s, S) ==
    f = [n \in 0 .. k |->
           IF n = 0 THEN <<>> ELSE IF s[n] \in S THEN Append(f[n - 1], s[n]) ELSE f[n - 1]]
Keeps(f, s, S) == KeepsUpTo(f, Len(s), s, S)

\* A list of the first k elements can be continued.
LEMMA KeepsOneMore ==
    ASSUME NEW T, NEW s \in Seq(T), NEW S, NEW k \in Nat, k + 1 <= Len(s),
           NEW f \in [0 .. k -> Seq(T)], KeepsUpTo(f, k, s, S)
    PROVE  \E g \in [0 .. k + 1 -> Seq(T)] : KeepsUpTo(g, k + 1, s, S)
<1> DEFINE next == IF s[k + 1] \in S THEN Append(f[k], s[k + 1]) ELSE f[k]
           g == [n \in 0 .. k + 1 |-> IF n = k + 1 THEN next ELSE f[n]]
<1>1. Len(s) \in Nat /\ k + 1 \in 1 .. Len(s) /\ s[k + 1] \in T
  BY LenProperties
<1>2. next \in Seq(T)
  BY <1>1
<1> HIDE DEF next
<1>3. g \in [0 .. k + 1 -> Seq(T)]
  BY <1>2
<1>4. ASSUME NEW n \in 0 .. k + 1
      PROVE  g[n] = IF n = 0 THEN <<>>
                    ELSE IF s[n] \in S THEN Append(g[n - 1], s[n]) ELSE g[n - 1]
  <2>1. CASE n = k + 1
    <3>1. g[n] = next /\ g[n - 1] = f[k] /\ n # 0
      BY <2>1
    <3> QED
      BY <2>1, <3>1 DEF next
  <2>2. CASE n = 0
    <3>1. f[0] = <<>>
      BY DEF KeepsUpTo
    <3> QED
      BY <2>2, <3>1
  <2>3. CASE n \in 1 .. k
    <3>1. g[n] = f[n] /\ g[n - 1] = f[n - 1]
      BY <2>3
    <3>2. n \in 0 .. k /\ n # 0
      BY <2>3
    <3>3. f[n] = IF s[n] \in S THEN Append(f[n - 1], s[n]) ELSE f[n - 1]
      <4>1. f = [m \in 0 .. k |->
                   IF m = 0 THEN <<>>
                   ELSE IF s[m] \in S THEN Append(f[m - 1], s[m]) ELSE f[m - 1]]
        BY DEF KeepsUpTo
      <4> DEFINE value(m) == IF m = 0 THEN <<>>
                             ELSE IF s[m] \in S THEN Append(f[m - 1], s[m]) ELSE f[m - 1]
      <4>2. f = [m \in 0 .. k |-> value(m)]
        BY <4>1
      <4>3. f[n] = value(n)
        <5> HIDE DEF value
        <5> QED
          BY <3>2, <4>2
      <4> QED
        BY <3>2, <4>3
    <3> QED
      BY <3>1, <3>2, <3>3
  <2> QED
    BY <2>1, <2>2, <2>3
<1>5. g = [n \in 0 .. k + 1 |->
             IF n = 0 THEN <<>>
             ELSE IF s[n] \in S THEN Append(g[n - 1], s[n]) ELSE g[n - 1]]
  <2>1. g = [n \in 0 .. k + 1 |-> g[n]]
    OBVIOUS
  <2> HIDE DEF g
  <2> QED
    BY <1>4, <2>1
<1> HIDE DEF g
<1>6. KeepsUpTo(g, k + 1, s, S)
  BY <1>5 DEF KeepsUpTo
<1> QED
  BY <1>3, <1>6

\* There is such a list.
LEMMA KeepsExists ==
    ASSUME NEW T, NEW s \in Seq(T), NEW S
    PROVE  \E f \in [0 .. Len(s) -> Seq(T)] : Keeps(f, s, S)
<1> DEFINE good == {k \in Nat :
                      k <= Len(s) => \E f \in [0 .. k -> Seq(T)] : KeepsUpTo(f, k, s, S)}
<1>1. Len(s) \in Nat
  BY LenProperties
<1>2. 0 \in good
  <2> DEFINE none == [n \in 0 .. 0 |-> <<>>]
  <2>1. none \in [0 .. 0 -> Seq(T)]
    OBVIOUS
  <2>2. KeepsUpTo(none, 0, s, S)
    BY DEF KeepsUpTo
  <2> HIDE DEF none
  <2> QED
    BY <2>1, <2>2
<1>3. ASSUME NEW k \in Nat, k \in good
      PROVE  k + 1 \in good
  <2> SUFFICES ASSUME k + 1 <= Len(s)
               PROVE  \E g \in [0 .. k + 1 -> Seq(T)] : KeepsUpTo(g, k + 1, s, S)
    OBVIOUS
  <2>1. PICK f \in [0 .. k -> Seq(T)] : KeepsUpTo(f, k, s, S)
    BY <1>1, <1>3
  <2> QED
    BY <2>1, KeepsOneMore
<1> HIDE DEF good
<1>4. Nat \subseteq good
  BY <1>2, <1>3, EveryNumber
<1> QED
  BY <1>1, <1>4 DEF good, Keeps

\* What is kept of an initial part does not depend on the rest.
LEMMA KeepsTheSame ==
    ASSUME NEW s, NEW t, NEW S, NEW f, NEW g, Keeps(f, s, S), Keeps(g, t, S),
           Len(s) \in Nat, Len(t) \in Nat, Len(s) <= Len(t),
           \A n \in 1 .. Len(s) : s[n] = t[n]
    PROVE  \A n \in 0 .. Len(s) : f[n] = g[n]
<1> DEFINE good == {n \in Nat : n <= Len(s) => f[n] = g[n]}
<1>1. 0 \in good
  BY DEF Keeps, KeepsUpTo
<1>2. ASSUME NEW n \in Nat, n \in good
      PROVE  n + 1 \in good
  <2> SUFFICES ASSUME n + 1 <= Len(s)
               PROVE  f[n + 1] = g[n + 1]
    OBVIOUS
  <2>1. n + 1 \in 0 .. Len(s) /\ n + 1 \in 0 .. Len(t) /\ (n + 1) - 1 = n /\ n + 1 # 0
    OBVIOUS
  <2>2. f[n] = g[n] /\ s[n + 1] = t[n + 1]
    BY <1>2
  <2>3. /\ f[n + 1] = IF s[n + 1] \in S THEN Append(f[n], s[n + 1]) ELSE f[n]
        /\ g[n + 1] = IF t[n + 1] \in S THEN Append(g[n], t[n + 1]) ELSE g[n]
    BY <2>1 DEF Keeps, KeepsUpTo
  <2> QED
    BY <2>2, <2>3
<1> HIDE DEF good
<1>3. Nat \subseteq good
  BY <1>1, <1>2, EveryNumber
<1> QED
  BY <1>3 DEF good

\* Only is the last of the list.
LEMMA OnlyIsLast ==
    ASSUME NEW T, NEW s \in Seq(T), NEW S, NEW f, Keeps(f, s, S)
    PROVE  Only(s, S) = f[Len(s)]
<1> DEFINE upto == CHOOSE g : Keeps(g, s, S)
<1>0. Len(s) \in Nat
  BY LenProperties
<1>1. Only(s, S) = upto[Len(s)]
  BY DEF Only, Keeps, KeepsUpTo
<1>2. Keeps(upto, s, S)
  OBVIOUS
<1> HIDE DEF upto
<1>3. \A n \in 0 .. Len(s) : upto[n] = f[n]
  BY <1>0, <1>2, KeepsTheSame
<1> QED
  BY <1>0, <1>1, <1>3

\* A selection is a sequence of such elements.
LEMMA OnlyType ==
    ASSUME NEW T, NEW s \in Seq(T), NEW S
    PROVE  Only(s, S) \in Seq(T)
<1>1. PICK f \in [0 .. Len(s) -> Seq(T)] : Keeps(f, s, S)
  BY KeepsExists
<1>2. Only(s, S) = f[Len(s)]
  BY <1>1, OnlyIsLast
<1> QED
  BY <1>1, <1>2, LenProperties

\* What is not selected might as well not be there.
LEMMA OnlyIgnores ==
    ASSUME NEW T, NEW s \in Seq(T), NEW S, NEW e \in T, e \notin S
    PROVE  Only(Append(s, e), S) = Only(s, S)
<1>1. PICK more \in Seq(T) :
         /\ more = Append(s, e) /\ Len(more) = Len(s) + 1 /\ more[Len(more)] = e
         /\ \A n \in 1 .. Len(s) : s[n] = more[n]
  <2> DEFINE longer == Append(s, e)
  <2>1. /\ longer \in Seq(T) /\ Len(longer) = Len(s) + 1 /\ longer[Len(longer)] = e
        /\ \A n \in 1 .. Len(s) : s[n] = longer[n]
    BY LenProperties
  <2>2. longer = Append(s, e)
    OBVIOUS
  <2> HIDE DEF longer
  <2> QED
    BY <2>1, <2>2
<1>2. PICK f \in [0 .. Len(s) -> Seq(T)] : Keeps(f, s, S)
  BY KeepsExists
<1>3. PICK g \in [0 .. Len(more) -> Seq(T)] : Keeps(g, more, S)
  BY <1>1, KeepsExists
<1>4. g[Len(more)] = g[Len(s)]
  <2>1. /\ Len(more) \in 0 .. Len(more) /\ Len(more) # 0 /\ Len(more) - 1 = Len(s)
        /\ more[Len(more)] \notin S
    BY <1>1
  <2> QED
    BY <1>3, <2>1 DEF Keeps, KeepsUpTo
<1>5. \A n \in 0 .. Len(s) : f[n] = g[n]
  <2>1. Len(s) \in Nat
    BY LenProperties
  <2>2. Len(more) \in Nat
    BY <1>1
  <2>3. Len(s) <= Len(more)
    BY <1>1
  <2>4. \A n \in 1 .. Len(s) : s[n] = more[n]
    BY <1>1
  <2>5. Keeps(f, s, S) /\ Keeps(g, more, S)
    BY <1>2, <1>3
  <2> QED
    BY <2>1, <2>2, <2>3, <2>4, <2>5, KeepsTheSame
<1>6. Only(s, S) = f[Len(s)] /\ Only(more, S) = g[Len(more)]
  BY <1>1, <1>2, <1>3, OnlyIsLast
<1> QED
  BY <1>1, <1>4, <1>5, <1>6
-----------------------------------------------------------------------------
(* Rows on their way *)

\* A sequence, whatever it is of.
IsRows(s) == s \in Seq(ToSet(s))

\* A list with one more row is one, and its rows are the old ones and that.
LEMMA OneMoreRow ==
    ASSUME NEW s, IsRows(s), NEW e
    PROVE  IsRows(Append(s, e)) /\ ToSet(Append(s, e)) = ToSet(s) \cup {e}
<1> DEFINE T == ToSet(s) \cup {e}
           more == Append(s, e)
<1>1. s \in Seq(T)
  <2>1. s \in Seq(ToSet(s)) /\ ToSet(s) \subseteq T
    BY DEF IsRows
  <2> HIDE DEF T
  <2> QED
    BY <2>1
<1>2. /\ more \in Seq(T) /\ Len(s) \in Nat /\ Len(more) = Len(s) + 1 /\ more[Len(s) + 1] = e
      /\ DOMAIN s = 1 .. Len(s) /\ DOMAIN more = 1 .. Len(more)
      /\ \A n \in 1 .. Len(s) : more[n] = s[n]
  BY <1>1, LenProperties
<1>3. ToSet(more) = T
  <2> HIDE DEF more
  <2> QED
    BY <1>2 DEF ToSet
<1> HIDE DEF more
<1>4. IsRows(more)
  BY <1>2, <1>3 DEF IsRows
<1> QED
  BY <1>3, <1>4 DEF more

\* A row that does not fit does not change what is selected.
LEMMA UnfitRow ==
    ASSUME NEW s, IsRows(s), NEW e, NEW S, e \notin S
    PROVE  Only(Append(s, e), S) = Only(s, S)
<1> DEFINE T == ToSet(s) \cup {e}
<1>1. s \in Seq(ToSet(s)) /\ ToSet(s) \subseteq T /\ e \in T
  BY DEF IsRows
<1> HIDE DEF T
<1>2. s \in Seq(T)
  BY <1>1
<1> QED
  BY <1>1, <1>2, OnlyIgnores

\* What a step does to a table of the replay: it leaves it alone, or adds a later row.
Grows(old, new, moment) ==
    \/ new = old
    \/ IsRows(old) /\ \E e : new = Append(old, e) /\ ~ (e.at <= moment)

\* A query until a moment does not see a later row: each of the five that a replay makes.
LEMMA LaterSignal ==
    ASSUME NEW s, NEW u, NEW moment, Grows(s, u, moment), NEW scope, NEW q,
           q.until = {moment}, NEW least
    PROVE  ListSignals(u, scope, q, least) = ListSignals(s, scope, q, least)
<1> DEFINE fit(rows) == {r \in rows : /\ InScope(r, scope) /\ Between(r, q)
                                      /\ Given(q.market, LAMBDA m : r.market = m)
                                      /\ r.score >= least}
<1> SUFFICES ASSUME u # s
             PROVE  ListSignals(u, scope, q, least) = ListSignals(s, scope, q, least)
  OBVIOUS
<1>0. PICK e : IsRows(s) /\ u = Append(s, e) /\ ~ (e.at <= moment)
  BY DEF Grows
<1>1. ToSet(Append(s, e)) = ToSet(s) \cup {e}
  BY <1>0, OneMoreRow
<1>2. ~ Between(e, q)
  BY <1>0 DEF Between, Given
<1>3. fit(ToSet(Append(s, e))) = fit(ToSet(s)) /\ e \notin fit(ToSet(s))
  BY <1>1, <1>2
<1>4. Only(Append(s, e), fit(ToSet(s))) = Only(s, fit(ToSet(s)))
  <2> HIDE DEF fit
  <2> QED
    BY <1>0, <1>3, UnfitRow
<1>5. \A table : ListSignals(table, scope, q, least)
                   = Strongest(Only(table, fit(ToSet(table))), q.limit)
  BY DEF ListSignals, RowsWhere
<1> HIDE DEF fit
<1> QED
  BY <1>0, <1>3, <1>4, <1>5

\* The same of the impacts.
LEMMA LaterImpact ==
    ASSUME NEW s, NEW u, NEW moment, Grows(s, u, moment), NEW scope, NEW q,
           q.until = {moment}, NEW signal
    PROVE  ListImpacts(u, scope, q, signal) = ListImpacts(s, scope, q, signal)
<1> DEFINE fit(rows) == {r \in rows : /\ InScope(r, scope)
                                      /\ Between(r, q)
                                      /\ Given(signal, LAMBDA m : r.signal = m)}
<1> SUFFICES ASSUME u # s
             PROVE  ListImpacts(u, scope, q, signal) = ListImpacts(s, scope, q, signal)
  OBVIOUS
<1>0. PICK e : IsRows(s) /\ u = Append(s, e) /\ ~ (e.at <= moment)
  BY DEF Grows
<1>1. ToSet(Append(s, e)) = ToSet(s) \cup {e}
  BY <1>0, OneMoreRow
<1>2. ~ Between(e, q)
  BY <1>0 DEF Between, Given
<1>3. fit(ToSet(Append(s, e))) = fit(ToSet(s)) /\ e \notin fit(ToSet(s))
  BY <1>1, <1>2
<1>4. Only(Append(s, e), fit(ToSet(s))) = Only(s, fit(ToSet(s)))
  <2> HIDE DEF fit
  <2> QED
    BY <1>0, <1>3, UnfitRow
<1>5. \A table : ListImpacts(table, scope, q, signal)
                   = Newest(Only(table, fit(ToSet(table))), q.limit)
  BY DEF ListImpacts, RowsWhere
<1> HIDE DEF fit
<1> QED
  BY <1>0, <1>3, <1>4, <1>5

\* The same of the views.
LEMMA LaterView ==
    ASSUME NEW s, NEW u, NEW moment, Grows(s, u, moment), NEW scope, NEW q,
           q.until = {moment}, NEW type
    PROVE  ListViews(u, scope, q, type) = ListViews(s, scope, q, type)
<1> DEFINE fit(rows) == {r \in rows : /\ InScope(r, scope)
                                      /\ Between(r, q)
                                      /\ Given(q.market, LAMBDA m : r.market = m)
                                      /\ Given(type, LAMBDA m : r.target = m)}
<1> SUFFICES ASSUME u # s
             PROVE  ListViews(u, scope, q, type) = ListViews(s, scope, q, type)
  OBVIOUS
<1>0. PICK e : IsRows(s) /\ u = Append(s, e) /\ ~ (e.at <= moment)
  BY DEF Grows
<1>1. ToSet(Append(s, e)) = ToSet(s) \cup {e}
  BY <1>0, OneMoreRow
<1>2. ~ Between(e, q)
  BY <1>0 DEF Between, Given
<1>3. fit(ToSet(Append(s, e))) = fit(ToSet(s)) /\ e \notin fit(ToSet(s))
  BY <1>1, <1>2
<1>4. Only(Append(s, e), fit(ToSet(s))) = Only(s, fit(ToSet(s)))
  <2> HIDE DEF fit
  <2> QED
    BY <1>0, <1>3, UnfitRow
<1>5. \A table : ListViews(table, scope, q, type)
                   = Newest(Only(table, fit(ToSet(table))), q.limit)
  BY DEF ListViews, RowsWhere
<1> HIDE DEF fit
<1> QED
  BY <1>0, <1>3, <1>4, <1>5

\* The same of the scenario runs.
LEMMA LaterRun ==
    ASSUME NEW s, NEW u, NEW moment, Grows(s, u, moment), NEW scope, NEW q, q.until = {moment}
    PROVE  ListScenarioRuns(u, scope, q) = ListScenarioRuns(s, scope, q)
<1> DEFINE fit(rows) == {r \in rows : /\ InScope(r, scope)
                                      /\ Between(r, q)}
<1> SUFFICES ASSUME u # s
             PROVE  ListScenarioRuns(u, scope, q) = ListScenarioRuns(s, scope, q)
  OBVIOUS
<1>0. PICK e : IsRows(s) /\ u = Append(s, e) /\ ~ (e.at <= moment)
  BY DEF Grows
<1>1. ToSet(Append(s, e)) = ToSet(s) \cup {e}
  BY <1>0, OneMoreRow
<1>2. ~ Between(e, q)
  BY <1>0 DEF Between, Given
<1>3. fit(ToSet(Append(s, e))) = fit(ToSet(s)) /\ e \notin fit(ToSet(s))
  BY <1>1, <1>2
<1>4. Only(Append(s, e), fit(ToSet(s))) = Only(s, fit(ToSet(s)))
  <2> HIDE DEF fit
  <2> QED
    BY <1>0, <1>3, UnfitRow
<1>5. \A table : ListScenarioRuns(table, scope, q)
                   = Newest(Only(table, fit(ToSet(table))), q.limit)
  BY DEF ListScenarioRuns, RowsWhere
<1> HIDE DEF fit
<1> QED
  BY <1>0, <1>3, <1>4, <1>5

\* The same of the memories.
LEMMA LaterMemory ==
    ASSUME NEW s, NEW u, NEW moment, Grows(s, u, moment), NEW scope, NEW q,
           q.until = {moment}, NEW type
    PROVE  ListMemories(u, scope, q, type) = ListMemories(s, scope, q, type)
<1> DEFINE fit(rows) == {r \in rows : /\ InScope(r, scope)
                                      /\ Between(r, q)
                                      /\ Given(q.market, LAMBDA m : r.market = m)
                                      /\ Given(type, LAMBDA m : r.type = m)}
<1> SUFFICES ASSUME u # s
             PROVE  ListMemories(u, scope, q, type) = ListMemories(s, scope, q, type)
  OBVIOUS
<1>0. PICK e : IsRows(s) /\ u = Append(s, e) /\ ~ (e.at <= moment)
  BY DEF Grows
<1>1. ToSet(Append(s, e)) = ToSet(s) \cup {e}
  BY <1>0, OneMoreRow
<1>2. ~ Between(e, q)
  BY <1>0 DEF Between, Given
<1>3. fit(ToSet(Append(s, e))) = fit(ToSet(s)) /\ e \notin fit(ToSet(s))
  BY <1>1, <1>2
<1>4. Only(Append(s, e), fit(ToSet(s))) = Only(s, fit(ToSet(s)))
  <2> HIDE DEF fit
  <2> QED
    BY <1>0, <1>3, UnfitRow
<1>5. \A table : ListMemories(table, scope, q, type)
                   = Newest(Only(table, fit(ToSet(table))), q.limit)
  BY DEF ListMemories, RowsWhere
<1> HIDE DEF fit
<1> QED
  BY <1>0, <1>3, <1>4, <1>5

\* The tables that a replay reads.
Replayed == {"signals", "impacts", "views", "runs", "memories"}

\* A replay keeps its answer while no table gets a row of its period.
LEMMA ReplayKeepsItsAnswer ==
    ASSUME NEW old, NEW new, NEW moment, NEW scope, NEW limit,
           \A t \in Replayed : Grows(old[t], new[t], moment)
    PROVE  AsOf(new, scope, Market, moment, limit) = AsOf(old, scope, Market, moment, limit)
<1> DEFINE q == [market |-> {Market}, since |-> {}, until |-> {moment}, limit |-> limit]
<1>1. /\ Grows(old.signals, new.signals, moment) /\ Grows(old.impacts, new.impacts, moment)
      /\ Grows(old.views, new.views, moment) /\ Grows(old.runs, new.runs, moment)
      /\ Grows(old.memories, new.memories, moment)
  BY DEF Replayed
<1>2. q.until = {moment}
  OBVIOUS
<1> HIDE DEF q
<1>3. ListSignals(new.signals, scope, q, 0) = ListSignals(old.signals, scope, q, 0)
  BY <1>1, <1>2, LaterSignal
<1>4. ListImpacts(new.impacts, scope, q, {}) = ListImpacts(old.impacts, scope, q, {})
  BY <1>1, <1>2, LaterImpact
<1>5. ListViews(new.views, scope, q, {}) = ListViews(old.views, scope, q, {})
  BY <1>1, <1>2, LaterView
<1>6. ListScenarioRuns(new.runs, scope, q) = ListScenarioRuns(old.runs, scope, q)
  BY <1>1, <1>2, LaterRun
<1>7. ListMemories(new.memories, scope, q, {}) = ListMemories(old.memories, scope, q, {})
  BY <1>1, <1>2, LaterMemory
<1>8. \A tables_ : AsOf(tables_, scope, Market, moment, limit)
        = Assembled(ListSignals(tables_.signals, scope, q, 0),
                    ListImpacts(tables_.impacts, scope, q, {}),
                    ListViews(tables_.views, scope, q, {}),
                    ListScenarioRuns(tables_.runs, scope, q),
                    ListMemories(tables_.memories, scope, q, {}))
  BY DEF AsOf, q
<1> QED
  BY <1>3, <1>4, <1>5, <1>6, <1>7, <1>8
-----------------------------------------------------------------------------
(* Lists *)

\* A function on 1 .. n is a list of n elements.
LEMMA ListOf ==
    ASSUME NEW n \in Nat, NEW s, DOMAIN s = 1 .. n, s = [i \in 1 .. n |-> s[i]]
    PROVE  IsRows(s) /\ Len(s) = n
<1>1. s \in [1 .. n -> ToSet(s)]
  BY DEF ToSet
<1> QED
  BY <1>1 DEF IsRows

\* Every sequence is one of its own elements.
LEMMA AnyRows ==
    ASSUME NEW T, NEW s \in Seq(T)
    PROVE  IsRows(s)
<1>1. Len(s) \in Nat /\ DOMAIN s = 1 .. Len(s) /\ s = [i \in 1 .. Len(s) |-> s[i]]
  BY LenProperties
<1> QED
  BY <1>1, ListOf

\* An optional value is a list of at most one element.
LEMMA ListedRows ==
    ASSUME NEW option
    PROVE  /\ IsRows(Listed(option))
           /\ option # {} => Listed(option) # <<>> /\ Listed(option) \in Seq(option)
           /\ option = {} => Listed(option) = <<>>
<1>1. CASE option = {}
  <2>1. Listed(option) = <<>>
    BY <1>1 DEF Listed
  <2>2. Listed(option) \in Seq(option)
    BY <2>1
  <2> QED
    BY <1>1, <2>1, <2>2, AnyRows
<1>2. CASE option # {}
  <2>1. PICK x \in option : x = CHOOSE y \in option : TRUE
    BY <1>2
  <2>2. Listed(option) = <<x>>
    BY <1>2, <2>1 DEF Listed
  <2>3. <<x>> \in Seq(option) /\ <<x>> # <<>>
    OBVIOUS
  <2> QED
    BY <1>2, <2>2, <2>3, AnyRows
<1> QED
  BY <1>1, <1>2

\* One list after another.
LEMMA JoinedRows ==
    ASSUME NEW s, NEW u, IsRows(s), IsRows(u)
    PROVE  IsRows(s \o u) /\ (s \o u = <<>> => s = <<>> /\ u = <<>>)
<1> DEFINE T == ToSet(s) \cup ToSet(u)
<1>1. s \in Seq(T) /\ u \in Seq(T)
  <2>1. s \in Seq(ToSet(s)) /\ u \in Seq(ToSet(u)) /\ ToSet(s) \subseteq T /\ ToSet(u) \subseteq T
    BY DEF IsRows
  <2> HIDE DEF T
  <2> QED
    BY <2>1
<1> HIDE DEF T
<1>2. s \o u \in Seq(T) /\ Len(s \o u) = Len(s) + Len(u)
  BY <1>1
<1>3. s \o u = <<>> => s = <<>> /\ u = <<>>
  BY <1>1, <1>2
<1> QED
  BY <1>2, <1>3, AnyRows

\* The first and the rest.
LEMMA RestOfRows ==
    ASSUME NEW s, IsRows(s), s # <<>>
    PROVE  /\ IsRows(Tail(s)) /\ (Len(s) = 1 <=> Tail(s) = <<>>)
           /\ Head(s) = s[1] /\ 1 \in DOMAIN s
           /\ DOMAIN s = 1 .. Len(s) /\ Len(s) \in Nat
           /\ DOMAIN Tail(s) = 1 .. Len(s) - 1
           /\ \A i \in 1 .. Len(s) - 1 : Tail(s)[i] = s[i + 1]
<1>1. s \in Seq(ToSet(s))
  BY DEF IsRows
<1>2. Tail(s) \in Seq(ToSet(s)) /\ Len(s) \in Nat /\ Len(s) # 0 /\ DOMAIN s = 1 .. Len(s)
  BY <1>1, LenProperties, EmptySeq
<1>3. Len(Tail(s)) = Len(s) - 1
  BY <1>1, <1>2
<1>4. DOMAIN Tail(s) = 1 .. Len(s) - 1
  BY <1>2, <1>3, LenProperties
<1>5. \A i \in 1 .. Len(s) - 1 : Tail(s)[i] = s[i + 1]
  BY <1>1, <1>2
<1>6. Len(s) = 1 <=> Tail(s) = <<>>
  BY <1>2, <1>3
<1>7. IsRows(Tail(s))
  BY <1>2, AnyRows
<1>8. Head(s) = s[1] /\ 1 \in DOMAIN s
  BY <1>1, <1>2
<1> QED
  BY <1>2, <1>4, <1>5, <1>6, <1>7, <1>8

-----------------------------------------------------------------------------
(* What a step does to the jobs and to the tables *)

\* The steps of a job that commit the first of the rows that it holds.
Saving == {"signal", "impact", "view", "compose", "run", "memory", "lesson"}

TableNames == {"signals", "impacts", "views", "runs", "memories", "lessons", "briefs",
               "forecasts"}
AllTables(rows) == rows = [t \in TableNames |-> rows[t]]
AllJobs(jobs) ==
    jobs = [j \in Jobs |-> [pc |-> jobs[j].pc, sight |-> jobs[j].sight, base |-> jobs[j].base,
                            held |-> jobs[j].held]]

(***************************************************************************)
(* The tables are sequences, and so is what a job holds while it has rows  *)
(* to save: there is one as long as there is something to do.              *)
(***************************************************************************)
RowsAreHeld ==
    /\ AllJobs(job)
    /\ AllTables(tables)
    /\ \A t \in Replayed : IsRows(tables[t])
    /\ \A j \in Jobs : job[j].pc \in Saving \cup {"detected"} => IsRows(job[j].held)
    /\ \A j \in Jobs : job[j].pc \in Saving => job[j].held # <<>>

\* Job j goes on to pc with these rows; the others stay where they are.
Moved(j, pc, rows) ==
    /\ AllJobs(job')
    /\ job'[j].pc = pc /\ job'[j].held = rows
    /\ \A i \in Jobs \ {j} : job'[i] = job[i]

\* A job with one column changed.
WithPc(jobs, j, v) == [jobs EXCEPT ![j].pc = v]
WithSight(jobs, j, v) == [jobs EXCEPT ![j].sight = v]
WithBase(jobs, j, v) == [jobs EXCEPT ![j].base = v]
WithHeld(jobs, j, v) == [jobs EXCEPT ![j].held = v]

\* One column of a job changes: pc.
LEMMA PcColumn ==
    ASSUME NEW jobs, AllJobs(jobs), NEW j \in Jobs, NEW v
    PROVE  LET new == WithPc(jobs, j, v) IN
           /\ AllJobs(new) /\ \A i \in Jobs \ {j} : new[i] = jobs[i]
           /\ new[j].pc = v /\ new[j].sight = jobs[j].sight
           /\ new[j].base = jobs[j].base /\ new[j].held = jobs[j].held
<1> DEFINE new == WithPc(jobs, j, v)
<1>1. new = [i \in Jobs |-> IF i = j THEN
                              [pc |-> v, sight |-> jobs[j].sight,
                               base |-> jobs[j].base, held |-> jobs[j].held]
                            ELSE jobs[i]]
  BY DEF AllJobs, WithPc
<1> HIDE DEF new
<1>2. AllJobs(new)
  BY <1>1 DEF AllJobs
<1> QED
  BY <1>1, <1>2 DEF new

\* One column of a job changes: sight.
LEMMA SightColumn ==
    ASSUME NEW jobs, AllJobs(jobs), NEW j \in Jobs, NEW v
    PROVE  LET new == WithSight(jobs, j, v) IN
           /\ AllJobs(new) /\ \A i \in Jobs \ {j} : new[i] = jobs[i]
           /\ new[j].pc = jobs[j].pc /\ new[j].sight = v
           /\ new[j].base = jobs[j].base /\ new[j].held = jobs[j].held
<1> DEFINE new == WithSight(jobs, j, v)
<1>1. new = [i \in Jobs |-> IF i = j THEN
                              [pc |-> jobs[j].pc, sight |-> v,
                               base |-> jobs[j].base, held |-> jobs[j].held]
                            ELSE jobs[i]]
  BY DEF AllJobs, WithSight
<1> HIDE DEF new
<1>2. AllJobs(new)
  BY <1>1 DEF AllJobs
<1> QED
  BY <1>1, <1>2 DEF new

\* One column of a job changes: base.
LEMMA BaseColumn ==
    ASSUME NEW jobs, AllJobs(jobs), NEW j \in Jobs, NEW v
    PROVE  LET new == WithBase(jobs, j, v) IN
           /\ AllJobs(new) /\ \A i \in Jobs \ {j} : new[i] = jobs[i]
           /\ new[j].pc = jobs[j].pc /\ new[j].sight = jobs[j].sight
           /\ new[j].base = v /\ new[j].held = jobs[j].held
<1> DEFINE new == WithBase(jobs, j, v)
<1>1. new = [i \in Jobs |-> IF i = j THEN
                              [pc |-> jobs[j].pc, sight |-> jobs[j].sight,
                               base |-> v, held |-> jobs[j].held]
                            ELSE jobs[i]]
  BY DEF AllJobs, WithBase
<1> HIDE DEF new
<1>2. AllJobs(new)
  BY <1>1 DEF AllJobs
<1> QED
  BY <1>1, <1>2 DEF new

\* One column of a job changes: held.
LEMMA HeldColumn ==
    ASSUME NEW jobs, AllJobs(jobs), NEW j \in Jobs, NEW v
    PROVE  LET new == WithHeld(jobs, j, v) IN
           /\ AllJobs(new) /\ \A i \in Jobs \ {j} : new[i] = jobs[i]
           /\ new[j].pc = jobs[j].pc /\ new[j].sight = jobs[j].sight
           /\ new[j].base = jobs[j].base /\ new[j].held = v
<1> DEFINE new == WithHeld(jobs, j, v)
<1>1. new = [i \in Jobs |-> IF i = j THEN
                              [pc |-> jobs[j].pc, sight |-> jobs[j].sight,
                               base |-> jobs[j].base, held |-> v]
                            ELSE jobs[i]]
  BY DEF AllJobs, WithHeld
<1> HIDE DEF new
<1>2. AllJobs(new)
  BY <1>1 DEF AllJobs
<1> QED
  BY <1>1, <1>2 DEF new

\* Holding and Goto move a job; what else it holds stays.
LEMMA HoldingMoves ==
    ASSUME AllJobs(job), NEW j \in Jobs, NEW pc, NEW rows, Holding(j, pc, rows)
    PROVE  Moved(j, pc, rows)
<1> DEFINE once == WithPc(job, j, pc)
<1>1. job' = WithHeld(once, j, rows)
  BY DEF Holding, WithPc, WithHeld
<1>2. AllJobs(once) /\ once[j].pc = pc /\ \A i \in Jobs \ {j} : once[i] = job[i]
  BY PcColumn
<1> HIDE DEF once
<1> QED
  BY <1>1, <1>2, HeldColumn DEF Moved

\* The same of Goto: the rows stay.
LEMMA GotoMoves ==
    ASSUME AllJobs(job), NEW j \in Jobs, NEW pc, Goto(j, pc)
    PROVE  Moved(j, pc, job[j].held)
<1>1. job' = WithPc(job, j, pc)
  BY DEF Goto, WithPc
<1> QED
  BY <1>1, PcColumn DEF Moved

\* Each table of the replay is left alone, or gets the first row of a job that holds some,
\* which is not a job at its brief.
Adds(j, t) ==
    /\ Running(j) /\ ~At(j, "query") /\ ~At(j, "compose")
    /\ IsRows(job[j].held) /\ job[j].held # <<>>
    /\ tables'[t] = Append(tables[t], Head(job[j].held))
TablesFollow ==
    /\ AllTables(tables')
    /\ \A t \in Replayed : tables'[t] = tables[t] \/ \E j \in Jobs : Adds(j, t)

\* The commit of the first row held.
LEMMA SavingFollows ==
    ASSUME RowsAreHeld, NEW j \in Jobs, job[j].pc \in Saving \ {"compose"}, NEW t \in TableNames,
           tables' = [tables EXCEPT ![t] = Append(@, Head(job[j].held))]
    PROVE  TablesFollow
<1>1. /\ Running(j) /\ ~At(j, "query") /\ ~At(j, "compose")
      /\ IsRows(job[j].held) /\ job[j].held # <<>>
  BY DEF RowsAreHeld, Saving, Running, At
<1>2. tables' = [u \in TableNames |-> IF u = t THEN Append(tables[t], Head(job[j].held))
                                      ELSE tables[u]]
  BY DEF RowsAreHeld, AllTables
<1>3. AllTables(tables')
  BY <1>2 DEF AllTables
<1>4. Replayed \subseteq TableNames
  BY DEF Replayed, TableNames
<1> QED
  BY <1>1, <1>2, <1>3, <1>4 DEF TablesFollow, Adds

\* A write to a table that no replay reads.
LEMMA OtherTablesFollow ==
    ASSUME RowsAreHeld, NEW t \in TableNames \ Replayed, NEW rows,
           tables' = [tables EXCEPT ![t] = rows]
    PROVE  TablesFollow
<1>1. tables' = [u \in TableNames |-> IF u = t THEN rows ELSE tables[u]]
  BY DEF RowsAreHeld, AllTables
<1>2. AllTables(tables')
  BY <1>1 DEF AllTables
<1>3. Replayed \subseteq TableNames
  BY DEF Replayed, TableNames
<1> QED
  BY <1>1, <1>2, <1>3 DEF TablesFollow

\* RowsAreHeld holds after a step if the job that moves has rows as it should.
LEMMA StillHeld ==
    ASSUME RowsAreHeld, TablesFollow, NEW j \in Jobs, NEW pc, NEW rows, Moved(j, pc, rows),
           pc \in Saving \cup {"detected"} => IsRows(rows),
           pc \in Saving => rows # <<>>
    PROVE  RowsAreHeld'
<1>1. \A t \in Replayed : IsRows(tables'[t])
  <2> TAKE t \in Replayed
  <2>1. IsRows(tables[t])
    BY DEF RowsAreHeld
  <2>2. CASE tables'[t] = tables[t]
    BY <2>1, <2>2
  <2>3. CASE \E i \in Jobs : Adds(i, t)
    BY <2>1, <2>3, OneMoreRow DEF Adds
  <2> QED
    BY <2>2, <2>3 DEF TablesFollow
<1>2. \A i \in Jobs : /\ job'[i].pc \in Saving \cup {"detected"} => IsRows(job'[i].held)
                      /\ job'[i].pc \in Saving => job'[i].held # <<>>
  <2> TAKE i \in Jobs
  <2>1. CASE i = j
    BY <2>1 DEF Moved
  <2>2. CASE i # j
    BY <2>2 DEF Moved, RowsAreHeld
  <2> QED
    BY <2>1, <2>2
<1>3. AllJobs(job') /\ AllTables(tables')
  BY DEF Moved, TablesFollow
<1> QED
  BY <1>1, <1>2, <1>3 DEF RowsAreHeld

\* The rows built from n detected signals are a list.
LEMMA DetectedRows ==
    ASSUME NEW base, NEW seen
    PROVE  /\ DOMAIN DetectedSignals(base, seen) = 1 .. Len(DetectedSignals(base, seen))
           /\ Len(DetectedSignals(base, seen)) \in Nat
<1> DEFINE order == Metrics \o <<"AGENT_DISAGREEMENT">> \o Limits
           names == {"MARKET", "STORAGE", "WEATHER", "SUPPLY", "DEMAND", "LNG", "POWER_MARKET",
                     "PIPELINE", "PORTFOLIO", "AGENT_DISAGREEMENT", "DAILY_LOSS", "DRAWDOWN"}
           chosen == {k \in Keys : KeySignals(k, base[k], seen) # {}}
           firing == Only(order, chosen)
           found == DetectedSignals(base, seen)
<1>1. order \in Seq(names)
  <2>1. Metrics \in Seq(names)
    BY DEF Metrics
  <2>2. Limits \in Seq(names)
    BY DEF Limits
  <2>3. <<"AGENT_DISAGREEMENT">> \in Seq(names)
    OBVIOUS
  <2> HIDE DEF names
  <2> QED
    BY <2>1, <2>2, <2>3
<1>2. firing \in Seq(names)
  <2> HIDE DEF order, chosen, names
  <2> QED
    BY <1>1, OnlyType
<1>3. DOMAIN firing = 1 .. Len(firing) /\ Len(firing) \in Nat
  <2> HIDE DEF firing
  <2> QED
    BY <1>2, LenProperties
<1>5. found = [i \in DOMAIN firing |->
                  CHOOSE s \in KeySignals(firing[i], base[firing[i]], seen) : TRUE]
  BY DEF DetectedSignals
<1>6. DOMAIN found = 1 .. Len(firing)
  <2> HIDE DEF found, firing
  <2> QED
    BY <1>3, <1>5
<1>7. IsRows(found) /\ Len(found) = Len(firing)
  <2>1. found = [i \in 1 .. Len(firing) |-> found[i]]
    <3> HIDE DEF firing
    <3> QED
      BY <1>3, <1>5
  <2> HIDE DEF found, firing
  <2> QED
    BY <1>3, <1>6, <2>1, ListOf
<1> HIDE DEF found, firing
<1>8. DOMAIN found = 1 .. Len(found) /\ Len(found) \in Nat
  BY <1>3, <1>6, <1>7
<1> QED
  BY <1>8 DEF found

\* The standing library is a list, not an empty one.
LEMMA LibraryRows ==
    DOMAIN Library = 1 .. 14
BY DEF Library

\* A cycle begins.
LEMMA StartResearchHolds ==
    ASSUME RowsAreHeld, NEW j \in Jobs, StartResearch(j)
    PROVE  RowsAreHeld' /\ TablesFollow
<1>0. AllJobs(job) /\ AllTables(tables)
  BY DEF RowsAreHeld
<1>1. TablesFollow
  BY <1>0 DEF StartResearch, TablesFollow
<1>2. Moved(j, "baselines", job[j].held)
  <2>1. PICK sight : job' = [job EXCEPT ![j].pc = "baselines", ![j].sight = Seen(j, sight)]
    BY DEF StartResearch
  <2> DEFINE once == WithPc(job, j, "baselines")
  <2>2. job' = WithSight(once, j, Seen(j, sight))
    BY <2>1 DEF WithPc, WithSight
  <2>3. /\ AllJobs(once) /\ once[j].pc = "baselines" /\ once[j].held = job[j].held
        /\ \A i \in Jobs \ {j} : once[i] = job[i]
    BY <1>0, PcColumn
  <2> HIDE DEF once
  <2> QED
    BY <2>2, <2>3, SightColumn DEF Moved
<1>3. "baselines" \notin Saving \cup {"detected"}
  BY DEF Saving
<1> QED
  BY <1>1, <1>2, <1>3, StillHeld

\* The signals of a cycle are found.
LEMMA ReadBaselinesHolds ==
    ASSUME RowsAreHeld, NEW j \in Jobs, ReadBaselines(j)
    PROVE  RowsAreHeld' /\ TablesFollow
<1>0. AllJobs(job) /\ AllTables(tables)
  BY DEF RowsAreHeld
<1>1. TablesFollow
  BY <1>0 DEF ReadBaselines, TablesFollow
<1> DEFINE found == DetectedSignals(baselines, job[j].sight)
           rows == [i \in DOMAIN found |-> Stamp(<<j, i>>, found[i])]
<1>2. Moved(j, "detected", rows)
  <2>1. job' = [job EXCEPT ![j].pc = "detected", ![j].base = baselines, ![j].held = rows]
    BY DEF ReadBaselines
  <2> HIDE DEF rows
  <2> DEFINE once == WithPc(job, j, "detected")
             twice == WithBase(once, j, baselines)
  <2>2. job' = WithHeld(twice, j, rows)
    BY <2>1 DEF WithPc, WithBase, WithHeld
  <2>3. AllJobs(once) /\ once[j].pc = "detected" /\ \A i \in Jobs \ {j} : once[i] = job[i]
    BY <1>0, PcColumn
  <2> HIDE DEF once
  <2>4. AllJobs(twice) /\ twice[j].pc = "detected" /\ \A i \in Jobs \ {j} : twice[i] = job[i]
    BY <2>3, BaseColumn
  <2> HIDE DEF twice
  <2> QED
    BY <2>2, <2>4, HeldColumn DEF Moved
<1>3. IsRows(rows)
  <2>1. DOMAIN found = 1 .. Len(found) /\ Len(found) \in Nat
    <3> HIDE DEF found
    <3> QED
      BY DetectedRows DEF found
  <2> HIDE DEF found
  <2>2. DOMAIN rows = 1 .. Len(found) /\ rows = [i \in 1 .. Len(found) |-> rows[i]]
    BY <2>1
  <2> HIDE DEF rows
  <2> QED
    BY <2>1, <2>2, ListOf
<1>4. "detected" \notin Saving
  BY DEF Saving
<1> HIDE DEF rows
<1> QED
  BY <1>1, <1>2, <1>3, <1>4, StillHeld

\* The baselines are saved.
LEMMA SaveBaselinesHolds ==
    ASSUME RowsAreHeld, NEW j \in Jobs, SaveBaselines(j)
    PROVE  RowsAreHeld' /\ TablesFollow
<1>0. AllJobs(job) /\ AllTables(tables)
  BY DEF RowsAreHeld
<1>1. TablesFollow
  BY <1>0 DEF SaveBaselines, TablesFollow
<1>2. Moved(j, IF job[j].held = <<>> THEN AfterSignals(j) ELSE "signal", job[j].held)
  BY <1>0, GotoMoves DEF SaveBaselines
<1>3. IsRows(job[j].held) /\ AfterSignals(j) \notin Saving \cup {"detected"}
  BY DEF SaveBaselines, RowsAreHeld, Saving, At, AfterSignals
<1> QED
  BY <1>1, <1>2, <1>3, StillHeld

\* A signal is saved, its impact built.
LEMMA SaveSignalHolds ==
    ASSUME RowsAreHeld, NEW j \in Jobs, SaveSignal(j)
    PROVE  RowsAreHeld' /\ TablesFollow
<1>0. AllJobs(job) /\ AllTables(tables)
  BY DEF RowsAreHeld
<1>1. TablesFollow
  <2>1. /\ job[j].pc \in Saving \ {"compose"}
        /\ tables' = [tables EXCEPT !["signals"] = Append(@, Head(job[j].held))]
    BY DEF SaveSignal, At, Saving, InsertSignal
  <2>2. "signals" \in TableNames
    BY DEF TableNames
  <2> QED
    BY <2>1, <2>2, SavingFollows
<1>2. Moved(j, "impact",
            <<Stamp(Head(job[j].held).id, Analysis(Head(job[j].held)))>> \o Tail(job[j].held))
  BY <1>0, HoldingMoves DEF SaveSignal
<1>3. job[j].pc \in Saving
  BY DEF SaveSignal, At, Saving
<1>4. /\ IsRows(job[j].held) /\ IsRows(Tail(job[j].held))
      /\ Len(job[j].held) = 1 <=> Tail(job[j].held) = <<>>
  BY <1>3, RestOfRows DEF RowsAreHeld
<1> DEFINE impact == Stamp(Head(job[j].held).id, Analysis(Head(job[j].held)))
<1> HIDE DEF impact
<1>5. IsRows(<<impact>>) /\ <<impact>> # <<>>
  <2>1. <<impact>> \in Seq({impact}) /\ <<impact>> # <<>>
    OBVIOUS
  <2> QED
    BY <2>1, AnyRows
<1>6. IsRows(<<impact>> \o Tail(job[j].held)) /\ <<impact>> \o Tail(job[j].held) # <<>>
  BY <1>4, <1>5, JoinedRows
<1>7. Moved(j, "impact", <<impact>> \o Tail(job[j].held))
  BY <1>2 DEF impact
<1> QED
  BY <1>1, <1>6, <1>7, StillHeld

\* An impact is saved; another signal, if there is one.
LEMMA SaveImpactHolds ==
    ASSUME RowsAreHeld, NEW j \in Jobs, SaveImpact(j)
    PROVE  RowsAreHeld' /\ TablesFollow
<1>0. AllJobs(job) /\ AllTables(tables)
  BY DEF RowsAreHeld
<1>1. TablesFollow
  <2>1. /\ job[j].pc \in Saving \ {"compose"}
        /\ tables' = [tables EXCEPT !["impacts"] = Append(@, Head(job[j].held))]
    BY DEF SaveImpact, At, Saving, InsertImpact
  <2>2. "impacts" \in TableNames
    BY DEF TableNames
  <2> QED
    BY <2>1, <2>2, SavingFollows
<1>2. Moved(j, IF Len(job[j].held) = 1 THEN AfterSignals(j) ELSE "signal", Tail(job[j].held))
  BY <1>0, HoldingMoves DEF SaveImpact
<1>3. job[j].pc \in Saving
  BY DEF SaveImpact, At, Saving
<1>4. /\ IsRows(job[j].held) /\ IsRows(Tail(job[j].held))
      /\ Len(job[j].held) = 1 <=> Tail(job[j].held) = <<>>
  BY <1>3, RestOfRows DEF RowsAreHeld
<1>5. AfterSignals(j) \notin Saving \cup {"detected"}
  BY DEF Saving, AfterSignals
<1> QED
  BY <1>1, <1>2, <1>4, <1>5, StillHeld

\* The views of a cycle are built.
LEMMA RunQuantHolds ==
    ASSUME RowsAreHeld, NEW j \in Jobs, RunQuant(j)
    PROVE  RowsAreHeld' /\ TablesFollow
<1>0. AllJobs(job) /\ AllTables(tables)
  BY DEF RowsAreHeld
<1>1. TablesFollow
  <2>1. PICK rows : tables' = [tables EXCEPT !["forecasts"] = tables["forecasts"] \o rows]
    BY DEF RunQuant, InsertForecasts
  <2>2. "forecasts" \in TableNames \ Replayed
    BY DEF TableNames, Replayed
  <2> QED
    BY <2>1, <2>2, OtherTablesFollow
<1>2. PICK first, second :
         LET views == Listed(first) \o Listed(second)
         IN  Holding(j, IF views = <<>> THEN "submit" ELSE "view", views)
  BY Zenon DEF RunQuant
<1> DEFINE views == Listed(first) \o Listed(second)
<1>3. Moved(j, IF views = <<>> THEN "submit" ELSE "view", views)
  <2>1. Holding(j, IF views = <<>> THEN "submit" ELSE "view", views)
    BY <1>2
  <2> HIDE DEF views
  <2> QED
    BY <1>0, <2>1, HoldingMoves
<1>4. IsRows(views)
  BY ListedRows, JoinedRows
<1> HIDE DEF views
<1>5. "submit" \notin Saving \cup {"detected"}
  BY DEF Saving
<1> QED
  BY <1>1, <1>3, <1>4, <1>5, StillHeld

\* A view is saved.
LEMMA PersistViewHolds ==
    ASSUME RowsAreHeld, NEW j \in Jobs, PersistView(j)
    PROVE  RowsAreHeld' /\ TablesFollow
<1>0. AllJobs(job) /\ AllTables(tables)
  BY DEF RowsAreHeld
<1>1. TablesFollow
  <2>1. /\ job[j].pc \in Saving \ {"compose"}
        /\ tables' = [tables EXCEPT !["views"] = Append(@, Head(job[j].held))]
    BY DEF PersistView, At, Saving, InsertView
  <2>2. "views" \in TableNames
    BY DEF TableNames
  <2> QED
    BY <2>1, <2>2, SavingFollows
<1>2. Moved(j, IF Len(job[j].held) = 1 THEN "submit" ELSE "view", Tail(job[j].held))
  BY <1>0, HoldingMoves DEF PersistView
<1>3. job[j].pc \in Saving
  BY DEF PersistView, At, Saving
<1>4. /\ IsRows(job[j].held) /\ IsRows(Tail(job[j].held))
      /\ Len(job[j].held) = 1 <=> Tail(job[j].held) = <<>>
  BY <1>3, RestOfRows DEF RowsAreHeld
<1>5. "submit" \notin Saving \cup {"detected"}
  BY DEF Saving
<1> QED
  BY <1>1, <1>2, <1>4, <1>5, StillHeld

\* The trade idea is handed on.
LEMMA SubmitHolds ==
    ASSUME RowsAreHeld, NEW j \in Jobs, Submit(j)
    PROVE  RowsAreHeld' /\ TablesFollow
<1>0. AllJobs(job) /\ AllTables(tables)
  BY DEF RowsAreHeld
<1>1. TablesFollow
  BY <1>0 DEF Submit, TablesFollow
<1>2. Moved(j, IF Kind[j] = "BOOT" THEN "brief" ELSE "done", job[j].held)
  BY <1>0, GotoMoves DEF Submit
<1>3. "brief" \notin Saving \cup {"detected"} /\ "done" \notin Saving \cup {"detected"}
  BY DEF Saving
<1> QED
  BY <1>1, <1>2, <1>3, StillHeld


\* The brief is begun, and each of its queries is made.
LEMMA BriefMoves ==
    ASSUME AllJobs(job), NEW j \in Jobs, BeginBrief(j) \/ ReadForBrief(j)
    PROVE  \E pc \in {"query", "compose"} : \E row : Moved(j, pc, <<row>>)
<1>1. PICK pc \in {"query", "compose"} : \E row : Holding(j, pc, <<row>>)
  <2>1. CASE BeginBrief(j)
    BY <2>1, Zenon DEF BeginBrief
  <2>2. CASE ReadForBrief(j)
    BY <2>2, Zenon DEF ReadForBrief
  <2> QED
    BY <2>1, <2>2
<1>2. PICK row : Holding(j, pc, <<row>>)
  BY <1>1
<1>3. Moved(j, pc, <<row>>)
  BY <1>2, HoldingMoves
<1> QED
  BY <1>3

\* The rows are where they should be after each of these steps.
LEMMA ReadForBriefHolds ==
    ASSUME RowsAreHeld, NEW j \in Jobs, BeginBrief(j) \/ ReadForBrief(j)
    PROVE  RowsAreHeld' /\ TablesFollow
<1>0. AllJobs(job) /\ AllTables(tables)
  BY DEF RowsAreHeld
<1>1. TablesFollow
  BY <1>0 DEF BeginBrief, ReadForBrief, TablesFollow
<1>2. PICK pc \in {"query", "compose"} : \E row : Moved(j, pc, <<row>>)
  BY <1>0, BriefMoves
<1>3. PICK row : Moved(j, pc, <<row>>)
  BY <1>2
<1>4. IsRows(<<row>>) /\ <<row>> # <<>>
  <2>1. <<row>> \in Seq({row}) /\ <<row>> # <<>>
    OBVIOUS
  <2> QED
    BY <2>1, AnyRows
<1> QED
  BY <1>1, <1>3, <1>4, StillHeld

\* The brief is saved.
LEMMA SaveBriefHolds ==
    ASSUME RowsAreHeld, NEW j \in Jobs, SaveBrief(j)
    PROVE  RowsAreHeld' /\ TablesFollow
<1>0. AllJobs(job) /\ AllTables(tables)
  BY DEF RowsAreHeld
<1>1. TablesFollow
  <2>1. PICK rows : tables' = [tables EXCEPT !["briefs"] = rows]
    BY DEF SaveBrief, InsertBrief
  <2>2. "briefs" \in TableNames \ Replayed
    BY DEF TableNames, Replayed
  <2> QED
    BY <2>1, <2>2, OtherTablesFollow
<1>2. Moved(j, "done", <<>>)
  BY <1>0, HoldingMoves DEF SaveBrief
<1>3. "done" \notin Saving \cup {"detected"}
  BY DEF Saving
<1> QED
  BY <1>1, <1>2, <1>3, StillHeld

\* A scenario is run.
LEMMA StartScenarioHolds ==
    ASSUME RowsAreHeld, NEW j \in Jobs, StartScenario(j)
    PROVE  RowsAreHeld' /\ TablesFollow
<1>0. AllJobs(job) /\ AllTables(tables)
  BY DEF RowsAreHeld
<1>1. TablesFollow
  BY <1>0 DEF StartScenario, TablesFollow
<1>2. PICK runs : Moved(j, IF runs = {} THEN "done" ELSE "run", Listed(runs))
  <2>1. PICK runs : Holding(j, IF runs = {} THEN "done" ELSE "run", Listed(runs))
    BY Zenon DEF StartScenario
  <2> QED
    BY <1>0, <2>1, HoldingMoves
<1>3. IsRows(Listed(runs)) /\ (runs # {} => Listed(runs) # <<>>)
  BY ListedRows
<1>4. "done" \notin Saving \cup {"detected"}
  BY DEF Saving
<1> QED
  BY <1>1, <1>2, <1>3, <1>4, StillHeld

\* The whole library is run.
LEMMA StartComparisonHolds ==
    ASSUME RowsAreHeld, NEW j \in Jobs, StartComparison(j)
    PROVE  RowsAreHeld' /\ TablesFollow
<1>0. AllJobs(job) /\ AllTables(tables)
  BY DEF RowsAreHeld
<1>1. TablesFollow
  BY <1>0 DEF StartComparison, TablesFollow
<1>2. PICK book \in Books, org \in {{}, {Org}} :
         Holding(j, "run", [i \in DOMAIN StandingRuns(book) |->
                              [Stamp(<<j, i>>, StandingRuns(book)[i]) EXCEPT !.org = org]])
  BY Zenon DEF StartComparison
<1> DEFINE rows == [i \in DOMAIN StandingRuns(book) |->
                      [Stamp(<<j, i>>, StandingRuns(book)[i]) EXCEPT !.org = org]]
<1>3. Moved(j, "run", rows)
  <2>1. Holding(j, "run", rows)
    BY <1>2
  <2> HIDE DEF rows
  <2> QED
    BY <1>0, <2>1, HoldingMoves
<1>4. DOMAIN StandingRuns(book) = 1 .. 14
  BY LibraryRows DEF StandingRuns
<1>5. DOMAIN rows = 1 .. 14 /\ rows = [i \in 1 .. 14 |-> rows[i]]
  BY <1>4
<1> HIDE DEF rows
<1>6. IsRows(rows) /\ Len(rows) = 14
  BY <1>5, ListOf
<1>7. rows # <<>>
  BY <1>6
<1> QED
  BY <1>1, <1>3, <1>6, <1>7, StillHeld

\* A scenario run is saved.
LEMMA SaveRunHolds ==
    ASSUME RowsAreHeld, NEW j \in Jobs, SaveRun(j)
    PROVE  RowsAreHeld' /\ TablesFollow
<1>0. AllJobs(job) /\ AllTables(tables)
  BY DEF RowsAreHeld
<1>1. TablesFollow
  <2>1. /\ job[j].pc \in Saving \ {"compose"}
        /\ tables' = [tables EXCEPT !["runs"] = Append(@, Head(job[j].held))]
    BY DEF SaveRun, At, Saving, InsertRun
  <2>2. "runs" \in TableNames
    BY DEF TableNames
  <2> QED
    BY <2>1, <2>2, SavingFollows
<1>2. Moved(j, IF Len(job[j].held) = 1 THEN "done" ELSE "run", Tail(job[j].held))
  BY <1>0, HoldingMoves DEF SaveRun
<1>3. job[j].pc \in Saving
  BY DEF SaveRun, At, Saving
<1>4. /\ IsRows(job[j].held) /\ IsRows(Tail(job[j].held))
      /\ Len(job[j].held) = 1 <=> Tail(job[j].held) = <<>>
  BY <1>3, RestOfRows DEF RowsAreHeld
<1>5. "done" \notin Saving \cup {"detected"}
  BY DEF Saving
<1> QED
  BY <1>1, <1>2, <1>4, <1>5, StillHeld

\* A closed trade becomes a memory.
LEMMA StartMemoryHolds ==
    ASSUME RowsAreHeld, NEW j \in Jobs, StartMemory(j)
    PROVE  RowsAreHeld' /\ TablesFollow
<1>0. AllJobs(job) /\ AllTables(tables)
  BY DEF RowsAreHeld
<1>1. TablesFollow
  BY <1>0 DEF StartMemory, TablesFollow
<1>2. PICK row : Moved(j, "memory", <<row>>)
  BY <1>0, HoldingMoves DEF StartMemory
<1>3. IsRows(<<row>>) /\ <<row>> # <<>>
  <2>1. <<row>> \in Seq({row}) /\ <<row>> # <<>>
    OBVIOUS
  <2> QED
    BY <2>1, AnyRows
<1> QED
  BY <1>1, <1>2, <1>3, StillHeld

\* The memory is saved; its lesson, if it has one, is built.
LEMMA SaveMemoryHolds ==
    ASSUME RowsAreHeld, NEW j \in Jobs, SaveMemory(j)
    PROVE  RowsAreHeld' /\ TablesFollow
<1>0. AllJobs(job) /\ AllTables(tables)
  BY DEF RowsAreHeld
<1>1. TablesFollow
  <2>1. /\ job[j].pc \in Saving \ {"compose"}
        /\ tables' = [tables EXCEPT !["memories"] = Append(@, Head(job[j].held))]
    BY DEF SaveMemory, At, Saving, InsertMemory
  <2>2. "memories" \in TableNames
    BY DEF TableNames
  <2> QED
    BY <2>1, <2>2, SavingFollows
<1>2. PICK lessons : Moved(j, IF lessons = {} THEN "done" ELSE "lesson", Listed(lessons))
  <2>1. PICK lessons : Holding(j, IF lessons = {} THEN "done" ELSE "lesson", Listed(lessons))
    BY Zenon DEF SaveMemory
  <2> QED
    BY <1>0, <2>1, HoldingMoves
<1>3. IsRows(Listed(lessons)) /\ (lessons # {} => Listed(lessons) # <<>>)
  BY ListedRows
<1>4. "done" \notin Saving \cup {"detected"}
  BY DEF Saving
<1> QED
  BY <1>1, <1>2, <1>3, <1>4, StillHeld

\* The lesson is saved.
LEMMA SaveLessonHolds ==
    ASSUME RowsAreHeld, NEW j \in Jobs, SaveLesson(j)
    PROVE  RowsAreHeld' /\ TablesFollow
<1>0. AllJobs(job) /\ AllTables(tables)
  BY DEF RowsAreHeld
<1>1. TablesFollow
  <2>1. PICK rows : tables' = [tables EXCEPT !["lessons"] = rows]
    BY DEF SaveLesson, InsertLesson
  <2>2. "lessons" \in TableNames \ Replayed
    BY DEF TableNames, Replayed
  <2> QED
    BY <2>1, <2>2, OtherTablesFollow
<1>2. Moved(j, "done", <<>>)
  BY <1>0, HoldingMoves DEF SaveLesson
<1>3. "done" \notin Saving \cup {"detected"}
  BY DEF Saving
<1> QED
  BY <1>1, <1>2, <1>3, StillHeld

\* A lesson is reviewed.
LEMMA ReviewLessonHolds ==
    ASSUME RowsAreHeld, NEW j \in Jobs, ReviewLesson(j)
    PROVE  RowsAreHeld' /\ TablesFollow
<1>0. AllJobs(job) /\ AllTables(tables)
  BY DEF RowsAreHeld
<1>1. PICK lesson : UpdateLesson(lesson) /\ Holding(j, "reviewed", <<lesson>>)
  BY Zenon DEF ReviewLesson
<1>2. TablesFollow
  <2>1. PICK rows : tables' = [tables EXCEPT !["lessons"] = rows]
    BY <1>1 DEF UpdateLesson
  <2>2. "lessons" \in TableNames \ Replayed
    BY DEF TableNames, Replayed
  <2> QED
    BY <2>1, <2>2, OtherTablesFollow
<1>3. Moved(j, "reviewed", <<lesson>>)
  BY <1>0, <1>1, HoldingMoves
<1>4. "reviewed" \notin Saving \cup {"detected"}
  BY DEF Saving
<1> QED
  BY <1>2, <1>3, <1>4, StillHeld

\* The reviewed lesson is shown.
LEMMA ShowReviewHolds ==
    ASSUME RowsAreHeld, NEW j \in Jobs, ShowReview(j)
    PROVE  RowsAreHeld' /\ TablesFollow
<1>0. AllJobs(job) /\ AllTables(tables)
  BY DEF RowsAreHeld
<1>1. TablesFollow
  BY <1>0 DEF ShowReview, TablesFollow
<1>2. Moved(j, "done", <<>>)
  BY <1>0, HoldingMoves DEF ShowReview
<1>3. "done" \notin Saving \cup {"detected"}
  BY DEF Saving
<1> QED
  BY <1>1, <1>2, <1>3, StillHeld

\* A job breaks off.
LEMMA FailHolds ==
    ASSUME RowsAreHeld, NEW j \in Jobs, Fail(j)
    PROVE  RowsAreHeld' /\ TablesFollow
<1>0. AllJobs(job) /\ AllTables(tables)
  BY DEF RowsAreHeld
<1>1. TablesFollow
  BY <1>0 DEF Fail, TablesFollow
<1>2. Moved(j, "failed", job[j].held)
  BY <1>0, GotoMoves DEF Fail
<1>3. "failed" \notin Saving \cup {"detected"}
  BY DEF Saving
<1> QED
  BY <1>1, <1>2, <1>3, StillHeld

\* Every step keeps the rows where they should be, and the tables of a replay only grow.
LEMMA StepHolds ==
    ASSUME RowsAreHeld, [Next]_vars
    PROVE  RowsAreHeld' /\ TablesFollow
<1>1. CASE UNCHANGED vars
  BY <1>1 DEF vars, RowsAreHeld, TablesFollow, AllJobs, AllTables
<1>2. CASE Tick
  BY <1>2 DEF Tick, RowsAreHeld, TablesFollow, AllJobs, AllTables
<1>3. ASSUME NEW j \in Jobs, JobStep(j)
      PROVE  RowsAreHeld' /\ TablesFollow
  <2>1. CASE StartResearch(j)
    BY <2>1, StartResearchHolds
  <2>2. CASE ReadBaselines(j)
    BY <2>2, ReadBaselinesHolds
  <2>3. CASE SaveBaselines(j)
    BY <2>3, SaveBaselinesHolds
  <2>4. CASE SaveSignal(j)
    BY <2>4, SaveSignalHolds
  <2>5. CASE SaveImpact(j)
    BY <2>5, SaveImpactHolds
  <2>6. CASE RunQuant(j)
    BY <2>6, RunQuantHolds
  <2>7. CASE PersistView(j)
    BY <2>7, PersistViewHolds
  <2>8. CASE Submit(j)
    BY <2>8, SubmitHolds
  <2>9. CASE BeginBrief(j) \/ ReadForBrief(j)
    BY <2>9, ReadForBriefHolds
  <2>10. CASE SaveBrief(j)
    BY <2>10, SaveBriefHolds
  <2>11. CASE StartScenario(j)
    BY <2>11, StartScenarioHolds
  <2>12. CASE StartComparison(j)
    BY <2>12, StartComparisonHolds
  <2>13. CASE SaveRun(j)
    BY <2>13, SaveRunHolds
  <2>14. CASE StartMemory(j)
    BY <2>14, StartMemoryHolds
  <2>15. CASE SaveMemory(j)
    BY <2>15, SaveMemoryHolds
  <2>16. CASE SaveLesson(j)
    BY <2>16, SaveLessonHolds
  <2>17. CASE ReviewLesson(j)
    BY <2>17, ReviewLessonHolds
  <2>18. CASE ShowReview(j)
    BY <2>18, ShowReviewHolds
  <2>19. CASE Fail(j)
    BY <2>19, FailHolds
  <2> QED
    BY <1>3, <2>1, <2>2, <2>3, <2>4, <2>5, <2>6, <2>7, <2>8, <2>9, <2>10,
       <2>11, <2>12, <2>13, <2>14, <2>15, <2>16, <2>17, <2>18, <2>19
       DEF JobStep
<1> QED
  BY <1>1, <1>2, <1>3 DEF Next

\* Nothing is held at the start.
LEMMA InitHolds ==
    Init => RowsAreHeld
<1> SUFFICES ASSUME Init PROVE RowsAreHeld
  OBVIOUS
<1>1. AllJobs(job)
  BY DEF Init, Idle, AllJobs
<1>2. AllTables(tables)
  BY DEF Init, NoRows, AllTables, TableNames
<1>3. \A t \in Replayed : tables[t] = <<>>
  BY DEF Init, NoRows, Replayed
<1>4. IsRows(<<>>)
  BY DEF IsRows
<1>5. \A j \in Jobs : job[j].pc = "idle" /\ "idle" \notin Saving \cup {"detected"}
  BY DEF Init, Idle, Saving
<1> QED
  BY <1>1, <1>2, <1>3, <1>4, <1>5 DEF RowsAreHeld

\* Jobs hold the rows that they are to save (AppState: each await between two saves).
THEOREM RowsHeld == Spec => []RowsAreHeld
<1>1. RowsAreHeld /\ [Next]_vars => RowsAreHeld'
  BY StepHolds
<1> QED
  BY <1>1, InitHolds, PTL DEF Spec

\* The answer of a replay for a past moment never changes, unless a row of that moment
\* was still on its way, whatever the jobs, the sights and the clock (compute_as_of_replay).
THEOREM ReplaysAreStable == Spec => ReplayIsStable
<1>1. ASSUME RowsAreHeld, [Next]_vars,
             NEW moment \in 0 .. MaxClock, ~ OnItsWay(moment)
      PROVE  AsOf(tables', Unscoped, Market, moment, ListLimit)
               = AsOf(tables, Unscoped, Market, moment, ListLimit)
  <2>1. ASSUME NEW t \in Replayed
        PROVE  Grows(tables[t], tables'[t], moment)
    <3>1. CASE tables'[t] = tables[t]
      BY <3>1 DEF Grows
    <3>2. CASE \E j \in Jobs : Adds(j, t)
      <4>1. PICK j \in Jobs : Adds(j, t)
        BY <3>2
      <4>2. Head(job[j].held) = job[j].held[1] /\ 1 \in DOMAIN job[j].held
        BY <4>1, RestOfRows DEF Adds
      <4>3. ~ (Head(job[j].held).at <= moment)
        BY <1>1, <4>1, <4>2 DEF OnItsWay, Adds
      <4>4. IsRows(tables[t])
        BY <1>1 DEF RowsAreHeld
      <4> QED
        BY <4>1, <4>3, <4>4 DEF Adds, Grows
    <3> QED
      BY <1>1, <3>1, <3>2, StepHolds DEF TablesFollow
  <2> QED
    BY <2>1, ReplayKeepsItsAnswer
<1>2. RowsAreHeld /\ [Next]_vars =>
        [\A moment \in 0 .. MaxClock :
           moment < clock /\ ~ OnItsWay(moment) =>
             AsOf(tables', Unscoped, Market, moment, ListLimit)
               = AsOf(tables, Unscoped, Market, moment, ListLimit)]_vars
  BY <1>1
<1> QED
  BY <1>2, RowsHeld, PTL DEF Spec, ReplayIsStable

-----------------------------------------------------------------------------
(* Signals and their impacts *)

Stored == {tables.signals[i].id : i \in DOMAIN tables.signals}
Explained == {tables.impacts[n].signal : n \in DOMAIN tables.impacts}
ExplainedOnce ==
    \A m, n \in DOMAIN tables.impacts :
      tables.impacts[m].signal = tables.impacts[n].signal => m = n

\* The signals that a job has yet to save.
ToSave(j) == IF At(j, "impact") THEN Tail(job[j].held) ELSE job[j].held

\* The job that saved a signal has its impact in hand, or has failed.
Waiting(id) ==
    \E j \in Jobs : /\ id[1] = j
                    /\ \/ At(j, "failed")
                       \/ At(j, "impact") /\ Head(job[j].held).signal = id

\* A job saves signals that are its own, each of them once, and after each one its impact.
InOrder(j) ==
    /\ job[j].pc \in {"idle", "baselines", "detected"} => \A id \in Stored : id[1] # j
    /\ job[j].pc \in {"detected", "signal", "impact"} =>
         /\ \A a \in DOMAIN ToSave(j) : ToSave(j)[a].id[1] = j /\ ToSave(j)[a].id \notin Stored
         /\ \A a, b \in DOMAIN ToSave(j) : ToSave(j)[a].id = ToSave(j)[b].id => a = b
    /\ At(j, "impact") =>
         /\ Head(job[j].held).signal \in Stored \ Explained
         /\ Head(job[j].held).signal[1] = j

(***************************************************************************)
(* Signals are saved once and by the job that found them; each one is      *)
(* explained before the next one is saved.                                 *)
(***************************************************************************)
SignalsInOrder ==
    /\ Explained \subseteq Stored
    /\ ExplainedOnce
    /\ \A id \in Stored : id \in Explained \/ Waiting(id)
    /\ \A j \in Jobs : InOrder(j)

\* A job does not notice what another one saves.
LEMMA OthersInOrder ==
    ASSUME NEW i, NEW j, i # j, InOrder(i), job'[i] = job[i], NEW id, id[1] = j,
           Stored' \subseteq Stored \cup {id}, Stored \subseteq Stored',
           Explained' \subseteq Explained \cup {id}
    PROVE  InOrder(i)'
<1>1. ToSave(i)' = ToSave(i)
  BY DEF ToSave, At
<1>2. job'[i].pc \in {"idle", "baselines", "detected"} => \A x \in Stored' : x[1] # i
  BY DEF InOrder
<1>3. job'[i].pc \in {"detected", "signal", "impact"} =>
        /\ \A a \in DOMAIN ToSave(i) : ToSave(i)[a].id[1] = i /\ ToSave(i)[a].id \notin Stored'
        /\ \A a, b \in DOMAIN ToSave(i) : ToSave(i)[a].id = ToSave(i)[b].id => a = b
  <2> SUFFICES ASSUME job[i].pc \in {"detected", "signal", "impact"}
               PROVE  /\ \A a \in DOMAIN ToSave(i) :
                           ToSave(i)[a].id[1] = i /\ ToSave(i)[a].id \notin Stored'
                      /\ \A a, b \in DOMAIN ToSave(i) : ToSave(i)[a].id = ToSave(i)[b].id => a = b
    OBVIOUS
  <2> QED
    BY DEF InOrder
<1>4. At(i, "impact")' =>
        /\ Head(job'[i].held).signal \in Stored' \ Explained'
        /\ Head(job'[i].held).signal[1] = i
  BY DEF InOrder, At
<1> QED
  BY <1>1, <1>2, <1>3, <1>4 DEF InOrder

\* Who waits goes on waiting, unless it is its impact that is saved.
LEMMA StillWaiting ==
    ASSUME NEW j \in Jobs, NEW pc, NEW rows, Moved(j, pc, rows), NEW id, Waiting(id),
           \/ pc = "failed"
           \/ ~ At(j, "impact") /\ ~ At(j, "failed")
           \/ At(j, "impact") /\ Head(job[j].held).signal # id
    PROVE  Waiting(id)'
<1>1. PICK i \in Jobs : /\ id[1] = i
                        /\ \/ At(i, "failed")
                           \/ At(i, "impact") /\ Head(job[i].held).signal = id
  BY DEF Waiting
<1>2. CASE i = j
  <2>1. pc = "failed"
    BY <1>1, <1>2 DEF At
  <2> QED
    BY <1>1, <1>2, <2>1 DEF Moved, Waiting, At
<1>3. CASE i # j
  <2>1. job'[i] = job[i]
    BY <1>3 DEF Moved
  <2> QED
    BY <1>1, <2>1 DEF Waiting, At
<1> QED
  BY <1>2, <1>3

\* A step that saves neither signals nor impacts keeps the order, if its job is not about
\* to save some.
LEMMA ElsewhereInOrder ==
    ASSUME SignalsInOrder, NEW j \in Jobs, NEW pc, NEW rows, Moved(j, pc, rows),
           tables'.signals = tables.signals, tables'.impacts = tables.impacts,
           pc = "failed" \/ (~ At(j, "impact") /\ ~ At(j, "failed")),
           InOrder(j)'
    PROVE  SignalsInOrder'
<1>1. Stored' = Stored /\ Explained' = Explained /\ ExplainedOnce'
  BY DEF Stored, Explained, ExplainedOnce, SignalsInOrder
<1>2. \A id \in Stored : id \in Explained \/ Waiting(id)'
  BY StillWaiting DEF SignalsInOrder
<1>3. \A i \in Jobs : InOrder(i)'
  <2> TAKE i \in Jobs
  <2>1. CASE i # j
    <3>1. job'[i] = job[i] /\ InOrder(i)
      BY <2>1 DEF Moved, SignalsInOrder
    <3>2. <<j, 0>>[1] = j
      OBVIOUS
    <3> QED
      BY <1>1, <2>1, <3>1, <3>2, OthersInOrder
  <2> QED
    BY <2>1
<1> QED
  BY <1>1, <1>2, <1>3 DEF SignalsInOrder

\* A job that is neither at the start nor among its signals is in order.
LEMMA NoSignalsLeft ==
    ASSUME NEW j \in Jobs,
           job'[j].pc \notin {"idle", "baselines", "detected", "signal", "impact"}
    PROVE  InOrder(j)'
BY DEF InOrder, At

\* The job goes where it has no signals to save, and the step saves none and no impact.
Quiet(j) ==
    /\ \E pc, rows : /\ Moved(j, pc, rows)
                     /\ pc \notin {"idle", "baselines", "detected", "signal", "impact"}
                     /\ pc = "failed" \/ (~ At(j, "impact") /\ ~ At(j, "failed"))
    /\ tables'.signals = tables.signals /\ tables'.impacts = tables.impacts

\* Such a step keeps the order.
LEMMA QuietInOrder ==
    ASSUME SignalsInOrder, NEW j \in Jobs, Quiet(j)
    PROVE  SignalsInOrder'
<1>1. PICK pc, rows : /\ Moved(j, pc, rows)
                      /\ pc \notin {"idle", "baselines", "detected", "signal", "impact"}
                      /\ pc = "failed" \/ (~ At(j, "impact") /\ ~ At(j, "failed"))
  BY DEF Quiet
<1>2. InOrder(j)'
  <2>1. job'[j].pc = pc
    BY <1>1 DEF Moved
  <2> QED
    BY <1>1, <2>1, NoSignalsLeft
<1>3. tables'.signals = tables.signals /\ tables'.impacts = tables.impacts
  BY DEF Quiet
<1> QED
  BY <1>1, <1>2, <1>3, ElsewhereInOrder

\* A step that writes to none of the two tables.
LEMMA SamePair ==
    ASSUME RowsAreHeld, NEW t \in TableNames \ {"signals", "impacts"}, NEW rows,
           tables' = [tables EXCEPT ![t] = rows]
    PROVE  tables'.signals = tables.signals /\ tables'.impacts = tables.impacts
<1>1. tables' = [u \in TableNames |-> IF u = t THEN rows ELSE tables[u]]
  BY DEF RowsAreHeld, AllTables
<1> QED
  BY <1>1 DEF TableNames

\* Forecasts are saved, views built.
LEMMA RunQuantQuiet ==
    ASSUME RowsAreHeld, NEW j \in Jobs, RunQuant(j)
    PROVE  Quiet(j)
<1>0. AllJobs(job)
  BY DEF RowsAreHeld
<1>1. tables'.signals = tables.signals /\ tables'.impacts = tables.impacts
  <2>1. PICK rows : tables' = [tables EXCEPT !["forecasts"] = rows]
    BY Zenon DEF RunQuant, InsertForecasts
  <2>2. "forecasts" \in TableNames \ {"signals", "impacts"}
    BY DEF TableNames
  <2> QED
    BY <2>1, <2>2, SamePair
<1>2. PICK views : Moved(j, IF views = <<>> THEN "submit" ELSE "view", views)
  <2>1. PICK views : Holding(j, IF views = <<>> THEN "submit" ELSE "view", views)
    BY Zenon DEF RunQuant
  <2> QED
    BY <1>0, <2>1, HoldingMoves
<1>3. ~ At(j, "impact") /\ ~ At(j, "failed")
  BY DEF RunQuant, At
<1> QED
  BY <1>1, <1>2, <1>3 DEF Quiet

\* A view.
LEMMA PersistViewQuiet ==
    ASSUME RowsAreHeld, NEW j \in Jobs, PersistView(j)
    PROVE  Quiet(j)
<1>0. AllJobs(job)
  BY DEF RowsAreHeld
<1>1. tables'.signals = tables.signals /\ tables'.impacts = tables.impacts
  <2>1. PICK rows : tables' = [tables EXCEPT !["views"] = rows]
    BY Zenon DEF PersistView, InsertView
  <2>2. "views" \in TableNames \ {"signals", "impacts"}
    BY DEF TableNames
  <2> QED
    BY <2>1, <2>2, SamePair
<1>2. Moved(j, IF Len(job[j].held) = 1 THEN "submit" ELSE "view", Tail(job[j].held))
  BY <1>0, HoldingMoves DEF PersistView
<1>3. ~ At(j, "impact") /\ ~ At(j, "failed")
  BY DEF PersistView, At
<1> QED
  BY <1>1, <1>2, <1>3 DEF Quiet

\* A trade idea.
LEMMA SubmitQuiet ==
    ASSUME RowsAreHeld, NEW j \in Jobs, Submit(j)
    PROVE  Quiet(j)
<1>0. AllJobs(job)
  BY DEF RowsAreHeld
<1>1. tables'.signals = tables.signals /\ tables'.impacts = tables.impacts
  BY DEF Submit
<1>2. Moved(j, IF Kind[j] = "BOOT" THEN "brief" ELSE "done", job[j].held)
  BY <1>0, GotoMoves DEF Submit
<1>3. ~ At(j, "impact") /\ ~ At(j, "failed")
  BY DEF Submit, At
<1> QED
  BY <1>1, <1>2, <1>3 DEF Quiet

\* A brief is begun and its queries are made.
LEMMA ReadForBriefQuiet ==
    ASSUME RowsAreHeld, NEW j \in Jobs, BeginBrief(j) \/ ReadForBrief(j)
    PROVE  Quiet(j)
<1>0. AllJobs(job)
  BY DEF RowsAreHeld
<1>1. tables'.signals = tables.signals /\ tables'.impacts = tables.impacts
  BY DEF BeginBrief, ReadForBrief
<1>2. PICK pc \in {"query", "compose"} : \E row : Moved(j, pc, <<row>>)
  BY <1>0, BriefMoves
<1>3. PICK row : Moved(j, pc, <<row>>)
  BY <1>2
<1>4. ~ At(j, "impact") /\ ~ At(j, "failed")
  BY DEF BeginBrief, ReadForBrief, At
<1> QED
  BY <1>1, <1>3, <1>4 DEF Quiet

\* A brief.
LEMMA SaveBriefQuiet ==
    ASSUME RowsAreHeld, NEW j \in Jobs, SaveBrief(j)
    PROVE  Quiet(j)
<1>0. AllJobs(job)
  BY DEF RowsAreHeld
<1>1. tables'.signals = tables.signals /\ tables'.impacts = tables.impacts
  <2>1. PICK rows : tables' = [tables EXCEPT !["briefs"] = rows]
    BY Zenon DEF SaveBrief, InsertBrief
  <2>2. "briefs" \in TableNames \ {"signals", "impacts"}
    BY DEF TableNames
  <2> QED
    BY <2>1, <2>2, SamePair
<1>2. Moved(j, "done", <<>>)
  BY <1>0, HoldingMoves DEF SaveBrief
<1>3. ~ At(j, "impact") /\ ~ At(j, "failed")
  BY DEF SaveBrief, At
<1> QED
  BY <1>1, <1>2, <1>3 DEF Quiet

\* A scenario is run.
LEMMA StartScenarioQuiet ==
    ASSUME RowsAreHeld, NEW j \in Jobs, StartScenario(j)
    PROVE  Quiet(j)
<1>0. AllJobs(job)
  BY DEF RowsAreHeld
<1>1. tables'.signals = tables.signals /\ tables'.impacts = tables.impacts
  BY DEF StartScenario
<1>2. PICK runs : Moved(j, IF runs = {} THEN "done" ELSE "run", Listed(runs))
  <2>1. PICK runs : Holding(j, IF runs = {} THEN "done" ELSE "run", Listed(runs))
    BY Zenon DEF StartScenario
  <2> QED
    BY <1>0, <2>1, HoldingMoves
<1>3. ~ At(j, "impact") /\ ~ At(j, "failed")
  BY DEF StartScenario, At
<1> QED
  BY <1>1, <1>2, <1>3 DEF Quiet

\* The library is run.
LEMMA StartComparisonQuiet ==
    ASSUME RowsAreHeld, NEW j \in Jobs, StartComparison(j)
    PROVE  Quiet(j)
<1>0. AllJobs(job)
  BY DEF RowsAreHeld
<1>1. tables'.signals = tables.signals /\ tables'.impacts = tables.impacts
  BY DEF StartComparison
<1>2. PICK rows : Moved(j, "run", rows)
  <2>1. PICK rows : Holding(j, "run", rows)
    BY Zenon DEF StartComparison
  <2> QED
    BY <1>0, <2>1, HoldingMoves
<1>3. ~ At(j, "impact") /\ ~ At(j, "failed")
  BY DEF StartComparison, At
<1> QED
  BY <1>1, <1>2, <1>3 DEF Quiet

\* A scenario run.
LEMMA SaveRunQuiet ==
    ASSUME RowsAreHeld, NEW j \in Jobs, SaveRun(j)
    PROVE  Quiet(j)
<1>0. AllJobs(job)
  BY DEF RowsAreHeld
<1>1. tables'.signals = tables.signals /\ tables'.impacts = tables.impacts
  <2>1. PICK rows : tables' = [tables EXCEPT !["runs"] = rows]
    BY Zenon DEF SaveRun, InsertRun
  <2>2. "runs" \in TableNames \ {"signals", "impacts"}
    BY DEF TableNames
  <2> QED
    BY <2>1, <2>2, SamePair
<1>2. Moved(j, IF Len(job[j].held) = 1 THEN "done" ELSE "run", Tail(job[j].held))
  BY <1>0, HoldingMoves DEF SaveRun
<1>3. ~ At(j, "impact") /\ ~ At(j, "failed")
  BY DEF SaveRun, At
<1> QED
  BY <1>1, <1>2, <1>3 DEF Quiet

\* A trade is remembered.
LEMMA StartMemoryQuiet ==
    ASSUME RowsAreHeld, NEW j \in Jobs, StartMemory(j)
    PROVE  Quiet(j)
<1>0. AllJobs(job)
  BY DEF RowsAreHeld
<1>1. tables'.signals = tables.signals /\ tables'.impacts = tables.impacts
  BY DEF StartMemory
<1>2. PICK row : Moved(j, "memory", <<row>>)
  <2>1. PICK row : Holding(j, "memory", <<row>>)
    BY Zenon DEF StartMemory
  <2> QED
    BY <1>0, <2>1, HoldingMoves
<1>3. ~ At(j, "impact") /\ ~ At(j, "failed")
  BY DEF StartMemory, At
<1> QED
  BY <1>1, <1>2, <1>3 DEF Quiet

\* A memory.
LEMMA SaveMemoryQuiet ==
    ASSUME RowsAreHeld, NEW j \in Jobs, SaveMemory(j)
    PROVE  Quiet(j)
<1>0. AllJobs(job)
  BY DEF RowsAreHeld
<1>1. tables'.signals = tables.signals /\ tables'.impacts = tables.impacts
  <2>1. PICK rows : tables' = [tables EXCEPT !["memories"] = rows]
    BY Zenon DEF SaveMemory, InsertMemory
  <2>2. "memories" \in TableNames \ {"signals", "impacts"}
    BY DEF TableNames
  <2> QED
    BY <2>1, <2>2, SamePair
<1>2. PICK lessons : Moved(j, IF lessons = {} THEN "done" ELSE "lesson", Listed(lessons))
  <2>1. PICK lessons : Holding(j, IF lessons = {} THEN "done" ELSE "lesson", Listed(lessons))
    BY Zenon DEF SaveMemory
  <2> QED
    BY <1>0, <2>1, HoldingMoves
<1>3. ~ At(j, "impact") /\ ~ At(j, "failed")
  BY DEF SaveMemory, At
<1> QED
  BY <1>1, <1>2, <1>3 DEF Quiet

\* A lesson.
LEMMA SaveLessonQuiet ==
    ASSUME RowsAreHeld, NEW j \in Jobs, SaveLesson(j)
    PROVE  Quiet(j)
<1>0. AllJobs(job)
  BY DEF RowsAreHeld
<1>1. tables'.signals = tables.signals /\ tables'.impacts = tables.impacts
  <2>1. PICK rows : tables' = [tables EXCEPT !["lessons"] = rows]
    BY Zenon DEF SaveLesson, InsertLesson
  <2>2. "lessons" \in TableNames \ {"signals", "impacts"}
    BY DEF TableNames
  <2> QED
    BY <2>1, <2>2, SamePair
<1>2. Moved(j, "done", <<>>)
  BY <1>0, HoldingMoves DEF SaveLesson
<1>3. ~ At(j, "impact") /\ ~ At(j, "failed")
  BY DEF SaveLesson, At
<1> QED
  BY <1>1, <1>2, <1>3 DEF Quiet

\* A lesson is reviewed.
LEMMA ReviewLessonQuiet ==
    ASSUME RowsAreHeld, NEW j \in Jobs, ReviewLesson(j)
    PROVE  Quiet(j)
<1>0. AllJobs(job)
  BY DEF RowsAreHeld
<1>1. tables'.signals = tables.signals /\ tables'.impacts = tables.impacts
  <2>1. PICK rows : tables' = [tables EXCEPT !["lessons"] = rows]
    BY Zenon DEF ReviewLesson, UpdateLesson
  <2>2. "lessons" \in TableNames \ {"signals", "impacts"}
    BY DEF TableNames
  <2> QED
    BY <2>1, <2>2, SamePair
<1>2. PICK lesson : Moved(j, "reviewed", <<lesson>>)
  <2>1. PICK lesson : Holding(j, "reviewed", <<lesson>>)
    BY Zenon DEF ReviewLesson
  <2> QED
    BY <1>0, <2>1, HoldingMoves
<1>3. ~ At(j, "impact") /\ ~ At(j, "failed")
  BY DEF ReviewLesson, At
<1> QED
  BY <1>1, <1>2, <1>3 DEF Quiet

\* The review is shown.
LEMMA ShowReviewQuiet ==
    ASSUME RowsAreHeld, NEW j \in Jobs, ShowReview(j)
    PROVE  Quiet(j)
<1>0. AllJobs(job)
  BY DEF RowsAreHeld
<1>1. tables'.signals = tables.signals /\ tables'.impacts = tables.impacts
  BY DEF ShowReview
<1>2. Moved(j, "done", <<>>)
  BY <1>0, HoldingMoves DEF ShowReview
<1>3. ~ At(j, "impact") /\ ~ At(j, "failed")
  BY DEF ShowReview, At
<1> QED
  BY <1>1, <1>2, <1>3 DEF Quiet

\* A job breaks off.
LEMMA FailQuiet ==
    ASSUME RowsAreHeld, NEW j \in Jobs, Fail(j)
    PROVE  Quiet(j)
<1>0. AllJobs(job)
  BY DEF RowsAreHeld
<1>1. tables'.signals = tables.signals /\ tables'.impacts = tables.impacts
  BY DEF Fail
<1>2. Moved(j, "failed", job[j].held)
  BY <1>0, GotoMoves DEF Fail
<1> QED
  BY <1>1, <1>2 DEF Quiet


\* The rows of a list with one more.
LEMMA OneMoreIndex ==
    ASSUME NEW s, IsRows(s), NEW e
    PROVE  /\ DOMAIN s = 1 .. Len(s) /\ Len(s) \in Nat
           /\ DOMAIN Append(s, e) = 1 .. Len(s) + 1
           /\ Append(s, e)[Len(s) + 1] = e
           /\ \A i \in 1 .. Len(s) : Append(s, e)[i] = s[i]
<1> DEFINE T == ToSet(s) \cup {e}
<1>1. s \in Seq(T)
  <2>1. s \in Seq(ToSet(s)) /\ ToSet(s) \subseteq T
    BY DEF IsRows
  <2> HIDE DEF T
  <2> QED
    BY <2>1
<1>2. e \in T
  OBVIOUS
<1> HIDE DEF T
<1> QED
  BY <1>1, <1>2, LenProperties

\* The id of a row as it is built, and what it is not stamped with.
LEMMA StampedId ==
    ASSUME NEW id, NEW row
    PROVE  Stamp(id, row).id = id
BY DEF Stamp

\* An impact names its signal.
LEMMA StampedImpact ==
    ASSUME NEW id, NEW signal
    PROVE  Stamp(id, Analysis(signal)).signal = signal.id
BY DEF Stamp, Analysis

\* A commit to one table leaves the others alone.
LEMMA OneTable ==
    ASSUME RowsAreHeld, NEW t \in TableNames, NEW row,
           tables' = [tables EXCEPT ![t] = Append(@, row)]
    PROVE  /\ tables'[t] = Append(tables[t], row)
           /\ \A u \in TableNames \ {t} : tables'[u] = tables[u]
<1>1. tables' = [u \in TableNames |-> IF u = t THEN Append(tables[t], row) ELSE tables[u]]
  BY DEF RowsAreHeld, AllTables
<1> QED
  BY <1>1

\* A research cycle begins: it has saved nothing.
LEMMA StartResearchInOrder ==
    ASSUME RowsAreHeld, SignalsInOrder, NEW j \in Jobs, StartResearch(j)
    PROVE  SignalsInOrder'
<1>1. Moved(j, "baselines", job[j].held)
  <2>1. PICK sight : job' = [job EXCEPT ![j].pc = "baselines", ![j].sight = Seen(j, sight)]
    BY DEF StartResearch
  <2> DEFINE once == WithPc(job, j, "baselines")
  <2>2. job' = WithSight(once, j, Seen(j, sight))
    BY <2>1 DEF WithPc, WithSight
  <2>3. /\ AllJobs(once) /\ once[j].pc = "baselines" /\ once[j].held = job[j].held
        /\ \A i \in Jobs \ {j} : once[i] = job[i]
    BY PcColumn DEF RowsAreHeld
  <2> HIDE DEF once
  <2> QED
    BY <2>2, <2>3, SightColumn DEF Moved
<1>2. tables' = tables /\ At(j, "idle")
  BY DEF StartResearch
<1>3. InOrder(j)'
  <2>1. job'[j].pc = "baselines" /\ Stored' = Stored
    BY <1>1, <1>2 DEF Moved, Stored
  <2>2. \A id \in Stored : id[1] # j
    BY <1>2 DEF SignalsInOrder, InOrder, At
  <2> QED
    BY <2>1, <2>2 DEF InOrder, At
<1> QED
  BY <1>1, <1>2, <1>3, ElsewhereInOrder DEF At

\* The signals that a cycle finds get ids of its own.
LEMMA ReadBaselinesInOrder ==
    ASSUME RowsAreHeld, SignalsInOrder, NEW j \in Jobs, ReadBaselines(j)
    PROVE  SignalsInOrder'
<1> DEFINE found == DetectedSignals(baselines, job[j].sight)
           rows == [i \in DOMAIN found |-> Stamp(<<j, i>>, found[i])]
<1>1. Moved(j, "detected", rows)
  <2> HIDE DEF found
  <2>1. job' = [job EXCEPT ![j].pc = "detected", ![j].base = baselines, ![j].held = rows]
    BY DEF ReadBaselines, found
  <2> HIDE DEF rows
  <2> DEFINE once == WithPc(job, j, "detected")
             twice == WithBase(once, j, baselines)
  <2>2. job' = WithHeld(twice, j, rows)
    BY <2>1 DEF WithPc, WithBase, WithHeld
  <2>3. AllJobs(once) /\ once[j].pc = "detected" /\ \A i \in Jobs \ {j} : once[i] = job[i]
    BY PcColumn DEF RowsAreHeld
  <2> HIDE DEF once
  <2>4. AllJobs(twice) /\ twice[j].pc = "detected" /\ \A i \in Jobs \ {j} : twice[i] = job[i]
    BY <2>3, BaseColumn
  <2> HIDE DEF twice
  <2> QED
    BY <2>2, <2>4, HeldColumn DEF Moved
<1>2. tables' = tables /\ At(j, "baselines")
  BY DEF ReadBaselines
<1>3. \A a \in DOMAIN rows : rows[a].id = <<j, a>>
  BY StampedId
<1> HIDE DEF rows
<1>4. InOrder(j)'
  <2>1. job'[j].pc = "detected" /\ job'[j].held = rows /\ Stored' = Stored
    BY <1>1, <1>2 DEF Moved, Stored
  <2>2. \A id \in Stored : id[1] # j
    BY <1>2 DEF SignalsInOrder, InOrder, At
  <2>3. ToSave(j)' = rows
    BY <2>1 DEF ToSave, At
  <2>4. \A a \in DOMAIN rows : rows[a].id[1] = j /\ rows[a].id \notin Stored
    BY <1>3, <2>2
  <2>5. \A a, b \in DOMAIN rows : rows[a].id = rows[b].id => a = b
    BY <1>3
  <2> QED
    BY <2>1, <2>2, <2>3, <2>4, <2>5 DEF InOrder, At
<1> QED
  BY <1>1, <1>2, <1>4, ElsewhereInOrder DEF At

\* The baselines are saved; the signals wait.
LEMMA SaveBaselinesInOrder ==
    ASSUME RowsAreHeld, SignalsInOrder, NEW j \in Jobs, SaveBaselines(j)
    PROVE  SignalsInOrder'
<1> DEFINE pc == IF job[j].held = <<>> THEN AfterSignals(j) ELSE "signal"
<1>1. Moved(j, pc, job[j].held)
  BY GotoMoves DEF SaveBaselines, RowsAreHeld
<1>2. tables' = tables /\ At(j, "detected")
  BY DEF SaveBaselines
<1>3. pc \in {"quant", "submit", "signal"}
  BY DEF AfterSignals
<1> HIDE DEF pc
<1>4. InOrder(j)'
  <2>1. job'[j].pc = pc /\ job'[j].held = job[j].held /\ Stored' = Stored
    BY <1>1, <1>2 DEF Moved, Stored
  <2>2. CASE pc # "signal"
    BY <1>3, <2>1, <2>2, NoSignalsLeft
  <2>3. CASE pc = "signal"
    <3>1. ToSave(j)' = job[j].held /\ ToSave(j) = job[j].held
      BY <1>2, <2>1, <2>3 DEF ToSave, At
    <3>2. InOrder(j)
      BY DEF SignalsInOrder
    <3> QED
      BY <1>2, <2>1, <2>3, <3>1, <3>2 DEF InOrder, At
  <2> QED
    BY <2>2, <2>3
<1> QED
  BY <1>1, <1>2, <1>3, <1>4, ElsewhereInOrder DEF At

\* A signal is saved: it is new, and its impact is in hand.
LEMMA SaveSignalInOrder ==
    ASSUME RowsAreHeld, SignalsInOrder, NEW j \in Jobs, SaveSignal(j)
    PROVE  SignalsInOrder'
<1> DEFINE signal == Head(job[j].held)
           impact == Stamp(signal.id, Analysis(signal))
           rest == Tail(job[j].held)
           rows == <<impact>> \o rest
<1>1. At(j, "signal") /\ tables' = [tables EXCEPT !["signals"] = Append(@, signal)]
  BY DEF SaveSignal, InsertSignal
<1>2. Moved(j, "impact", rows)
  BY HoldingMoves DEF SaveSignal, RowsAreHeld
<1>3. /\ IsRows(job[j].held) /\ job[j].held # <<>>
      /\ IsRows(tables.signals)
  BY <1>1 DEF RowsAreHeld, At, Saving, Replayed
<1>4. impact.signal = signal.id
  BY StampedImpact
<1>5. /\ IsRows(rest) /\ signal = job[j].held[1] /\ 1 \in DOMAIN job[j].held
      /\ DOMAIN rest = 1 .. Len(job[j].held) - 1 /\ Len(job[j].held) \in Nat
      /\ DOMAIN job[j].held = 1 .. Len(job[j].held)
      /\ \A i \in 1 .. Len(job[j].held) - 1 : rest[i] = job[j].held[i + 1]
  BY <1>3, RestOfRows
<1> HIDE DEF impact, signal, rest
<1>6. Head(rows) = impact /\ Tail(rows) = rest
  <2>1. rest \in Seq(ToSet(rest))
    BY <1>5 DEF IsRows
  <2>2. PICK T : rest \in Seq(T) /\ impact \in T
    <3>1. ToSet(rest) \subseteq ToSet(rest) \cup {impact}
      OBVIOUS
    <3>2. rest \in Seq(ToSet(rest) \cup {impact})
      BY <2>1, <3>1
    <3> QED
      BY <3>2
  <2>3. <<impact>> \in Seq(T) /\ Len(<<impact>>) = 1 /\ <<impact>>[1] = impact
    BY <2>2
  <2>4. /\ rows \in Seq(T) /\ Len(rows) = Len(rest) + 1 /\ rows[1] = impact
        /\ \A i \in 1 .. Len(rest) : rows[i + 1] = rest[i]
    BY <2>2, <2>3
  <2>5. Len(rest) \in Nat
    BY <2>2
  <2> HIDE DEF rows
  <2>6. Head(rows) = impact
    BY <2>4, <2>5
  <2>7. Tail(rows) \in Seq(T) /\ Len(Tail(rows)) = Len(rest)
    BY <2>4, <2>5
  <2>8. \A i \in 1 .. Len(rest) : Tail(rows)[i] = rest[i]
    BY <2>4, <2>5
  <2>9. Tail(rows) = rest
    BY <2>2, <2>7, <2>8, SeqEqual
  <2> QED
    BY <2>6, <2>9
<1> HIDE DEF rows
<1>7. tables'.signals = Append(tables.signals, signal) /\ tables'.impacts = tables.impacts
  BY <1>1, OneTable DEF TableNames
<1>8. Stored' = Stored \cup {signal.id}
  BY <1>3, <1>7, OneMoreIndex DEF Stored
<1>9. Explained' = Explained /\ ExplainedOnce'
  BY <1>7 DEF Explained, ExplainedOnce, SignalsInOrder
<1>10. InOrder(j) /\ ToSave(j) = job[j].held
  BY <1>1 DEF SignalsInOrder, ToSave, At
<1>11. /\ \A a \in DOMAIN job[j].held :
            job[j].held[a].id[1] = j /\ job[j].held[a].id \notin Stored
       /\ \A a, b \in DOMAIN job[j].held :
            job[j].held[a].id = job[j].held[b].id => a = b
  BY <1>1, <1>10 DEF InOrder, At
<1>12. signal.id[1] = j /\ signal.id \notin Stored
  BY <1>5, <1>11
<1>13. job'[j].pc = "impact" /\ job'[j].held = rows
  BY <1>2 DEF Moved
<1>14. InOrder(j)'
  <2>1. ToSave(j)' = rest
    BY <1>6, <1>13 DEF ToSave, At
  <2>2. ASSUME NEW a \in DOMAIN rest
        PROVE  rest[a].id[1] = j /\ rest[a].id \notin Stored'
    <3>1. a + 1 \in DOMAIN job[j].held /\ rest[a] = job[j].held[a + 1] /\ a + 1 # 1
      BY <1>5
    <3>2. rest[a].id # signal.id
      BY <1>5, <1>11, <3>1
    <3> QED
      BY <1>8, <1>11, <3>1, <3>2
  <2>3. ASSUME NEW a \in DOMAIN rest, NEW b \in DOMAIN rest, rest[a].id = rest[b].id
        PROVE  a = b
    <3>1. /\ a + 1 \in DOMAIN job[j].held /\ rest[a] = job[j].held[a + 1]
          /\ b + 1 \in DOMAIN job[j].held /\ rest[b] = job[j].held[b + 1]
      BY <1>5
    <3>2. a + 1 = b + 1
      BY <1>11, <2>3, <3>1
    <3> QED
      BY <1>5, <3>2
  <2>4. Head(rows).signal \in Stored' \ Explained' /\ Head(rows).signal[1] = j
    BY <1>4, <1>6, <1>8, <1>9, <1>12 DEF SignalsInOrder
  <2> QED
    BY <1>13, <2>1, <2>2, <2>3, <2>4 DEF InOrder, At
<1>15. \A i \in Jobs : InOrder(i)'
  <2> TAKE i \in Jobs
  <2>1. CASE i # j
    <3>1. job'[i] = job[i] /\ InOrder(i)
      BY <1>2, <2>1 DEF Moved, SignalsInOrder
    <3> QED
      BY <1>8, <1>9, <1>12, <2>1, <3>1, OthersInOrder
  <2> QED
    BY <1>14, <2>1
<1>16. \A id \in Stored' : id \in Explained' \/ Waiting(id)'
  <2> TAKE id \in Stored'
  <2>1. CASE id = signal.id
    BY <1>4, <1>6, <1>12, <1>13, <2>1 DEF Waiting, At
  <2>2. CASE id \in Stored
    <3>1. ~ At(j, "impact") /\ ~ At(j, "failed")
      BY <1>1 DEF At
    <3>2. Waiting(id) => Waiting(id)'
      BY <1>2, <3>1, StillWaiting
    <3> QED
      BY <1>9, <2>2, <3>2 DEF SignalsInOrder
  <2> QED
    BY <1>8, <2>1, <2>2
<1>17. Explained' \subseteq Stored'
  BY <1>8, <1>9 DEF SignalsInOrder
<1> QED
  BY <1>9, <1>15, <1>16, <1>17 DEF SignalsInOrder

\* The impact of a signal is saved: it is the first one.
LEMMA SaveImpactInOrder ==
    ASSUME RowsAreHeld, SignalsInOrder, NEW j \in Jobs, SaveImpact(j)
    PROVE  SignalsInOrder'
<1> DEFINE impact == Head(job[j].held)
           rest == Tail(job[j].held)
           pc == IF Len(job[j].held) = 1 THEN AfterSignals(j) ELSE "signal"
<1>1. At(j, "impact") /\ tables' = [tables EXCEPT !["impacts"] = Append(@, impact)]
  BY DEF SaveImpact, InsertImpact
<1>2. Moved(j, pc, rest)
  BY HoldingMoves DEF SaveImpact, RowsAreHeld
<1>3. pc \in {"quant", "submit", "signal"}
  BY DEF AfterSignals
<1> HIDE DEF impact, rest, pc
<1>4. tables'.impacts = Append(tables.impacts, impact) /\ tables'.signals = tables.signals
  BY <1>1, OneTable DEF TableNames
<1>5. IsRows(tables.impacts)
  BY DEF RowsAreHeld, Replayed
<1>6. Stored' = Stored /\ Explained' = Explained \cup {impact.signal}
  BY <1>4, <1>5, OneMoreIndex DEF Stored, Explained
<1>7. impact.signal \in Stored \ Explained /\ impact.signal[1] = j
  BY <1>1 DEF SignalsInOrder, InOrder, impact
<1>8. ExplainedOnce'
  <2>1. /\ DOMAIN tables.impacts = 1 .. Len(tables.impacts) /\ Len(tables.impacts) \in Nat
        /\ DOMAIN tables'.impacts = 1 .. Len(tables.impacts) + 1
        /\ tables'.impacts[Len(tables.impacts) + 1] = impact
        /\ \A n \in 1 .. Len(tables.impacts) : tables'.impacts[n] = tables.impacts[n]
    BY <1>4, <1>5, OneMoreIndex
  <2>2. \A n \in 1 .. Len(tables.impacts) : tables.impacts[n].signal # impact.signal
    BY <1>7, <2>1 DEF Explained
  <2>3. \A m, n \in 1 .. Len(tables.impacts) :
          tables.impacts[m].signal = tables.impacts[n].signal => m = n
    BY <2>1 DEF SignalsInOrder, ExplainedOnce
  <2>4. ASSUME NEW m \in DOMAIN tables'.impacts, NEW n \in DOMAIN tables'.impacts,
               tables'.impacts[m].signal = tables'.impacts[n].signal
        PROVE  m = n
    <3> DEFINE last == Len(tables.impacts) + 1
    <3>1. /\ m \in 1 .. Len(tables.impacts) \/ m = last
          /\ n \in 1 .. Len(tables.impacts) \/ n = last
      BY <2>1
    <3>2. CASE m = last /\ n = last
      BY <3>2
    <3>3. CASE m = last /\ n \in 1 .. Len(tables.impacts)
      BY <2>1, <2>2, <2>4, <3>3
    <3>4. CASE m \in 1 .. Len(tables.impacts) /\ n = last
      BY <2>1, <2>2, <2>4, <3>4
    <3>5. CASE m \in 1 .. Len(tables.impacts) /\ n \in 1 .. Len(tables.impacts)
      BY <2>1, <2>3, <2>4, <3>5
    <3> QED
      BY <3>1, <3>2, <3>3, <3>4, <3>5
  <2> QED
    BY <2>4 DEF ExplainedOnce
<1>9. InOrder(j)'
  <2>1. job'[j].pc = pc /\ job'[j].held = rest
    BY <1>2 DEF Moved
  <2>2. CASE pc # "signal"
    BY <1>3, <2>1, <2>2, NoSignalsLeft
  <2>3. CASE pc = "signal"
    <3>1. ToSave(j)' = rest /\ ToSave(j) = rest
      BY <1>1, <2>1, <2>3 DEF ToSave, At, rest
    <3>2. InOrder(j)
      BY DEF SignalsInOrder
    <3> QED
      BY <1>1, <1>6, <2>1, <2>3, <3>1, <3>2 DEF InOrder, At
  <2> QED
    BY <2>2, <2>3
<1>10. \A i \in Jobs : InOrder(i)'
  <2> TAKE i \in Jobs
  <2>1. CASE i # j
    <3>1. job'[i] = job[i] /\ InOrder(i)
      BY <1>2, <2>1 DEF Moved, SignalsInOrder
    <3> QED
      BY <1>6, <1>7, <2>1, <3>1, OthersInOrder
  <2> QED
    BY <1>9, <2>1
<1>11. \A id \in Stored' : id \in Explained' \/ Waiting(id)'
  <2> TAKE id \in Stored'
  <2>1. CASE id = impact.signal
    BY <1>6, <2>1
  <2>2. CASE id # impact.signal
    <3>1. Waiting(id) => Waiting(id)'
      BY <1>1, <1>2, <2>2, StillWaiting DEF impact
    <3> QED
      BY <1>6, <3>1 DEF SignalsInOrder
  <2> QED
    BY <2>1, <2>2
<1>12. Explained' \subseteq Stored'
  BY <1>6, <1>7 DEF SignalsInOrder
<1> QED
  BY <1>8, <1>10, <1>11, <1>12 DEF SignalsInOrder

\* Every step keeps the order of signals and impacts.
LEMMA StepInOrder ==
    ASSUME RowsAreHeld, SignalsInOrder, [Next]_vars
    PROVE  SignalsInOrder'
<1>1. CASE tables' = tables /\ job' = job
  <2>1. Stored' = Stored /\ Explained' = Explained /\ (ExplainedOnce <=> ExplainedOnce')
    BY <1>1 DEF Stored, Explained, ExplainedOnce
  <2>2. \A id : Waiting(id) <=> Waiting(id)'
    BY <1>1 DEF Waiting, At
  <2>3. \A j \in Jobs : InOrder(j) => InOrder(j)'
    BY <1>1, <2>1 DEF InOrder, ToSave, At
  <2> QED
    BY <2>1, <2>2, <2>3 DEF SignalsInOrder
<1>2. ASSUME NEW j \in Jobs, JobStep(j)
      PROVE  SignalsInOrder'
  <2>1. CASE StartResearch(j)
    BY <2>1, StartResearchInOrder
  <2>2. CASE ReadBaselines(j)
    BY <2>2, ReadBaselinesInOrder
  <2>3. CASE SaveBaselines(j)
    BY <2>3, SaveBaselinesInOrder
  <2>4. CASE SaveSignal(j)
    BY <2>4, SaveSignalInOrder
  <2>5. CASE SaveImpact(j)
    BY <2>5, SaveImpactInOrder
  <2>6. CASE RunQuant(j)
    BY <2>6, RunQuantQuiet, QuietInOrder
  <2>7. CASE PersistView(j)
    BY <2>7, PersistViewQuiet, QuietInOrder
  <2>8. CASE Submit(j)
    BY <2>8, SubmitQuiet, QuietInOrder
  <2>9. CASE BeginBrief(j) \/ ReadForBrief(j)
    BY <2>9, ReadForBriefQuiet, QuietInOrder
  <2>10. CASE SaveBrief(j)
    BY <2>10, SaveBriefQuiet, QuietInOrder
  <2>11. CASE StartScenario(j)
    BY <2>11, StartScenarioQuiet, QuietInOrder
  <2>12. CASE StartComparison(j)
    BY <2>12, StartComparisonQuiet, QuietInOrder
  <2>13. CASE SaveRun(j)
    BY <2>13, SaveRunQuiet, QuietInOrder
  <2>14. CASE StartMemory(j)
    BY <2>14, StartMemoryQuiet, QuietInOrder
  <2>15. CASE SaveMemory(j)
    BY <2>15, SaveMemoryQuiet, QuietInOrder
  <2>16. CASE SaveLesson(j)
    BY <2>16, SaveLessonQuiet, QuietInOrder
  <2>17. CASE ReviewLesson(j)
    BY <2>17, ReviewLessonQuiet, QuietInOrder
  <2>18. CASE ShowReview(j)
    BY <2>18, ShowReviewQuiet, QuietInOrder
  <2>19. CASE Fail(j)
    BY <2>19, FailQuiet, QuietInOrder
  <2> QED
    BY <1>2, <2>1, <2>2, <2>3, <2>4, <2>5, <2>6, <2>7, <2>8, <2>9, <2>10,
       <2>11, <2>12, <2>13, <2>14, <2>15, <2>16, <2>17, <2>18, <2>19
       DEF JobStep
<1>3. UNCHANGED vars \/ Tick => tables' = tables /\ job' = job
  BY DEF vars, Tick
<1> QED
  BY <1>1, <1>2, <1>3 DEF Next

\* There are no signals at the start.
LEMMA InitInOrder ==
    Init => SignalsInOrder
<1> SUFFICES ASSUME Init PROVE SignalsInOrder
  OBVIOUS
<1>1. tables.signals = <<>> /\ tables.impacts = <<>>
  BY DEF Init, NoRows
<1>2. Stored = {} /\ Explained = {} /\ ExplainedOnce
  BY <1>1 DEF Stored, Explained, ExplainedOnce
<1>3. \A j \in Jobs : job[j].pc = "idle"
  BY DEF Init, Idle
<1>4. \A j \in Jobs : InOrder(j)
  BY <1>2, <1>3 DEF InOrder, At
<1> QED
  BY <1>2, <1>4 DEF SignalsInOrder

\* What the order says of a stored signal.
LEMMA OrderExplains ==
    ASSUME SignalsInOrder
    PROVE  EverySignalIsExplained
<1>1. ASSUME NEW i \in DOMAIN tables.signals
      PROVE  LET own == {n \in DOMAIN tables.impacts :
                           tables.impacts[n].signal = tables.signals[i].id}
             IN  Cardinality(own) = 1 \/ (own = {} /\ AwaitsImpact(tables.signals[i].id))
  <2> DEFINE id == tables.signals[i].id
             own == {n \in DOMAIN tables.impacts : tables.impacts[n].signal = id}
  <2>1. id \in Stored
    BY DEF Stored
  <2> HIDE DEF id
  <2>2. CASE id \in Explained
    <3>1. PICK n \in DOMAIN tables.impacts : tables.impacts[n].signal = id
      BY <2>2 DEF Explained
    <3>2. own = {n}
      BY <3>1 DEF SignalsInOrder, ExplainedOnce
    <3>3. Cardinality(own) = 1
      BY <3>2, FS_Singleton
    <3> QED
      BY <3>3 DEF id
  <2>3. CASE id \notin Explained
    <3>1. own = {}
      BY <2>3 DEF Explained
    <3>2. Waiting(id)
      BY <2>1, <2>3 DEF SignalsInOrder
    <3>3. AwaitsImpact(id)
      BY <3>2 DEF Waiting, AwaitsImpact, At
    <3> QED
      BY <3>1, <3>3 DEF id
  <2> QED
    BY <2>2, <2>3
<1>2. \A n \in DOMAIN tables.impacts :
        \E i \in DOMAIN tables.signals : tables.signals[i].id = tables.impacts[n].signal
  BY DEF SignalsInOrder, Explained, Stored
<1> QED
  BY <1>1, <1>2 DEF EverySignalIsExplained

\* Signals and impacts are saved in order, whatever the interleaving of the cycles
\* (_run_alpha_signal_detection).
THEOREM SignalsAreInOrder == Spec => []SignalsInOrder
<1>1. RowsAreHeld /\ SignalsInOrder /\ [Next]_vars => SignalsInOrder'
  BY StepInOrder
<1> QED
  BY <1>1, InitInOrder, RowsHeld, PTL DEF Spec

\* A stored signal has exactly one impact analysis, and no analysis is without its
\* signal, but for the signal whose job is just between the two, or has failed there
\* (_run_alpha_signal_detection).
THEOREM SignalsAreExplained == Spec => []EverySignalIsExplained
<1>1. SignalsInOrder => EverySignalIsExplained
  BY OrderExplains
<1> QED
  BY <1>1, SignalsAreInOrder, PTL

-----------------------------------------------------------------------------
(* What an answer of the chat depends on *)

\* Each tool of one part of the desk answers the same on two desks that agree on that part
\* (the tools of chat_agent).
LEMMA ToolsOfOnePart ==
    ASSUME NEW q, NEW d, NEW e
    PROVE  /\ d.ideas = e.ideas => WhatInvalidates(d) = WhatInvalidates(e)
           /\ d.ideas = e.ideas => ShowEvidence(d) = ShowEvidence(e)
           /\ d.decisions = e.decisions => MostDisagreeing(d) = MostDisagreeing(e)
           /\ d.results = e.results => \A type : LatestOf(d, type) = LatestOf(e, type)
           /\ d.book = e.book => RunNamedScenario(q, d) = RunNamedScenario(q, e)
           /\ d.book = e.book => ScenarioComparison(d) = ScenarioComparison(e)
           /\ d.book = e.book => TopRisks(d) = TopRisks(e)
           /\ d.signals = e.signals => WhatChangedOvernight(d) = WhatChangedOvernight(e)
           /\ d.views = e.views => AgentConsensusView(d) = AgentConsensusView(e)
           /\ d.briefs = e.briefs => OvernightBrief(d) = OvernightBrief(e)
           /\ d.news = e.news => TodaysMove(d) = TodaysMove(e)
<1>1. d.ideas = e.ideas => WhatInvalidates(d) = WhatInvalidates(e)
  BY DEF WhatInvalidates
<1>2. d.ideas = e.ideas => ShowEvidence(d) = ShowEvidence(e)
  BY DEF ShowEvidence
<1>3. d.decisions = e.decisions => MostDisagreeing(d) = MostDisagreeing(e)
  BY DEF MostDisagreeing
<1>4. d.results = e.results => \A type : LatestOf(d, type) = LatestOf(e, type)
  <2> DEFINE said(results, type) ==
        LET own == SelectSeq(results, LAMBDA r : r.type = type)
        IN  IF own = <<>> THEN Nothing
            ELSE ToolResult(<<Last(own).says>>, {<<"result", Last(own).id>>})
  <2>1. \A type : LatestOf(d, type) = said(d.results, type) /\ LatestOf(e, type) = said(e.results, type)
    BY DEF LatestOf
  <2> HIDE DEF said
  <2> QED
    BY <2>1
<1>5. d.book = e.book => RunNamedScenario(q, d) = RunNamedScenario(q, e)
  BY DEF RunNamedScenario
<1>6. d.book = e.book => ScenarioComparison(d) = ScenarioComparison(e)
  BY DEF ScenarioComparison
<1>7. d.book = e.book => TopRisks(d) = TopRisks(e)
  BY DEF TopRisks
<1>8. d.signals = e.signals => WhatChangedOvernight(d) = WhatChangedOvernight(e)
  BY DEF WhatChangedOvernight
<1>9. d.views = e.views => AgentConsensusView(d) = AgentConsensusView(e)
  BY DEF AgentConsensusView
<1>10. d.briefs = e.briefs => OvernightBrief(d) = OvernightBrief(e)
  BY DEF OvernightBrief
<1>11. d.news = e.news => TodaysMove(d) = TodaysMove(e)
  BY DEF TodaysMove
<1> QED
  BY <1>1, <1>2, <1>3, <1>4, <1>5, <1>6, <1>7, <1>8, <1>9, <1>10, <1>11

\* Each tool of several parts answers the same on two desks that agree on all of them.
LEMMA ToolsOfMoreParts ==
    ASSUME NEW q, NEW d, NEW e
    PROVE  /\ d.ideas = e.ideas /\ d.decisions = e.decisions => WhyBias(q, d) = WhyBias(q, e)
           /\ d.signals = e.signals /\ d.impacts = e.impacts =>
                WhyDoesItMatter(d) = WhyDoesItMatter(e)
           /\ d.memories = e.memories /\ d.lessons = e.lessons =>
                DecisionMemory5(d) = DecisionMemory5(e)
           /\ d.tables = e.tables /\ d.now = e.now => ReplaySnapshot(q, d) = ReplaySnapshot(q, e)
           /\ d.results = e.results /\ d.now = e.now => WhatChanged(q, d) = WhatChanged(q, e)
           /\ d.curve = e.curve /\ d.ideas = e.ideas /\ d.halted = e.halted =>
                GeneralStatus(d) = GeneralStatus(e)
<1>1. d.ideas = e.ideas /\ d.decisions = e.decisions => WhyBias(q, d) = WhyBias(q, e)
  <2> DEFINE about(ideas, decisions) == SelectSeq(decisions, LAMBDA v : v.id = Last(ideas).id)
             said(ideas, verdicts) ==
               LET trade == Last(ideas) IN
               ToolResult(
                IF Says(q, "argument") /\ Says(q, "against")
                THEN <<trade.side, [i \in DOMAIN verdicts |-> verdicts[i].against], trade.risks>>
                ELSE <<trade.side, trade.catalysts, [i \in DOMAIN verdicts |-> verdicts[i].for]>>,
                {<<"trade_idea", trade.id>>})
  <2>1. /\ WhyBias(q, d) = IF d.ideas = <<>> THEN Nothing ELSE said(d.ideas, about(d.ideas, d.decisions))
        /\ WhyBias(q, e) = IF e.ideas = <<>> THEN Nothing ELSE said(e.ideas, about(e.ideas, e.decisions))
    BY DEF WhyBias
  <2> HIDE DEF about, said
  <2> QED
    BY <2>1
<1>2. d.signals = e.signals /\ d.impacts = e.impacts => WhyDoesItMatter(d) = WhyDoesItMatter(e)
  <2> DEFINE said(signals, impacts) ==
        LET top == StrongestFirst(signals, 1)
            own == SelectSeq(impacts, LAMBDA a : top # <<>> /\ a.signal = top[1].id)
        IN  IF impacts = <<>> THEN Nothing
            ELSE LET one == IF own = <<>> THEN Last(impacts) ELSE own[1]
                 IN  ToolResult(<<one>>, Cite("impact", <<one>>))
  <2>1. /\ WhyDoesItMatter(d) = said(d.signals, d.impacts)
        /\ WhyDoesItMatter(e) = said(e.signals, e.impacts)
    BY DEF WhyDoesItMatter
  <2> HIDE DEF said
  <2> QED
    BY <2>1
<1>3. d.memories = e.memories /\ d.lessons = e.lessons => DecisionMemory5(d) = DecisionMemory5(e)
  <2> DEFINE pending(lessons) == SelectSeq(lessons, LAMBDA l : l.status = "PENDING")
             said(memories, waiting) ==
               LET top == LastOf(memories, 5) IN
               IF top = <<>> THEN Nothing
               ELSE ToolResult(<<Reverse(top), Len(waiting), Len(memories)>>, Cite("memory", top))
  <2>1. /\ DecisionMemory5(d) = said(d.memories, pending(d.lessons))
        /\ DecisionMemory5(e) = said(e.memories, pending(e.lessons))
    BY DEF DecisionMemory5
  <2> HIDE DEF pending, said
  <2> QED
    BY <2>1
<1>4. d.tables = e.tables /\ d.now = e.now => ReplaySnapshot(q, d) = ReplaySnapshot(q, e)
  BY DEF ReplaySnapshot
<1>5. d.results = e.results /\ d.now = e.now => WhatChanged(q, d) = WhatChanged(q, e)
  <2> DEFINE since(results, now) == SelectSeq(results, LAMBDA r : r.at >= now - OrElse(q.hours, 6))
             said(last) ==
               IF last = <<>> THEN Nothing
               ELSE ToolResult([i \in DOMAIN LastOf(last, 5) |-> LastOf(last, 5)[i].says],
                               {<<"log", "recent">>})
  <2>1. /\ WhatChanged(q, d) = said(since(d.results, d.now))
        /\ WhatChanged(q, e) = said(since(e.results, e.now))
    BY DEF WhatChanged
  <2> HIDE DEF since, said
  <2> QED
    BY <2>1
<1>6. d.curve = e.curve /\ d.ideas = e.ideas /\ d.halted = e.halted =>
        GeneralStatus(d) = GeneralStatus(e)
  BY DEF GeneralStatus
<1> QED
  BY <1>1, <1>2, <1>3, <1>4, <1>5, <1>6

\* An answer depends on nothing but what the permission of its topic covers
\* (chat_agent.ask, which checks that permission before it calls the tool).
THEOREM AnswersKeepToWhatIsCovered ==
    ASSUME NEW q, NEW d, NEW e,
           \A f \in CoveredBy(ToolPermission(Route(q))) : d[f] = e[f]
    PROVE  Answer(q, d) = Answer(q, e)
<1> DEFINE topic == Route(q)
<1>1. CASE topic \in {"why_bias", "what_invalidates", "most_disagreeing_agent", "show_evidence"}
  <2>1. d.ideas = e.ideas /\ d.decisions = e.decisions
    BY <1>1 DEF ToolPermission, CoveredBy
  <2> QED
    BY <1>1, <2>1, ToolsOfOnePart, ToolsOfMoreParts DEF Answer
<1>2. CASE topic \in {"weather_run_delta", "compare_forecast_vs_consensus"}
  <2>1. d.results = e.results
    BY <1>2 DEF ToolPermission, CoveredBy
  <2> QED
    BY <1>2, <2>1, ToolsOfOnePart DEF Answer
<1>3. CASE topic \in {"run_named_scenario", "top_risks", "scenario_comparison"}
  <2>1. d.book = e.book
    BY <1>3 DEF ToolPermission, CoveredBy
  <2> QED
    BY <1>3, <2>1, ToolsOfOnePart DEF Answer
<1>4. CASE topic = "what_changed_overnight"
  <2>1. d.signals = e.signals
    BY <1>4 DEF ToolPermission, CoveredBy
  <2> QED
    BY <1>4, <2>1, ToolsOfOnePart DEF Answer
<1>5. CASE topic = "why_does_it_matter"
  <2>1. d.signals = e.signals /\ d.impacts = e.impacts
    BY <1>5 DEF ToolPermission, CoveredBy
  <2> QED
    BY <1>5, <2>1, ToolsOfMoreParts DEF Answer
<1>6. CASE topic = "agent_consensus"
  <2>1. d.views = e.views
    BY <1>6 DEF ToolPermission, CoveredBy
  <2> QED
    BY <1>6, <2>1, ToolsOfOnePart DEF Answer
<1>7. CASE topic = "decision_memory"
  <2>1. d.memories = e.memories /\ d.lessons = e.lessons
    BY <1>7 DEF ToolPermission, CoveredBy
  <2> QED
    BY <1>7, <2>1, ToolsOfMoreParts DEF Answer
<1>8. CASE topic = "replay_snapshot"
  <2>1. d.tables = e.tables /\ d.now = e.now
    BY <1>8 DEF ToolPermission, CoveredBy
  <2> QED
    BY <1>8, <2>1, ToolsOfMoreParts DEF Answer
<1>9. CASE topic = "overnight_brief"
  <2>1. d.briefs = e.briefs
    BY <1>9 DEF ToolPermission, CoveredBy
  <2> QED
    BY <1>9, <2>1, ToolsOfOnePart DEF Answer
<1>10. CASE topic \in {"what_changed", "general_status"}
  <2>1. /\ d.results = e.results /\ d.now = e.now
        /\ d.ideas = e.ideas /\ d.curve = e.curve /\ d.halted = e.halted
    BY <1>10 DEF ToolPermission, CoveredBy
  <2> QED
    BY <1>10, <2>1, ToolsOfMoreParts DEF Answer
<1>11. CASE topic = "todays_move"
  <2>1. d.news = e.news
    BY <1>11 DEF ToolPermission, CoveredBy
  <2> QED
    BY <1>11, <2>1, ToolsOfOnePart DEF Answer
<1>12. CASE topic \notin {"why_bias", "what_invalidates", "most_disagreeing_agent",
                          "show_evidence", "weather_run_delta",
                          "compare_forecast_vs_consensus", "run_named_scenario", "top_risks",
                          "scenario_comparison", "what_changed_overnight",
                          "why_does_it_matter", "agent_consensus", "decision_memory",
                          "replay_snapshot", "overnight_brief", "what_changed",
                          "general_status", "todays_move"}
  BY <1>12 DEF Answer
<1> QED
  BY <1>1, <1>2, <1>3, <1>4, <1>5, <1>6, <1>7, <1>8, <1>9, <1>10, <1>11, <1>12
=============================================================================
