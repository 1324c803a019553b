------------------------- MODULE AgentVersionsProofs -------------------------
(***************************************************************************)
(* For any number of requests, workers, versions, models and faults:       *)
(* AgentVersions keeps its types, a version only reaches PRODUCTION by way *)
(* of TESTING and APPROVED however the transitions interleave, an agent    *)
(* only runs with what was evaluated, a promotion that is not overtaken    *)
(* leaves one PRODUCTION version, and rollbacks leave an audit trail.      *)
(***************************************************************************)
EXTENDS AgentVersions, TLAPS

\* A sequence rebuilt element by element.
LEMMA SeqOf ==
    ASSUME NEW S, NEW s \in Seq(S), NEW t,
           t = [i \in DOMAIN s |-> t[i]], \A i \in DOMAIN s : t[i] \in S
    PROVE  t \in Seq(S) /\ Len(t) = Len(s) /\ DOMAIN t = DOMAIN s
  OBVIOUS

(* Types of what the actions assign.                                       *)

LEMMA ProcType == \A k \in Jobs : ProcessOf(k) \in Processes
  BY DEF ProcessOf, Jobs, Processes

\* A job that ended is a job record.
LEMMA IdleType == Idle \in JobRecords
  BY BoundAssumption DEF Idle, JobRecords, Steps, Statuses

\* A fresh draft is a row.
LEMMA DraftType == ASSUME NEW m \in Models \cup {NoModel}, NEW p \in BOOLEAN
  PROVE Draft(m,p) \in VersionRows
  BY DEF Draft, VersionRows, Statuses

\* A commit replaces rows in place: no row goes, no status is forgotten.
LEMMA WrittenLemma ==
  ASSUME TypeOK, NEW k \in Jobs
  PROVE  /\ Written(k) \in Seq(VersionRows)
         /\ Len(Written(k)) = Len(version)
         /\ DOMAIN Written(k) = DOMAIN version
         /\ \A i \in DOMAIN version :
              /\ Written(k)[i].model = version[i].model
              /\ version[i].been \subseteq Written(k)[i].been
<1> DEFINE w == Written(k)
<1>1. job[k].to \in Statuses
  BY DEF TypeOK, JobRecords
<1>2. \A i \in DOMAIN version : w[i] \in VersionRows
  <2> SUFFICES ASSUME NEW i \in DOMAIN version PROVE w[i] \in VersionRows
    OBVIOUS
  <2>1. version[i] \in VersionRows
    BY DEF TypeOK
  <2>. QED
    BY <1>1, <2>1 DEF Written, VersionRows, Statuses
<1>3. w = [i \in DOMAIN version |-> w[i]]
  BY DEF Written
<1>4. version \in Seq(VersionRows)
  BY DEF TypeOK
<1>5. w \in Seq(VersionRows) /\ Len(w) = Len(version) /\ DOMAIN w = DOMAIN version
  <2> HIDE DEF w
  <2> QED BY <1>2, <1>3, <1>4, SeqOf
<1>6. ASSUME NEW i \in DOMAIN version
      PROVE w[i].model = version[i].model /\ version[i].been \subseteq w[i].been
  <2>1. version[i] \in VersionRows
    BY DEF TypeOK
  <2>. QED
    BY <1>1, <2>1 DEF Written, VersionRows, Statuses
<1>. QED
  BY <1>5, <1>6

\* The bounds, one by one.
LEMMA Bounds ==
    /\ MaxVersions \in Nat /\ MaxModelRows \in Nat /\ MaxBoots \in Nat
    /\ MaxRequests \in Nat /\ MaxFaults \in Nat
  BY BoundAssumption

\* Ending a job keeps the types of what it assigns.
LEMMA EndType ==
  ASSUME TypeOK, NEW k \in Jobs, End(k)
  PROVE  /\ job' \in [Jobs -> JobRecords]
         /\ process' \in [Processes -> {"down", "booting", "up"}]
         /\ failed' \in BOOLEAN
<1>1. job' \in [Jobs -> JobRecords]
  BY IdleType DEF TypeOK, End
<1>2. process' \in [Processes -> {"down", "booting", "up"}]
  BY DEF TypeOK, End
<1>3. failed' \in BOOLEAN
  BY DEF TypeOK, End
<1>. QED
  BY <1>1, <1>2, <1>3

\* So does moving it to another step.
LEMMA StepType ==
  ASSUME TypeOK, NEW k \in Jobs, NEW s \in Steps, Step(k, s)
  PROVE  job' \in [Jobs -> JobRecords]
  BY DEF TypeOK, Step, JobRecords

\* So does starting it on a row.
LEMMA ReadRowType ==
  ASSUME TypeOK, NEW k \in Jobs, NEW v \in DOMAIN version, NEW s \in Statuses,
         ReadRow(k, v, s)
  PROVE  job' \in [Jobs -> JobRecords]
<1>1. v \in 0 .. MaxVersions
  BY BoundAssumption DEF TypeOK
<1>2. NextRead(s, version[v].model) \in Steps
  BY DEF NextRead, Steps
<1>. DEFINE r == [Idle EXCEPT !.v = v, !.to = s,
                              !.step = NextRead(s, version[v].model)]
<1>3. r \in JobRecords
  BY <1>1, <1>2, IdleType DEF JobRecords
<1>4. job' = [job EXCEPT ![k] = r]
  BY DEF ReadRow
<1>. QED
  BY <1>3, <1>4 DEF TypeOK

\* The empty tables have their types.
LEMMA InitType == Init => TypeOK
<1> SUFFICES ASSUME Init PROVE TypeOK
  OBVIOUS
<1>1. job \in [Jobs -> JobRecords]
  BY IdleType DEF Init
<1>2. version \in Seq(VersionRows) /\ Len(version) <= MaxVersions
  <2>1. MaxVersions \in Nat
    BY BoundAssumption
  <2>. QED
    BY <2>1 DEF Init
<1>3. live \in [Processes -> [prompt : 0 .. MaxVersions, model : Models]]
  BY BoundAssumption, ModelAssumption DEF Init, Fresh
<1>4. process \in [Processes -> {"down", "booting", "up"}]
  BY DEF Init
<1>5. boots \in 0 .. MaxBoots /\ requests \in 0 .. MaxRequests /\ faults \in 0 .. MaxFaults
  BY Bounds DEF Init
<1>6. modelRow \in Seq(ModelRows)
  BY DEF Init
<1>. QED
  BY <1>1, <1>2, <1>3, <1>4, <1>5, <1>6 DEF Init, TypeOK

\* Every step keeps the types; applying a version needs it to be a row.
LEMMA StepKeepsTypes == Inductive /\ [Next]_vars => TypeOK'
<1> SUFFICES ASSUME TypeOK, \A k \in Jobs : JobReady(job[k]), [Next]_vars
             PROVE  TypeOK'
  BY DEF Inductive
<1>p. \A p \in Processes : p \in Jobs
  BY DEF Jobs
<1>h. \A h \in Handlers : h \in Jobs
  BY DEF Jobs
<1>1. ASSUME NEW p \in Processes, Boot(p) PROVE TypeOK'
  <2>1. job' \in [Jobs -> JobRecords]
    BY <1>1, <1>p, StepType DEF Boot, Steps
  <2>2. boots' \in 0 .. MaxBoots
    BY <1>1, BoundAssumption DEF Boot, TypeOK
  <2>. QED
    BY <1>1, <2>1, <2>2 DEF Boot, TypeOK
<1>2. ASSUME NEW p \in Processes, Crash(p) PROVE TypeOK'
  <2>1. job' \in [Jobs -> JobRecords]
    BY <1>2, IdleType DEF Crash, TypeOK
  <2>2. live' \in [Processes -> [prompt : 0 .. MaxVersions, model : Models]]
    BY <1>2, BoundAssumption, ModelAssumption DEF Crash, TypeOK, Fresh
  <2>3. faults' \in 0 .. MaxFaults
    BY <1>2, BoundAssumption DEF Crash, TypeOK
  <2>4. failed' \in BOOLEAN
    BY <1>2 DEF Crash, TypeOK
  <2>. QED
    BY <1>2, <2>1, <2>2, <2>3, <2>4 DEF Crash, TypeOK
<1>3. ASSUME NEW p \in Processes, SeedRead(p) PROVE TypeOK'
  <2>1. job' \in [Jobs -> JobRecords]
    BY <1>3, <1>p, StepType DEF SeedRead, Steps
  <2>. QED
    BY <1>3, <2>1 DEF SeedRead, TypeOK, counts
<1>4. ASSUME NEW p \in Processes, SeedInsert(p) PROVE TypeOK'
  <2>1. job' \in [Jobs -> JobRecords]
    BY <1>4, <1>p, StepType DEF SeedInsert, Steps
  <2>2. modelRow' \in Seq(ModelRows)
    BY <1>4, ModelAssumption DEF SeedInsert, TypeOK, ModelRows, ModelStatuses
  <2>. QED
    BY <1>4, <2>1, <2>2, ModelAssumption DEF SeedInsert, TypeOK, counts
<1>5. ASSUME NEW p \in Processes, LookForProduction(p) PROVE TypeOK'
  <2>1. CASE End(p)
    BY <1>5, <1>p, <2>1, EndType DEF LookForProduction, TypeOK, counts
  <2>2. CASE ~End(p)
    <3>1. job' \in [Jobs -> JobRecords]
      BY <1>5, <1>p, <2>2, StepType DEF LookForProduction, Steps
    <3>. QED
      BY <1>5, <2>2, <3>1 DEF LookForProduction, TypeOK, counts
  <2>. QED
    BY <2>1, <2>2
<1>6. ASSUME NEW p \in Processes, SeedDraft(p) PROVE TypeOK'
  <2>1. version' \in Seq(VersionRows) /\ Len(version') <= MaxVersions
    <3>1. Draft(DefaultModel, FALSE) \in VersionRows
      BY DraftType, ModelAssumption
    <3>. QED
      <4>. DEFINE d == Draft(DefaultModel, FALSE)
      <4>1. version \in Seq(VersionRows) /\ Len(version) < MaxVersions
        BY <1>6 DEF SeedDraft, TypeOK
      <4>2. version' = Append(version, d)
        BY <1>6 DEF SeedDraft
      <4>3. d \in VersionRows
        BY <3>1
      <4>. HIDE DEF d
      <4>. QED
        BY <4>3, <4>1, <4>2, Bounds
  <2>2. [Idle EXCEPT !.step = "read", !.v = Len(version) + 1, !.to = "TESTING"]
          \in JobRecords
    <3>1. Len(version) + 1 \in 0 .. MaxVersions
      BY <1>6, BoundAssumption DEF SeedDraft, TypeOK
    <3>. QED
      BY <3>1, IdleType DEF JobRecords, Steps, Statuses
  <2>. QED
    BY <1>6, <1>p, <2>1, <2>2 DEF SeedDraft, TypeOK, counts
<1>7. ASSUME NEW p \in Processes, SeedTransition(p) PROVE TypeOK'
  <2>1. CASE End(p)
    BY <1>7, <1>p, <2>1, EndType DEF SeedTransition, TypeOK, counts
  <2>2. CASE ~End(p)
    <3>1. job[p].v \in DOMAIN version /\ job[p].to \in Statuses
      BY <1>7, <1>p DEF SeedTransition, JobReady, TypeOK, JobRecords
    <3>2. ReadRow(p, job[p].v, job[p].to)
      BY <1>7, <2>2 DEF SeedTransition
    <3>3. job' \in [Jobs -> JobRecords]
      BY <1>p, <3>1, <3>2, ReadRowType
    <3>. QED
      BY <1>7, <2>2, <3>3 DEF SeedTransition, TypeOK, counts
  <2>. QED
    BY <2>1, <2>2
<1>8. ASSUME NEW k \in Jobs, ReadModel(k) PROVE TypeOK'
  <2>1. CASE End(k)
    BY <1>8, <2>1, EndType DEF ReadModel, TypeOK, counts
  <2>2. CASE ~End(k)
    <3>1. job' \in [Jobs -> JobRecords]
      BY <1>8, <2>2, StepType DEF ReadModel, Steps
    <3>. QED
      BY <1>8, <2>2, <3>1 DEF ReadModel, TypeOK, counts
  <2>. QED
    BY <2>1, <2>2
<1>9. ASSUME NEW k \in Jobs, ReadPrior(k) PROVE TypeOK'
  <2>1. Production \subseteq Ids
    BY BoundAssumption DEF Production, Ids, TypeOK
  <2>2. job' \in [Jobs -> JobRecords]
    <3>. DEFINE r == [job[k] EXCEPT !.step = "commit", !.prior = Production]
    <3>1. r \in JobRecords
      BY <2>1 DEF TypeOK, JobRecords, Steps
    <3>2. job' = [job EXCEPT ![k] = r]
      BY <1>9 DEF ReadPrior, TypeOK
    <3>. QED
      BY <3>1, <3>2 DEF TypeOK
  <2>. QED
    BY <1>9, <2>2 DEF ReadPrior, TypeOK, counts
<1>10. ASSUME NEW k \in Jobs, Commit(k) PROVE TypeOK'
  <2>1. AfterCommit(k) \in JobRecords
    BY IdleType DEF AfterCommit, TypeOK, JobRecords, Steps, Statuses
  <2>2. \A j \in Jobs : [job[j] EXCEPT !.stale = TRUE] \in JobRecords
    BY DEF TypeOK, JobRecords
  <2>3. job' \in [Jobs -> JobRecords]
    BY <1>10, <2>1, <2>2 DEF Commit, TypeOK
  <2>. QED
    BY <1>10, <2>3, WrittenLemma DEF Commit, TypeOK, counts
<1>11. ASSUME NEW k \in Jobs, ReadProduction(k) PROVE TypeOK'
  <2>1. CASE End(k)
    BY <1>11, <2>1, EndType DEF ReadProduction, TypeOK, counts
  <2>2. CASE ~End(k)
    <3>1. (IF Production = {} THEN 0 ELSE CHOOSE i \in Production : TRUE)
            \in 0 .. MaxVersions
      BY BoundAssumption DEF Production, TypeOK
    <3>2. job' \in [Jobs -> JobRecords]
      <4>. DEFINE f == IF Production = {} THEN 0 ELSE CHOOSE i \in Production : TRUE
                  r == [job[k] EXCEPT !.step = "apply", !.found = f]
      <4>1. r \in JobRecords
        BY <3>1 DEF TypeOK, JobRecords, Steps
      <4>2. job' = [job EXCEPT ![k] = r]
        BY <1>11, <2>2 DEF ReadProduction, TypeOK
      <4>. QED
        BY <4>1, <4>2 DEF TypeOK
    <3>. QED
      BY <1>11, <2>2, <3>2 DEF ReadProduction, TypeOK, counts
  <2>. QED
    BY <2>1, <2>2
<1>12. ASSUME NEW k \in Jobs, Apply(k) PROVE TypeOK'
  <2>1. ProcessOf(k) \in Processes
    BY ProcType
  <2>2. PICK a \in [prompt : 0 .. MaxVersions, model : Models] :
          a = live[ProcessOf(k)]
    BY <2>1 DEF TypeOK
  <2>3. Configured(a, job[k].found)
          \in [prompt : 0 .. MaxVersions, model : Models]
    <3>1. CASE job[k].found = 0
      BY <2>2, <3>1, BoundAssumption DEF Configured
    <3>2. CASE job[k].found # 0
      <4>1. /\ job[k].found \in DOMAIN version
            /\ job[k].found \in 0 .. MaxVersions
        BY <1>12, <3>2 DEF Apply, JobReady, TypeOK, JobRecords
      <4>2. version[job[k].found] \in VersionRows
        BY <4>1 DEF TypeOK
      <4>. QED
        BY <2>2, <3>2, <4>1, <4>2, BoundAssumption DEF Configured, VersionRows
    <3>. QED
      BY <3>1, <3>2
  <2>4. live' \in [Processes -> [prompt : 0 .. MaxVersions, model : Models]]
    BY <1>12, <2>1, <2>2, <2>3 DEF Apply, TypeOK
  <2>5. job' \in [Jobs -> JobRecords]
    BY <1>12, IdleType, StepType DEF Apply, Steps, TypeOK
  <2>6. process' \in [Processes -> {"down", "booting", "up"}]
    BY <1>12 DEF Apply, TypeOK
  <2>. QED
    BY <1>12, <2>4, <2>5, <2>6 DEF Apply, TypeOK, counts
<1>13. ASSUME NEW h \in Handlers, CallFails(h) PROVE TypeOK'
  <2>1. faults' \in 0 .. MaxFaults
    BY <1>13, BoundAssumption DEF CallFails, TypeOK
  <2>. QED
    BY <1>13, <1>h, <2>1, EndType DEF CallFails, TypeOK
<1>14. ASSUME NEW h \in Handlers, RecordAudit(h) PROVE TypeOK'
  <2>1. <<job[h].v, job[h].to>> \in (0 .. MaxVersions) \X Statuses
    BY <1>h DEF TypeOK, JobRecords
  <2>2. job' \in [Jobs -> JobRecords]
    BY <1>14, IdleType DEF RecordAudit, TypeOK
  <2>. QED
    BY <1>14, <2>1, <2>2 DEF RecordAudit, TypeOK, counts
<1>15. ASSUME NEW h \in Handlers, NEW v \in DOMAIN version, NEW s \in Statuses,
              RequestTransition(h, v, s)
       PROVE  TypeOK'
  <2>1. job' \in [Jobs -> JobRecords]
    BY <1>15, <1>h, ReadRowType DEF RequestTransition
  <2>2. requests' \in 0 .. MaxRequests
    BY <1>15, BoundAssumption DEF RequestTransition, AdminRequest, TypeOK
  <2>. QED
    BY <1>15, <2>1, <2>2 DEF RequestTransition, AdminRequest, TypeOK
<1>16. ASSUME NEW m \in Models \cup {NoModel}, NEW p \in PromptChoices,
              CreateVersion(m, p)
       PROVE  TypeOK'
  <2>1. version' \in Seq(VersionRows) /\ Len(version') <= MaxVersions
    BY <1>16, DraftType, PromptAssumption, BoundAssumption
    DEF CreateVersion, TypeOK
  <2>. QED
    BY <1>16, <2>1 DEF CreateVersion, TypeOK, counts
<1>17. ASSUME NEW m \in Models, CreateModel(m) PROVE TypeOK'
  <2>1. requests' \in 0 .. MaxRequests
    BY <1>17, BoundAssumption DEF CreateModel, AdminRequest, TypeOK
  <2>2. modelRow' \in Seq(ModelRows)
    BY <1>17 DEF CreateModel, TypeOK, ModelRows, ModelStatuses
  <2>. QED
    BY <1>17, <2>1, <2>2 DEF CreateModel, AdminRequest, TypeOK
<1>18. ASSUME NEW i \in DOMAIN modelRow, NEW s \in ModelStatuses,
              SetModelStatus(i, s)
       PROVE  TypeOK'
  <2>1. requests' \in 0 .. MaxRequests
    BY <1>18, BoundAssumption DEF SetModelStatus, AdminRequest, TypeOK
  <2>2. modelRow' \in Seq(ModelRows)
    <3>1. modelRow \in Seq(ModelRows)
      BY DEF TypeOK
    <3>2. modelRow' = [j \in DOMAIN modelRow |-> modelRow'[j]]
      BY <1>18 DEF SetModelStatus
    <3>3. \A j \in DOMAIN modelRow : modelRow'[j] \in ModelRows
      <4> SUFFICES ASSUME NEW j \in DOMAIN modelRow PROVE modelRow'[j] \in ModelRows
        OBVIOUS
      <4>1. modelRow[j] \in ModelRows
        BY <3>1
      <4>2. modelRow'[j] = IF j = i THEN [modelRow[j] EXCEPT !.status = s]
                                    ELSE modelRow[j]
        BY <1>18 DEF SetModelStatus
      <4>. QED
        BY <4>1, <4>2 DEF ModelRows
    <3>. QED
      BY <3>1, <3>2, <3>3, SeqOf
  <2>3. vetted' \subseteq Models
    <3>1. modelRow[i] \in ModelRows
      BY DEF TypeOK
    <3>. QED
      BY <1>18, <3>1 DEF SetModelStatus, TypeOK, ModelRows
  <2>. QED
    BY <1>18, <2>1, <2>2, <2>3 DEF SetModelStatus, AdminRequest, TypeOK
<1>19. CASE UNCHANGED vars
  BY <1>19 DEF vars, counts, TypeOK
<1>. QED
  BY <1>1, <1>2, <1>3, <1>4, <1>5, <1>6, <1>7, <1>8, <1>9, <1>10, <1>11, <1>12,
     <1>13, <1>14, <1>15, <1>16, <1>17, <1>18, <1>19 DEF Next

----------------------------------------------------------------------------
(* What every step does to the tables: rows are added, statuses collected. *)

Grows ==
    /\ DOMAIN version \subseteq DOMAIN version'
    /\ \A i \in DOMAIN version :
         /\ version'[i].model = version[i].model
         /\ version[i].been \subseteq version'[i].been
    /\ vetted \subseteq vetted'

\* The three ways a step can change agent_versions.
LEMMA VersionSteps ==
  ASSUME [Next]_vars
  PROVE  \/ version' = version
         \/ \E k \in Jobs : Commit(k)
         \/ \E m \in Models \cup {NoModel}, p \in BOOLEAN :
              version' = Append(version, Draft(m, p))
<1>1. ASSUME NEW p \in Processes, SeedDraft(p)
      PROVE  \E m \in Models \cup {NoModel}, q \in BOOLEAN :
               version' = Append(version, Draft(m, q))
  BY <1>1, ModelAssumption DEF SeedDraft
<1>2. ASSUME NEW m \in Models \cup {NoModel}, NEW p \in PromptChoices,
             CreateVersion(m, p)
      PROVE  \E n \in Models \cup {NoModel}, q \in BOOLEAN :
               version' = Append(version, Draft(n, q))
  BY <1>2, PromptAssumption DEF CreateVersion
<1>. QED
  BY <1>1, <1>2
  DEF Next, vars, Boot, Crash, SeedRead, SeedInsert, LookForProduction,
      SeedTransition, ReadModel, ReadPrior, ReadProduction, Apply, CallFails,
      RecordAudit, RequestTransition, CreateModel, SetModelStatus

\* What an insert leaves and adds.
LEMMA AppendedRow ==
  ASSUME TypeOK, NEW r, version' = Append(version, r)
  PROVE  /\ DOMAIN version' = DOMAIN version \cup {Len(version) + 1}
         /\ \A i \in DOMAIN version : version'[i] = version[i]
         /\ version'[Len(version) + 1] = r
         /\ Len(version) + 1 \notin DOMAIN version
<1>1. version \in Seq(VersionRows)
  BY DEF TypeOK
<1>. QED
  BY <1>1

\* A model name with an APPROVED row stays vetted.
LEMMA VettedSteps ==
  ASSUME TypeOK, [Next]_vars,
         \A i \in DOMAIN modelRow :
           modelRow[i].status = "APPROVED" => modelRow[i].name \in vetted
  PROVE  /\ vetted \subseteq vetted'
         /\ \A i \in DOMAIN modelRow' :
              modelRow'[i].status = "APPROVED" => modelRow'[i].name \in vetted'
<1>1. CASE UNCHANGED <<modelRow, vetted>>
  BY <1>1
<1>2. ASSUME NEW p \in Processes, SeedInsert(p)
      PROVE  /\ vetted \subseteq vetted'
             /\ \A i \in DOMAIN modelRow' :
                  modelRow'[i].status = "APPROVED" => modelRow'[i].name \in vetted'
  BY <1>2 DEF SeedInsert, TypeOK
<1>3. ASSUME NEW m \in Models, CreateModel(m)
      PROVE  /\ vetted \subseteq vetted'
             /\ \A i \in DOMAIN modelRow' :
                  modelRow'[i].status = "APPROVED" => modelRow'[i].name \in vetted'
  BY <1>3 DEF CreateModel, TypeOK
<1>4. ASSUME NEW j \in DOMAIN modelRow, NEW s \in ModelStatuses,
             SetModelStatus(j, s)
      PROVE  /\ vetted \subseteq vetted'
             /\ \A i \in DOMAIN modelRow' :
                  modelRow'[i].status = "APPROVED" => modelRow'[i].name \in vetted'
  <2>1. vetted \subseteq vetted'
    BY <1>4 DEF SetModelStatus
  <2>2. ASSUME NEW i \in DOMAIN modelRow', modelRow'[i].status = "APPROVED"
        PROVE  modelRow'[i].name \in vetted'
    <3>1. i \in DOMAIN modelRow /\ modelRow[i] \in ModelRows
      BY <1>4 DEF SetModelStatus, TypeOK
    <3>2. modelRow'[i] = IF i = j THEN [modelRow[i] EXCEPT !.status = s]
                                  ELSE modelRow[i]
      BY <1>4, <3>1 DEF SetModelStatus
    <3>. QED
      BY <1>4, <2>2, <3>1, <3>2 DEF SetModelStatus, ModelRows
  <2>. QED
    BY <2>1, <2>2
<1>. QED
  BY <1>1, <1>2, <1>3, <1>4
  DEF Next, vars, Boot, Crash, SeedRead, LookForProduction, SeedDraft,
      SeedTransition, ReadModel, ReadPrior, Commit, ReadProduction, Apply,
      CallFails, RecordAudit, RequestTransition, CreateVersion

\* Every step only grows the tables.
LEMMA StepGrows ==
  ASSUME Inductive, [Next]_vars
  PROVE  Grows
<1>1. TypeOK
  BY DEF Inductive
<1>2. vetted \subseteq vetted'
  BY <1>1, VettedSteps DEF Inductive
<1>3. CASE version' = version
  BY <1>2, <1>3 DEF Grows
<1>4. ASSUME NEW k \in Jobs, Commit(k) PROVE Grows
  BY <1>1, <1>2, <1>4, WrittenLemma DEF Commit, Grows
<1>5. ASSUME NEW m \in Models \cup {NoModel}, NEW p \in BOOLEAN,
             version' = Append(version, Draft(m, p))
      PROVE  Grows
  BY <1>1, <1>2, <1>5, AppendedRow DEF Grows
<1>. QED
  BY <1>3, <1>4, <1>5, VersionSteps

\* What a job has read of a row stays true while others commit.
LEMMA ReadyStaysReady ==
  ASSUME Grows, NEW j \in JobRecords, JobReady(j)
  PROVE  JobReady(j)'
<1>1. j.step \in {"read", "model", "prior", "commit"} => j.v \in DOMAIN version
  BY DEF JobReady
<1>2. j.step \in {"model", "prior", "commit"} => Earned(version'[j.v], j.to)
  BY <1>1 DEF JobReady, Grows, Earned
<1>3. j.step \in {"prior", "commit"} /\ j.to = "APPROVED" =>
         version'[j.v].model \in vetted' \cup {NoModel}
  BY <1>1 DEF JobReady, Grows
<1>4. j.step = "apply" /\ j.found # 0 =>
        j.found \in DOMAIN version' /\ "PRODUCTION" \in version'[j.found].been
  BY DEF JobReady, Grows
<1>. QED
  BY <1>1, <1>2, <1>3, <1>4 DEF JobReady, Grows

\* The commit of a job that is ready leaves rows that earned their statuses.
LEMMA RowsKept ==
  ASSUME Inductive, [Next]_vars
  PROVE  /\ (\A i \in DOMAIN version : version[i].status \in version[i].been)'
         /\ EvaluationNeverBypassed'
<1>. DEFINE Good(row, models) ==
       /\ row.status \in row.been
       /\ "APPROVED" \in row.been =>
            "TESTING" \in row.been /\ row.model \in models \cup {NoModel}
       /\ "PRODUCTION" \in row.been => "APPROVED" \in row.been
       /\ "ROLLED_BACK" \in row.been => "PRODUCTION" \in row.been
<1>1. \A i \in DOMAIN version : Good(version[i], vetted)
  BY DEF Inductive, EvaluationNeverBypassed
<1>2. TypeOK /\ Grows
  BY StepGrows DEF Inductive
<1>3. \A i \in DOMAIN version : Good(version[i], vetted')
  BY <1>1, <1>2 DEF Grows
<1>4. CASE version' = version
  BY <1>3, <1>4 DEF EvaluationNeverBypassed
<1>5. ASSUME NEW m \in Models \cup {NoModel}, NEW p \in BOOLEAN,
             version' = Append(version, Draft(m, p))
      PROVE  \A i \in DOMAIN version' : Good(version'[i], vetted')
  <2>1. Good(Draft(m, p), vetted')
    BY DEF Draft
  <2>. HIDE DEF Good
  <2>. QED
    BY <1>2, <1>3, <1>5, <2>1, AppendedRow
<1>6. ASSUME NEW k \in Jobs, Commit(k), NEW i \in DOMAIN version
      PROVE  Good(version'[i], vetted')
  <2>. DEFINE v == job[k].v
              to == job[k].to
  <2>1. /\ version[i] \in VersionRows
        /\ job[k].step = "commit" /\ to \in Statuses
        /\ JobReady(job[k])
    BY <1>2, <1>6 DEF Commit, Inductive, TypeOK, JobRecords
  <2>2. CASE i = v
    <3>1. version'[i] = [version[i] EXCEPT !.status = to, !.been = @ \cup {to}]
      BY <1>6, <2>2 DEF Commit, Written
    <3>2. /\ Earned(version[i], to)
          /\ to = "APPROVED" => version[i].model \in vetted' \cup {NoModel}
      BY <1>2, <2>1, <2>2 DEF JobReady, Grows
    <3>3. Good(version[i], vetted')
      BY <1>3
    <3>. QED
      BY <2>1, <3>1, <3>2, <3>3 DEF Earned, VersionRows
  <2>3. CASE i # v /\ i \in job[k].prior
    <3>1. version'[i] = [version[i] EXCEPT !.status = "RETIRED",
                                           !.been = @ \cup {"RETIRED"}]
      BY <1>6, <2>3 DEF Commit, Written
    <3>2. Good(version[i], vetted')
      BY <1>3
    <3>. QED
      BY <2>1, <3>1, <3>2 DEF VersionRows
  <2>4. CASE i # v /\ i \notin job[k].prior
    <3>1. version'[i] = version[i]
      BY <1>6, <2>4 DEF Commit, Written
    <3>. QED
      BY <1>3, <3>1
  <2>. QED
    BY <2>2, <2>3, <2>4
<1>7. ASSUME NEW k \in Jobs, Commit(k)
      PROVE  \A i \in DOMAIN version' : Good(version'[i], vetted')
  <2>1. DOMAIN version' = DOMAIN version
    BY <1>2, <1>7, WrittenLemma DEF Commit
  <2>. QED
    BY <1>6, <1>7, <2>1
<1>8. \A i \in DOMAIN version' : Good(version'[i], vetted')
  BY <1>3, <1>4, <1>5, <1>7, VersionSteps
<1>. QED
  BY <1>8 DEF EvaluationNeverBypassed

\* What a job applies was in PRODUCTION, whatever became of the row since.
LEMMA LiveKept ==
  ASSUME Inductive, [Next]_vars
  PROVE  OnlyEvaluatedGoesLive'
<1>. DEFINE Good(agent) ==
       /\ agent.model \in vetted' \cup {DefaultModel}
       /\ agent.prompt # 0 =>
            /\ agent.prompt \in DOMAIN version'
            /\ {"TESTING", "APPROVED", "PRODUCTION"}
                 \subseteq version'[agent.prompt].been
<1>1. TypeOK /\ Grows /\ EvaluationNeverBypassed'
  BY StepGrows, RowsKept DEF Inductive
<1>2. \A p \in Processes : Good(live[p])
  BY <1>1 DEF Inductive, OnlyEvaluatedGoesLive, Grows
<1>3. CASE live' = live
  BY <1>2, <1>3 DEF OnlyEvaluatedGoesLive
<1>4. ASSUME NEW q \in Processes, Crash(q)
      PROVE  \A p \in Processes : Good(live'[p])
  <2>1. Good(Fresh)
    BY DEF Fresh
  <2>2. \A p \in Processes : live'[p] = IF p = q THEN Fresh ELSE live[p]
    BY <1>4 DEF Crash, TypeOK, Inductive
  <2>. QED
    BY <1>2, <2>1, <2>2
<1>5. ASSUME NEW k \in Jobs, Apply(k)
      PROVE  \A p \in Processes : Good(live'[p])
  <2>. DEFINE q == ProcessOf(k)
              f == job[k].found
  <2>1. q \in Processes
    BY ProcType
  <2>2. /\ live[q] \in [prompt : 0 .. MaxVersions, model : Models]
        /\ \A p \in Processes :
             live'[p] = IF p = q THEN Configured(live[q], f) ELSE live[p]
    BY <1>1, <1>5, <2>1 DEF Apply, TypeOK
  <2>3. version' = version /\ vetted' = vetted
    BY <1>5 DEF Apply
  <2>4. CASE f = 0
    <3>1. Configured(live[q], f) = [prompt |-> 0, model |-> live[q].model]
      BY <2>4 DEF Configured
    <3>2. Good(Configured(live[q], f))
      BY <1>2, <2>1, <3>1
    <3>. QED
      BY <1>2, <2>2, <3>2
  <2>5. CASE f # 0
    <3>1. f \in DOMAIN version /\ "PRODUCTION" \in version[f].been
      BY <1>5, <2>5 DEF Inductive, JobReady, Apply
    <3>2. /\ {"TESTING", "APPROVED", "PRODUCTION"} \subseteq version[f].been
          /\ version[f].model \in vetted \cup {NoModel}
      BY <3>1 DEF Inductive, EvaluationNeverBypassed
    <3>3. Good(live[q])
      BY <1>2, <2>1
    <3>4. Configured(live[q], f).model \in vetted \cup {DefaultModel}
      BY <2>3, <3>2, <3>3 DEF Configured
    <3>5. Configured(live[q], f).prompt \in {0, f}
      BY DEF Configured
    <3>6. Good(Configured(live[q], f))
      BY <2>3, <3>1, <3>2, <3>4, <3>5
    <3>. QED
      BY <1>2, <2>2, <3>6
  <2>. QED
    BY <2>4, <2>5
<1>6. \/ live' = live
      \/ \E p \in Processes : Crash(p)
      \/ \E k \in Jobs : Apply(k)
  BY DEF Next, vars, Boot, SeedRead, SeedInsert, LookForProduction, SeedDraft,
         SeedTransition, ReadModel, ReadPrior, Commit, ReadProduction,
         CallFails, RecordAudit, RequestTransition, CreateVersion, CreateModel,
         SetModelStatus
<1>7. \A p \in Processes : Good(live'[p])
  BY <1>2, <1>3, <1>4, <1>5, <1>6
<1>. QED
  BY <1>7 DEF OnlyEvaluatedGoesLive

\* A job that ended is ready.
LEMMA IdleReady == JobReady(Idle)'
  BY DEF JobReady, Idle

\* One job moves; the others stay ready.
LEMMA OneMoves ==
  ASSUME Inductive, [Next]_vars, NEW k \in Jobs, NEW r, JobReady(r)',
         job' = [job EXCEPT ![k] = r]
  PROVE  \A j \in Jobs : JobReady(job[j])'
<1>1. TypeOK /\ Grows
  BY StepGrows DEF Inductive
<1>2. ASSUME NEW j \in Jobs PROVE JobReady(job[j])'
  <2>1. CASE j = k
    <3>1. job'[j] = r
      BY <1>1, <2>1 DEF TypeOK
    <3>. QED
      BY <3>1 DEF JobReady
  <2>2. CASE j # k
    <3>1. job'[j] = job[j] /\ job[j] \in JobRecords /\ JobReady(job[j])
      BY <1>1, <2>2 DEF TypeOK, Inductive
    <3>. DEFINE x == job[j]
    <3>2. PICK y \in JobRecords : y = job[j]
      BY <3>1
    <3>3. JobReady(y)
      BY <3>1, <3>2 DEF JobReady
    <3>4. JobReady(y)'
      BY <1>1, <3>3, ReadyStaysReady
    <3>. QED
      BY <3>1, <3>2, <3>4 DEF JobReady
  <2>. QED
    BY <2>1, <2>2
<1>. QED
  BY <1>2

\* Ending a job keeps the jobs ready.
LEMMA EndKeepsReady ==
  ASSUME Inductive, [Next]_vars, NEW k \in Jobs, End(k)
  PROVE  \A j \in Jobs : JobReady(job[j])'
<1>1. PICK r : r = Idle
  OBVIOUS
<1>2. JobReady(r)'
  BY <1>1, IdleReady
<1>3. job' = [job EXCEPT ![k] = r]
  BY <1>1 DEF End
<1>. QED
  BY <1>2, <1>3, OneMoves

\* A job whose next step has no condition of its own.
LEMMA StepKeepsReady ==
  ASSUME Inductive, [Next]_vars, NEW k \in Jobs, NEW s, Step(k, s),
         s \in {"seed_read", "seed_insert", "look", "draft", "production", "audit"}
  PROVE  \A j \in Jobs : JobReady(job[j])'
<1>1. TypeOK /\ Grows
  BY StepGrows DEF Inductive
<1>2. PICK r : r = [job[k] EXCEPT !.step = s]
  OBVIOUS
<1>3. r.prior = job[k].prior /\ r.step = s
  BY <1>1, <1>2 DEF TypeOK, JobRecords
<1>4. JobReady(r)'
  BY <1>1, <1>3 DEF JobReady, Inductive, Grows
<1>5. job' = [job EXCEPT ![k] = r]
  BY <1>1, <1>2 DEF Step, TypeOK
<1>. QED
  BY <1>4, <1>5, OneMoves

\* A legal transition starts from the status that earns its target.
LEMMA ReadRowKeepsReady ==
  ASSUME Inductive, [Next]_vars, NEW k \in Jobs, NEW v \in DOMAIN version,
         NEW s \in Statuses, ReadRow(k, v, s), version' = version
  PROVE  \A j \in Jobs : JobReady(job[j])'
<1>1. TypeOK
  BY DEF Inductive
<1>2. PICK r : r = [Idle EXCEPT !.v = v, !.to = s,
                                !.step = NextRead(s, version[v].model)]
  OBVIOUS
<1>3. /\ r.prior = {} /\ r.v = v /\ r.to = s
      /\ r.step = NextRead(s, version[v].model)
  BY <1>2 DEF Idle
<1>4. version[v].status \in Statuses /\ version[v].status \in version[v].been
  <2>1. version[v] \in VersionRows
    BY <1>1 DEF TypeOK
  <2>. QED
    BY <2>1 DEF VersionRows, Inductive
<1>5. Earned(version[v], s)
  BY <1>4 DEF ReadRow, Legal, Earned, Statuses
<1>6. r.step \in {"model", "prior", "commit"}
  BY <1>3 DEF NextRead
<1>7. r.step \in {"prior", "commit"} /\ s = "APPROVED" =>
        version[v].model \in vetted \cup {NoModel}
  BY <1>3 DEF NextRead
<1>8. JobReady(r)
  BY <1>3, <1>5, <1>6, <1>7 DEF JobReady
<1>9. vetted \subseteq vetted'
  BY StepGrows DEF Grows
<1>10. JobReady(r)'
  BY <1>3, <1>5, <1>6, <1>7, <1>9 DEF JobReady, Earned
<1>11. job' = [job EXCEPT ![k] = r]
  BY <1>2 DEF ReadRow
<1>. QED
  BY <1>10, <1>11, OneMoves

\* Every step keeps the jobs ready.
LEMMA JobsKept ==
  ASSUME Inductive, [Next]_vars
  PROVE  \A j \in Jobs : JobReady(job[j])'
<1>t. TypeOK /\ Grows
  BY StepGrows DEF Inductive
<1>p. \A p \in Processes : p \in Jobs
  BY DEF Jobs
<1>h. \A h \in Handlers : h \in Jobs
  BY DEF Jobs
<1>. DEFINE Goal == \A j \in Jobs : JobReady(job[j])'
<1>1. CASE job' = job
  <2> SUFFICES ASSUME NEW j \in Jobs PROVE JobReady(job[j])'
    OBVIOUS
  <2>1. PICK y \in JobRecords : y = job[j]
    BY <1>t DEF TypeOK
  <2>2. JobReady(y)
    BY <2>1 DEF Inductive, JobReady
  <2>3. JobReady(y)'
    BY <1>t, <2>2, ReadyStaysReady
  <2>. QED
    BY <1>1, <2>1, <2>3 DEF JobReady
<1>2. ASSUME NEW p \in Processes, Boot(p) PROVE Goal
  BY <1>2, <1>p, StepKeepsReady DEF Boot
<1>3. ASSUME NEW p \in Processes, Crash(p) PROVE Goal
  <2> SUFFICES ASSUME NEW j \in Jobs PROVE JobReady(job[j])'
    OBVIOUS
  <2>1. CASE ProcessOf(j) = p
    BY <1>3, <2>1, IdleReady DEF Crash, JobReady
  <2>2. CASE ProcessOf(j) # p
    <3>1. PICK y \in JobRecords : y = job[j]
      BY <1>t DEF TypeOK
    <3>2. JobReady(y)'
      BY <1>t, <3>1, ReadyStaysReady DEF Inductive
    <3>3. job'[j] = y
      BY <1>3, <2>2, <3>1 DEF Crash
    <3>. QED
      BY <3>2, <3>3 DEF JobReady
  <2>. QED
    BY <2>1, <2>2
<1>4. ASSUME NEW p \in Processes, SeedRead(p) PROVE Goal
  BY <1>4, <1>p, StepKeepsReady DEF SeedRead
<1>5. ASSUME NEW p \in Processes, SeedInsert(p) PROVE Goal
  BY <1>5, <1>p, StepKeepsReady DEF SeedInsert
<1>6. ASSUME NEW p \in Processes, LookForProduction(p) PROVE Goal
  BY <1>6, <1>p, StepKeepsReady, EndKeepsReady DEF LookForProduction
<1>7. ASSUME NEW p \in Processes, SeedDraft(p) PROVE Goal
  <2>1. PICK r : r = [Idle EXCEPT !.step = "read", !.v = Len(version) + 1,
                                  !.to = "TESTING"]
    OBVIOUS
  <2>2. r.prior = {} /\ r.step = "read" /\ r.v = Len(version) + 1
    BY <2>1 DEF Idle
  <2>3. Len(version) + 1 \in DOMAIN version'
    BY <1>t, <1>7, AppendedRow DEF SeedDraft
  <2>4. JobReady(r)'
    BY <2>2, <2>3 DEF JobReady
  <2>5. job' = [job EXCEPT ![p] = r]
    BY <1>7, <2>1 DEF SeedDraft
  <2>. QED
    BY <1>p, <2>4, <2>5, OneMoves
<1>8. ASSUME NEW p \in Processes, SeedTransition(p) PROVE Goal
  <2>1. CASE End(p)
    BY <1>p, <2>1, EndKeepsReady
  <2>2. CASE ReadRow(p, job[p].v, job[p].to)
    <3>1. job[p].v \in DOMAIN version /\ job[p].to \in Statuses
      BY <1>t, <1>8, <1>p DEF SeedTransition, Inductive, JobReady, TypeOK,
                              JobRecords
    <3>. QED
      BY <1>8, <1>p, <2>2, <3>1, ReadRowKeepsReady DEF SeedTransition
  <2>. QED
    BY <1>8, <2>1, <2>2 DEF SeedTransition
<1>9. ASSUME NEW k \in Jobs, ReadModel(k) PROVE Goal
  <2>1. CASE End(k)
    BY <2>1, EndKeepsReady
  <2>2. CASE ~End(k)
    <3>1. PICK r : r = [job[k] EXCEPT !.step = IF job[k].to = "PRODUCTION"
                                               THEN "prior" ELSE "commit"]
      OBVIOUS
    <3>2. /\ r.prior = job[k].prior /\ r.v = job[k].v /\ r.to = job[k].to
          /\ r.step \in {"prior", "commit"}
      BY <1>t, <3>1 DEF TypeOK, JobRecords
    <3>3. /\ job[k].v \in DOMAIN version
          /\ Earned(version[job[k].v], job[k].to)
          /\ job[k].prior \subseteq DOMAIN version
      BY <1>9 DEF ReadModel, Inductive, JobReady
    <3>4. ModelApproved(version[job[k].v].model)
      BY <1>9, <2>2 DEF ReadModel
    <3>5. version[job[k].v].model \in vetted
      BY <3>4 DEF ModelApproved, RowsNamed, Inductive
    <3>6. version' = version /\ vetted' = vetted
      BY <1>9 DEF ReadModel
    <3>7. JobReady(r)'
      BY <3>2, <3>3, <3>5, <3>6 DEF JobReady, Earned
    <3>8. job' = [job EXCEPT ![k] = r]
      BY <1>t, <1>9, <2>2, <3>1 DEF ReadModel, Step, TypeOK
    <3>. QED
      BY <3>7, <3>8, OneMoves
  <2>. QED
    BY <2>1, <2>2
<1>10. ASSUME NEW k \in Jobs, ReadPrior(k) PROVE Goal
  <2>1. PICK r : r = [job[k] EXCEPT !.step = "commit", !.prior = Production]
    OBVIOUS
  <2>2. /\ r.prior = Production /\ r.v = job[k].v /\ r.to = job[k].to
        /\ r.step = "commit"
    BY <1>t, <2>1 DEF TypeOK, JobRecords
  <2>3. /\ job[k].v \in DOMAIN version
        /\ Earned(version[job[k].v], job[k].to)
        /\ job[k].to = "APPROVED" =>
             version[job[k].v].model \in vetted \cup {NoModel}
    BY <1>10 DEF ReadPrior, Inductive, JobReady
  <2>4. version' = version /\ vetted' = vetted
    BY <1>10 DEF ReadPrior
  <2>5. JobReady(r)'
    BY <2>2, <2>3, <2>4 DEF JobReady, Earned, Production
  <2>6. job' = [job EXCEPT ![k] = r]
    BY <1>t, <1>10, <2>1 DEF ReadPrior, TypeOK
  <2>. QED
    BY <2>5, <2>6, OneMoves
<1>11. ASSUME NEW k \in Jobs, Commit(k) PROVE Goal
  <2> SUFFICES ASSUME NEW j \in Jobs PROVE JobReady(job[j])'
    OBVIOUS
  <2>1. CASE j = k
    <3>1. PICK r : r = AfterCommit(k)
      OBVIOUS
    <3>2. job[k].v \in DOMAIN version /\ job[k].prior \subseteq DOMAIN version
      BY <1>11 DEF Commit, Inductive, JobReady
    <3>3. \/ r = Idle
          \/ r.step = "production" /\ r.prior = {}
          \/ r.step = "read" /\ r.v = job[k].v /\ r.prior = job[k].prior
      BY <1>t, <3>1 DEF AfterCommit, TypeOK, JobRecords
    <3>4. JobReady(r)'
      BY <1>t, <3>2, <3>3, IdleReady DEF JobReady, Grows
    <3>5. job'[j] = r
      BY <1>11, <2>1, <3>1 DEF Commit
    <3>. QED
      BY <3>4, <3>5 DEF JobReady
  <2>2. CASE j # k
    <3>1. job'[j] \in {job[j], [job[j] EXCEPT !.stale = TRUE]}
      BY <1>11, <2>2 DEF Commit
    <3>2. PICK y \in JobRecords : y = job[j]
      BY <1>t DEF TypeOK
    <3>3. JobReady(y)'
      BY <1>t, <3>2, ReadyStaysReady DEF Inductive
    <3>4. /\ job'[j].step = y.step /\ job'[j].v = y.v /\ job'[j].to = y.to
          /\ job'[j].prior = y.prior /\ job'[j].found = y.found
      BY <3>1, <3>2 DEF JobRecords
    <3>. QED
      BY <3>3, <3>4 DEF JobReady
  <2>. QED
    BY <2>1, <2>2
<1>12. ASSUME NEW k \in Jobs, ReadProduction(k) PROVE Goal
  <2>1. CASE End(k)
    BY <2>1, EndKeepsReady
  <2>2. CASE ~End(k)
    <3>1. PICK f : f = IF Production = {} THEN 0 ELSE CHOOSE i \in Production : TRUE
      OBVIOUS
    <3>2. f # 0 => f \in DOMAIN version /\ "PRODUCTION" \in version[f].been
      BY <3>1 DEF Production, Inductive
    <3>3. PICK r : r = [job[k] EXCEPT !.step = "apply", !.found = f]
      OBVIOUS
    <3>4. r.prior = job[k].prior /\ r.step = "apply" /\ r.found = f
      BY <1>t, <3>3 DEF TypeOK, JobRecords
    <3>5. version' = version /\ job[k].prior \subseteq DOMAIN version
      BY <1>12 DEF ReadProduction, Inductive, JobReady
    <3>6. JobReady(r)'
      BY <3>2, <3>4, <3>5 DEF JobReady
    <3>7. job' = [job EXCEPT ![k] = r]
      BY <1>t, <1>12, <2>2, <3>1, <3>3 DEF ReadProduction, TypeOK
    <3>. QED
      BY <3>6, <3>7, OneMoves
  <2>. QED
    BY <2>1, <2>2
<1>13. ASSUME NEW k \in Jobs, Apply(k) PROVE Goal
  <2>1. CASE k \in Handlers
    BY <1>13, <2>1, StepKeepsReady DEF Apply
  <2>2. CASE k \notin Handlers
    <3>1. PICK r : r = Idle
      OBVIOUS
    <3>2. JobReady(r)'
      BY <3>1, IdleReady
    <3>. QED
      BY <1>13, <2>2, <3>1, <3>2, OneMoves DEF Apply
  <2>. QED
    BY <2>1, <2>2
<1>14. ASSUME NEW h \in Handlers, CallFails(h) PROVE Goal
  BY <1>14, <1>h, EndKeepsReady DEF CallFails
<1>15. ASSUME NEW h \in Handlers, RecordAudit(h) PROVE Goal
  <2>1. PICK r : r = Idle
    OBVIOUS
  <2>2. JobReady(r)'
    BY <2>1, IdleReady
  <2>. QED
    BY <1>15, <1>h, <2>1, <2>2, OneMoves DEF RecordAudit
<1>16. ASSUME NEW h \in Handlers, NEW v \in DOMAIN version, NEW s \in Statuses,
              RequestTransition(h, v, s)
       PROVE  Goal
  BY <1>16, <1>h, ReadRowKeepsReady DEF RequestTransition
<1>17. ASSUME NEW m \in Models \cup {NoModel}, NEW p \in PromptChoices,
              CreateVersion(m, p)
       PROVE  Goal
  BY <1>1, <1>17 DEF CreateVersion
<1>18. ASSUME NEW m \in Models, CreateModel(m) PROVE Goal
  BY <1>1, <1>18 DEF CreateModel
<1>19. ASSUME NEW i \in DOMAIN modelRow, NEW s \in ModelStatuses,
              SetModelStatus(i, s)
       PROVE  Goal
  BY <1>1, <1>19 DEF SetModelStatus
<1>20. CASE UNCHANGED vars
  BY <1>1, <1>20 DEF vars
<1>. QED
  BY <1>2, <1>3, <1>4, <1>5, <1>6, <1>7, <1>8, <1>9, <1>10, <1>11, <1>12,
     <1>13, <1>14, <1>15, <1>16, <1>17, <1>18, <1>19, <1>20 DEF Next
----------------------------------------------------------------------------
(* The theorems.                                                           *)

\* Empty tables and idle jobs satisfy the strengthening.
LEMMA InitInductive == Init => Inductive
<1> SUFFICES ASSUME Init PROVE Inductive
  OBVIOUS
<1>1. TypeOK
  BY InitType
<1>2. DOMAIN version = {} /\ DOMAIN modelRow = {}
  BY DEF Init
<1>3. \A k \in Jobs : JobReady(job[k])
  BY DEF Init, JobReady, Idle
<1>4. OnlyEvaluatedGoesLive
  BY DEF Init, OnlyEvaluatedGoesLive, Fresh
<1>. QED
  BY <1>1, <1>2, <1>3, <1>4 DEF Inductive, EvaluationNeverBypassed

\* Every step keeps the strengthening.
LEMMA NextInductive == Inductive /\ [Next]_vars => Inductive'
<1> SUFFICES ASSUME Inductive, [Next]_vars PROVE Inductive'
  OBVIOUS
<1>1. TypeOK'
  BY StepKeepsTypes
<1>2. (\A i \in DOMAIN modelRow :
         modelRow[i].status = "APPROVED" => modelRow[i].name \in vetted)'
  BY VettedSteps DEF Inductive
<1>. QED
  BY <1>1, <1>2, RowsKept, LiveKept, JobsKept DEF Inductive

\* The strengthening the two theorems below follow from, the types included.
THEOREM AlwaysInductive == Spec => []Inductive
<1>. QED
  BY InitInductive, NextInductive, PTL DEF Spec

\* The types alone.
THEOREM VersionTypes == Spec => []TypeOK
<1>1. Inductive => TypeOK
  BY DEF Inductive
<1>. QED
  BY <1>1, AlwaysInductive, PTL

\* No prompt or model change bypasses evaluation, whatever stale status a
\* transition commits over (docs/agent-governance.md, section 4).
THEOREM EvaluationHolds == Spec => []EvaluationNeverBypassed
<1>1. Inductive => EvaluationNeverBypassed
  BY DEF Inductive
<1>. QED
  BY <1>1, AlwaysInductive, PTL

\* No process runs an agent with a prompt or a model that was not evaluated
\* (apply_production_agent_version, from a request or a boot).
THEOREM LiveIsEvaluated == Spec => []OnlyEvaluatedGoesLive
<1>1. Inductive => OnlyEvaluatedGoesLive
  BY DEF Inductive
<1>. QED
  BY <1>1, AlwaysInductive, PTL
----------------------------------------------------------------------------
(* Promotions that nothing overtakes, and the audit of rollbacks.          *)

\* What a promotion read of the PRODUCTION rows is what they are, unless
\* another transition has committed since.
PriorsAreCurrent ==
    \A k \in Jobs :
        job[k].step = "commit" /\ job[k].to = "PRODUCTION" /\ ~job[k].stale
          => Production \subseteq job[k].prior

\* A job that stands before the commit of a promotion has just read the
\* PRODUCTION rows or stood there already; a commit marks those it overtakes.
LEMMA CommitIsReached ==
  ASSUME TypeOK, [Next]_vars, NEW j \in Jobs,
         job'[j].step = "commit", job'[j].to = "PRODUCTION", ~job'[j].stale
  PROVE  /\ job'[j] = job[j] \/ ReadPrior(j)
         /\ \A k \in Jobs : ~Commit(k)
<1>. USE DEF TypeOK, JobRecords
<1>p. Processes \subseteq Jobs /\ Handlers \subseteq Jobs
  BY DEF Jobs
<1>. DEFINE Reached == job'[j] = job[j] \/ ReadPrior(j)
<1>1. ASSUME NEW k \in Jobs, Commit(k) PROVE FALSE
  <2>1. CASE j = k
    <3>1. job'[j] = AfterCommit(j) /\ job[j] \in JobRecords
      BY <1>1, <2>1 DEF Commit
    <3>. QED
      BY <3>1 DEF AfterCommit, Idle
  <2>2. CASE j # k
    BY <1>1, <2>2 DEF Commit
  <2>. QED
    BY <2>1, <2>2
<1>2. ASSUME NEW k \in Jobs, End(k) PROVE Reached
  BY <1>2 DEF End, Idle
<1>3. ASSUME NEW k \in Jobs, NEW s \in Steps \ {"commit"}, Step(k, s) PROVE Reached
  BY <1>3 DEF Step
<1>4. ASSUME NEW k \in Jobs, NEW v, NEW s, ReadRow(k, v, s) PROVE Reached
  <2>1. CASE j = k
    <3>1. job'[j] = [Idle EXCEPT !.v = v, !.to = s,
                                 !.step = NextRead(s, version[v].model)]
      BY <1>4, <2>1 DEF ReadRow
    <3>2. job'[j].to = s /\ job'[j].step = NextRead(s, version[v].model)
      BY <3>1 DEF Idle
    <3>3. s = "PRODUCTION" /\ NextRead(s, version[v].model) = "commit"
      BY <3>2
    <3>. QED
      BY <3>3 DEF NextRead
  <2>2. CASE j # k
    BY <1>4, <2>2 DEF ReadRow
  <2>. QED
    BY <2>1, <2>2
<1>5. ASSUME NEW k \in Jobs, ReadModel(k) PROVE Reached
  <2>1. CASE End(k)
    BY <1>2, <2>1
  <2>2. CASE Step(k, IF job[k].to = "PRODUCTION" THEN "prior" ELSE "commit")
    BY <2>2 DEF Step
  <2>. QED
    BY <1>5, <2>1, <2>2 DEF ReadModel
<1>6. ASSUME NEW k \in Jobs, ReadPrior(k) PROVE Reached
  BY <1>6 DEF ReadPrior
<1>7. ASSUME NEW k \in Jobs, ReadProduction(k) PROVE Reached
  <2>1. CASE End(k)
    BY <1>2, <2>1
  <2>2. CASE ~End(k)
    BY <1>7, <2>2 DEF ReadProduction
  <2>. QED
    BY <2>1, <2>2
<1>8. ASSUME NEW k \in Jobs, Apply(k) PROVE Reached
  BY <1>8 DEF Apply, Step, Idle
<1>9. ASSUME NEW p \in Processes,
             \/ Boot(p) \/ SeedRead(p) \/ SeedInsert(p) \/ LookForProduction(p)
      PROVE  Reached
  <2>1. CASE Boot(p)
    BY <1>p, <1>3, <2>1 DEF Boot, Steps
  <2>2. CASE SeedRead(p)
    BY <1>p, <1>3, <2>2 DEF SeedRead, Steps
  <2>3. CASE SeedInsert(p)
    BY <1>p, <1>3, <2>3 DEF SeedInsert, Steps
  <2>4. CASE LookForProduction(p)
    BY <1>p, <1>2, <1>3, <2>4 DEF LookForProduction, Steps
  <2>. QED
    BY <1>9, <2>1, <2>2, <2>3, <2>4
<1>10. ASSUME NEW p \in Processes, SeedDraft(p) PROVE Reached
  BY <1>p, <1>10 DEF SeedDraft, Idle
<1>11. ASSUME NEW p \in Processes, SeedTransition(p) PROVE Reached
  BY <1>p, <1>2, <1>4, <1>11 DEF SeedTransition
<1>12. ASSUME NEW p \in Processes, Crash(p) PROVE Reached
  BY <1>12 DEF Crash, Idle
<1>13. ASSUME NEW h \in Handlers,
              \/ RecordAudit(h) \/ CallFails(h)
              \/ \E v \in DOMAIN version, s \in Statuses : RequestTransition(h, v, s)
       PROVE  Reached
  <2>1. CASE RecordAudit(h)
    BY <1>p, <2>1 DEF RecordAudit, Idle
  <2>2. CASE CallFails(h)
    BY <1>p, <1>2, <2>2 DEF CallFails
  <2>3. CASE \E v \in DOMAIN version, s \in Statuses : RequestTransition(h, v, s)
    BY <1>p, <1>4, <2>3 DEF RequestTransition
  <2>. QED
    BY <1>13, <2>1, <2>2, <2>3
<1>14. ASSUME job' = job PROVE Reached
  BY <1>14
<1>. QED
  BY <1>1, <1>5, <1>6, <1>7, <1>8, <1>9, <1>10, <1>11, <1>12, <1>13, <1>14
  DEF Next, vars, CreateVersion, CreateModel, SetModelStatus

\* Only a commit changes which rows are in PRODUCTION: inserts are drafts.
LEMMA ProductionSteps ==
  ASSUME TypeOK, [Next]_vars, \A k \in Jobs : ~Commit(k)
  PROVE  Production' = Production
<1>1. ASSUME NEW m \in Models \cup {NoModel}, NEW p \in BOOLEAN,
             version' = Append(version, Draft(m, p))
      PROVE  Production' = Production
  <2>1. Draft(m, p).status # "PRODUCTION"
    BY DEF Draft
  <2>. QED
    BY <1>1, <2>1, AppendedRow DEF Production
<1>2. CASE version' = version
  BY <1>2 DEF Production
<1>. QED
  BY <1>1, <1>2, VersionSteps

\* What a commit makes of a row: the one it is about, one it read as PRODUCTION,
\* any other.
LEMMA WrittenRow ==
  ASSUME NEW k \in Jobs, Commit(k), NEW i \in DOMAIN version
  PROVE  /\ i = job[k].v =>
              version'[i] = [version[i] EXCEPT !.status = job[k].to,
                                               !.been = @ \cup {job[k].to}]
         /\ i # job[k].v /\ i \in job[k].prior =>
              version'[i] = [version[i] EXCEPT !.status = "RETIRED",
                                               !.been = @ \cup {"RETIRED"}]
         /\ i # job[k].v /\ i \notin job[k].prior => version'[i] = version[i]
<1>1. version'[i] = IF i = job[k].v \/ i \in job[k].prior
                      THEN LET to == IF i = job[k].v THEN job[k].to ELSE "RETIRED" IN
                           [version[i] EXCEPT !.status = to, !.been = @ \cup {to}]
                      ELSE version[i]
  <2>. DEFINE w == Written(k)
  <2>1. w[i] = IF i = job[k].v \/ i \in job[k].prior
                 THEN LET to == IF i = job[k].v THEN job[k].to ELSE "RETIRED" IN
                      [version[i] EXCEPT !.status = to, !.been = @ \cup {to}]
                 ELSE version[i]
    BY Zenon DEF Written
  <2>2. version' = w
    BY DEF Commit
  <2>. HIDE DEF w
  <2>. QED
    BY <2>1, <2>2
<1>2. CASE i = job[k].v
  BY <1>1, <1>2
<1>3. CASE i # job[k].v /\ i \in job[k].prior
  BY <1>1, <1>3
<1>4. CASE i # job[k].v /\ i \notin job[k].prior
  BY <1>1, <1>4
<1>. QED
  BY <1>2, <1>3, <1>4

\* What promotions have read stays current until a commit overtakes them.
LEMMA PriorsInductive ==
  ASSUME TypeOK, PriorsAreCurrent, [Next]_vars
  PROVE  PriorsAreCurrent'
<1> SUFFICES ASSUME NEW j \in Jobs, job'[j].step = "commit",
                    job'[j].to = "PRODUCTION", ~job'[j].stale
             PROVE  Production' \subseteq job'[j].prior
  BY DEF PriorsAreCurrent
<1>1. Production' = Production
  BY CommitIsReached, ProductionSteps
<1>2. CASE job'[j] = job[j]
  BY <1>1, <1>2 DEF PriorsAreCurrent
<1>3. CASE ReadPrior(j)
  BY <1>1, <1>3 DEF ReadPrior, TypeOK, JobRecords
<1>. QED
  BY <1>2, <1>3, CommitIsReached

\* A promotion that no other commit overtakes leaves its version as the only
\* one in PRODUCTION, however many there were (transition_agent_version_status).
THEOREM PromotionsLeaveOne == Spec => PromotionLeavesOne
<1>. DEFINE leaves == \A k \in Jobs :
       (job[k].to = "PRODUCTION" /\ ~job[k].stale /\ Commit(k))
         => Production' = {job[k].v}
<1>1. Init => PriorsAreCurrent
  BY DEF Init, PriorsAreCurrent, Idle
<1>2. Inductive => TypeOK
  BY DEF Inductive
<1>3. TypeOK /\ PriorsAreCurrent /\ [Next]_vars => PriorsAreCurrent'
  BY PriorsInductive
<1>4. ASSUME Inductive, PriorsAreCurrent
      PROVE  leaves
  <2> SUFFICES ASSUME NEW k \in Jobs, job[k].to = "PRODUCTION", ~job[k].stale, Commit(k)
               PROVE  Production' = {job[k].v}
    OBVIOUS
  <2>1. Production \subseteq job[k].prior
    BY <1>4 DEF Commit, PriorsAreCurrent
  <2>2. job[k].v \in DOMAIN version
    BY <1>4 DEF Commit, Inductive, JobReady
  <2>3. DOMAIN version' = DOMAIN version
    BY <1>2, <1>4, WrittenLemma DEF Commit
  <2>4. ASSUME NEW i \in DOMAIN version
        PROVE  version'[i].status = "PRODUCTION" <=> i = job[k].v
    <3>1. version[i] \in VersionRows
      BY <1>2, <1>4 DEF TypeOK
    <3>2. CASE i = job[k].v
      <4>1. version'[i] = [version[i] EXCEPT !.status = job[k].to,
                                             !.been = @ \cup {job[k].to}]
        BY <2>4, <3>2, WrittenRow
      <4>. QED
        BY <3>1, <3>2, <4>1 DEF VersionRows
    <3>3. CASE i # job[k].v /\ i \in job[k].prior
      <4>1. version'[i] = [version[i] EXCEPT !.status = "RETIRED",
                                             !.been = @ \cup {"RETIRED"}]
        BY <2>4, <3>3, WrittenRow
      <4>. QED
        BY <3>1, <3>3, <4>1 DEF VersionRows
    <3>4. CASE i # job[k].v /\ i \notin job[k].prior
      <4>1. version'[i] = version[i]
        BY <2>4, <3>4, WrittenRow
      <4>. QED
        BY <2>1, <3>4, <4>1 DEF Production
    <3>. QED
      BY <3>2, <3>3, <3>4
  <2>. QED
    BY <2>2, <2>3, <2>4 DEF Production
<1>5. Inductive /\ PriorsAreCurrent => [leaves]_vars
  BY <1>4
<1>. QED
  BY <1>1, <1>2, <1>3, <1>5, AlwaysInductive, PTL DEF Spec, PromotionLeavesOne

\* A boot walks its draft to PRODUCTION and never rolls it back.
BootsOnlyPromote == \A p \in Processes : job[p].to # "ROLLED_BACK"

\* Boots go on promoting: whatever they read, they set out for TESTING,
\* APPROVED or PRODUCTION (_seed_initial_agent_versions).
LEMMA BootsInductive ==
  ASSUME TypeOK, BootsOnlyPromote, [Next]_vars
  PROVE  BootsOnlyPromote'
<1> SUFFICES ASSUME NEW q \in Processes PROVE job'[q].to # "ROLLED_BACK"
  BY DEF BootsOnlyPromote
<1>. USE DEF TypeOK, JobRecords
<1>p. /\ Processes \subseteq Jobs /\ Handlers \subseteq Jobs
      /\ q \notin Handlers /\ job[q].to # "ROLLED_BACK" /\ job[q] \in JobRecords
  BY ProcessAssumption DEF Jobs, BootsOnlyPromote
<1>. DEFINE Goal == job'[q].to # "ROLLED_BACK"
<1>a. ASSUME NEW k \in Jobs, NEW r, job' = [job EXCEPT ![k] = r],
             k \in Processes => r.to # "ROLLED_BACK"
      PROVE  Goal
  BY <1>p, <1>a
<1>b. Idle.to # "ROLLED_BACK"
  BY DEF Idle
<1>1. ASSUME NEW k \in Jobs, End(k) PROVE Goal
  BY <1>a, <1>b, <1>1 DEF End
<1>2. ASSUME NEW k \in Jobs, NEW s, Step(k, s) PROVE Goal
  BY <1>p, <1>2 DEF Step
<1>3. ASSUME NEW p \in Processes, SeedTransition(p) PROVE Goal
  <2>1. CASE End(p)
    BY <1>p, <1>1, <2>1
  <2>2. CASE ReadRow(p, job[p].v, job[p].to)
    BY <1>p, <2>2 DEF ReadRow, Idle
  <2>. QED
    BY <1>3, <2>1, <2>2 DEF SeedTransition
<1>4. ASSUME NEW k \in Jobs, Commit(k) PROVE Goal
  <2>1. CASE q = k
    <3>1. job'[q] = AfterCommit(q)
      BY <1>p, <1>4, <2>1 DEF Commit
    <3>. QED
      BY <1>p, <3>1 DEF AfterCommit
  <2>2. CASE q # k
    BY <1>p, <1>4, <2>2 DEF Commit
  <2>. QED
    BY <2>1, <2>2
<1>5. ASSUME NEW k \in Jobs, ReadModel(k) \/ ReadProduction(k) \/ ReadPrior(k) PROVE Goal
  <2>1. CASE End(k)
    BY <1>1, <2>1
  <2>2. CASE ~End(k) /\ ReadModel(k)
    BY <1>2, <2>2 DEF ReadModel
  <2>3. CASE ~End(k) /\ ReadProduction(k)
    <3>1. PICK f : job' = [job EXCEPT ![k].step = "apply", ![k].found = f]
      BY <2>3 DEF ReadProduction
    <3>. QED
      BY <1>p, <3>1
  <2>4. CASE ReadPrior(k)
    BY <1>p, <2>4 DEF ReadPrior
  <2>. QED
    BY <1>5, <2>1, <2>2, <2>3, <2>4
<1>6. ASSUME NEW k \in Jobs, Apply(k) PROVE Goal
  <2>1. CASE Step(k, "audit")
    BY <1>2, <2>1
  <2>2. CASE job' = [job EXCEPT ![k] = Idle]
    BY <1>a, <1>b, <2>2
  <2>. QED
    BY <1>6, <2>1, <2>2 DEF Apply
<1>7. ASSUME NEW p \in Processes,
             \/ Boot(p) \/ SeedRead(p) \/ SeedInsert(p) \/ LookForProduction(p)
      PROVE  Goal
  BY <1>p, <1>1, <1>2, <1>7 DEF Boot, SeedRead, SeedInsert, LookForProduction
<1>8. ASSUME NEW p \in Processes, SeedDraft(p) \/ Crash(p) PROVE Goal
  <2>1. CASE SeedDraft(p)
    <3>. DEFINE r == [Idle EXCEPT !.step = "read", !.v = Len(version) + 1,
                                  !.to = "TESTING"]
    <3>1. job' = [job EXCEPT ![p] = r]
      BY <2>1 DEF SeedDraft
    <3>2. r.to # "ROLLED_BACK"
      BY DEF Idle
    <3>. HIDE DEF r
    <3>. QED
      BY <1>p, <1>a, <3>1, <3>2
  <2>2. CASE Crash(p)
    <3>1. job'[q] \in {Idle, job[q]}
      BY <1>p, <2>2 DEF Crash
    <3>. QED
      BY <1>b, <1>p, <3>1
  <2>. QED
    BY <1>8, <2>1, <2>2
<1>9. ASSUME NEW h \in Handlers,
             \/ RecordAudit(h) \/ CallFails(h)
             \/ \E v \in DOMAIN version, s \in Statuses : RequestTransition(h, v, s)
      PROVE  Goal
  <2>1. CASE RecordAudit(h)
    BY <1>p, <1>a, <1>b, <2>1 DEF RecordAudit
  <2>2. CASE CallFails(h)
    BY <1>p, <1>1, <2>2 DEF CallFails
  <2>3. ASSUME NEW v \in DOMAIN version, NEW s \in Statuses, RequestTransition(h, v, s)
        PROVE  Goal
    BY <1>p, <1>a, <2>3 DEF RequestTransition, ReadRow
  <2>. QED
    BY <1>9, <2>1, <2>2, <2>3
<1>10. ASSUME job' = job PROVE Goal
  BY <1>p, <1>10
<1>. QED
  BY <1>3, <1>4, <1>5, <1>6, <1>7, <1>8, <1>9, <1>10
  DEF Next, vars, CreateVersion, CreateModel, SetModelStatus

\* The awaits between a commit and its audit event.
Applying == {"production", "apply", "audit"}

\* A request that has committed goes on to its audit event, is known to have
\* failed, or has just written the event.
LEMMA RequestGoesOn ==
  ASSUME TypeOK, [Next]_vars, NEW h \in Handlers, job[h].step \in Applying
  PROVE  \/ failed'
         \/ <<job[h].v, job[h].to>> \in audit'
         \/ /\ job'[h].v = job[h].v /\ job'[h].to = job[h].to
            /\ job'[h].step \in Applying
<1>. USE DEF TypeOK, JobRecords, Applying
<1>p. /\ Processes \subseteq Jobs /\ Handlers \subseteq Jobs
      /\ h \in Jobs /\ h \notin Processes /\ job[h] \in JobRecords
  BY ProcessAssumption DEF Jobs
<1>. DEFINE Kept == /\ job'[h].v = job[h].v /\ job'[h].to = job[h].to
                    /\ job'[h].step \in Applying
            Goal == failed' \/ <<job[h].v, job[h].to>> \in audit' \/ Kept
<1>a. ASSUME NEW k \in Jobs, k # h, NEW r, job' = [job EXCEPT ![k] = r] PROVE Kept
  BY <1>p, <1>a
<1>1. ASSUME NEW k \in Jobs, End(k) PROVE Goal
  <2>1. CASE k = h
    BY <1>p, <1>1, <2>1 DEF End
  <2>2. CASE k # h
    BY <1>p, <1>1, <2>2 DEF End
  <2>. QED
    BY <2>1, <2>2
<1>2. ASSUME NEW k \in Jobs, NEW s \in Steps, k # h, Step(k, s) PROVE Goal
  BY <1>p, <1>2 DEF Step
<1>3. ASSUME NEW k \in Jobs, k # h, NEW v, NEW s, ReadRow(k, v, s) PROVE Goal
  BY <1>a, <1>3 DEF ReadRow
<1>4. ASSUME NEW k \in Jobs, Commit(k) PROVE Goal
  BY <1>p, <1>4 DEF Commit
<1>5. ASSUME NEW k \in Jobs, ReadModel(k) PROVE Goal
  <2>1. CASE End(k)
    BY <1>1, <2>1
  <2>2. CASE ~End(k)
    <3>1. k # h
      BY <1>5 DEF ReadModel
    <3>. QED
      BY <1>2, <1>5, <2>2, <3>1 DEF ReadModel, Steps
  <2>. QED
    BY <2>1, <2>2
<1>6. ASSUME NEW k \in Jobs, ReadPrior(k) PROVE Goal
  BY <1>p, <1>6 DEF ReadPrior
<1>7. ASSUME NEW k \in Jobs, ReadProduction(k) PROVE Goal
  <2>1. CASE End(k)
    BY <1>1, <2>1
  <2>2. CASE ~End(k)
    <3>1. PICK f : job' = [job EXCEPT ![k].step = "apply", ![k].found = f]
      BY <1>7, <2>2 DEF ReadProduction
    <3>. QED
      BY <1>p, <3>1
  <2>. QED
    BY <2>1, <2>2
<1>8. ASSUME NEW k \in Jobs, Apply(k) PROVE Goal
  <2>1. CASE k = h
    BY <1>p, <1>8, <2>1 DEF Apply, Step
  <2>2. CASE k # h /\ Step(k, "audit")
    BY <1>2, <2>2 DEF Steps
  <2>3. CASE k # h /\ job' = [job EXCEPT ![k] = Idle]
    BY <1>a, <2>3
  <2>. QED
    BY <1>8, <2>1, <2>2, <2>3 DEF Apply
<1>9. ASSUME NEW p \in Processes,
             \/ Boot(p) \/ SeedRead(p) \/ SeedInsert(p) \/ LookForProduction(p)
      PROVE  Goal
  <2>1. p \in Jobs /\ p # h
    BY <1>p
  <2>2. CASE Boot(p)
    BY <1>2, <2>1, <2>2 DEF Boot, Steps
  <2>3. CASE SeedRead(p)
    BY <1>2, <2>1, <2>3 DEF SeedRead, Steps
  <2>4. CASE SeedInsert(p)
    BY <1>2, <2>1, <2>4 DEF SeedInsert, Steps
  <2>5. CASE LookForProduction(p)
    BY <1>1, <1>2, <2>1, <2>5 DEF LookForProduction, Steps
  <2>. QED
    BY <1>9, <2>2, <2>3, <2>4, <2>5
<1>10. ASSUME NEW p \in Processes, SeedDraft(p) PROVE Goal
  BY <1>p, <1>a, <1>10 DEF SeedDraft
<1>11. ASSUME NEW p \in Processes, SeedTransition(p) PROVE Goal
  BY <1>p, <1>1, <1>3, <1>11 DEF SeedTransition
<1>12. ASSUME NEW p \in Processes, Crash(p) PROVE Goal
  <2>1. CASE ProcessOf(h) = p
    BY <1>p, <1>12, <2>1 DEF Crash
  <2>2. CASE ProcessOf(h) # p
    BY <1>p, <1>12, <2>2 DEF Crash
  <2>. QED
    BY <2>1, <2>2
<1>13. ASSUME NEW g \in Handlers, RecordAudit(g) PROVE Goal
  <2>1. CASE g = h
    BY <1>13, <2>1 DEF RecordAudit
  <2>2. CASE g # h
    BY <1>p, <1>a, <1>13, <2>2 DEF RecordAudit
  <2>. QED
    BY <2>1, <2>2
<1>14. ASSUME NEW g \in Handlers, CallFails(g) PROVE Goal
  BY <1>p, <1>1, <1>14 DEF CallFails
<1>15. ASSUME NEW g \in Handlers, NEW v \in DOMAIN version, NEW s \in Statuses,
              RequestTransition(g, v, s)
       PROVE  Goal
  <2>1. g # h
    BY <1>15 DEF RequestTransition
  <2>. QED
    BY <1>p, <1>3, <1>15, <2>1 DEF RequestTransition
<1>16. ASSUME job' = job PROVE Goal
  BY <1>16
<1>. QED
  BY <1>4, <1>5, <1>6, <1>7, <1>8, <1>9, <1>10, <1>11, <1>12, <1>13, <1>14,
     <1>15, <1>16
  DEF Next, vars, CreateVersion, CreateModel, SetModelStatus

\* What is known to have failed or is audited stays so.
LEMMA TrailGrows ==
  ASSUME TypeOK, [Next]_vars
  PROVE  /\ failed => failed'
         /\ audit \subseteq audit'
  BY DEF TypeOK, Next, vars, Boot, Crash, SeedRead, SeedInsert, LookForProduction,
     SeedDraft, SeedTransition, ReadModel, ReadPrior, Commit, ReadProduction, Apply,
     RecordAudit, CallFails, RequestTransition, CreateVersion, CreateModel,
     SetModelStatus, End

\* A version that has just been rolled back is the one of a request that goes
\* on to its audit event: rows are rolled back by requests alone.
LEMMA RollbackBegins ==
  ASSUME Inductive, BootsOnlyPromote, [Next]_vars,
         NEW i \in DOMAIN version', "ROLLED_BACK" \in version'[i].been,
         i \in DOMAIN version => "ROLLED_BACK" \notin version[i].been
  PROVE  \E h \in Handlers :
           /\ job'[h].v = i /\ job'[h].to = "ROLLED_BACK"
           /\ job'[h].step \in Applying
<1>t. TypeOK
  BY DEF Inductive
<1>1. PICK k \in Jobs : Commit(k)
  <2>1. ASSUME NEW m \in Models \cup {NoModel}, NEW p \in BOOLEAN,
               version' = Append(version, Draft(m, p))
        PROVE  FALSE
    <3>1. "ROLLED_BACK" \notin Draft(m, p).been
      BY DEF Draft
    <3>. QED
      BY <1>t, <2>1, <3>1, AppendedRow
  <2>. QED
    BY <2>1, VersionSteps
<1>2. i \in DOMAIN version
  BY <1>t, <1>1, WrittenLemma DEF Commit
<1>3. version[i] \in VersionRows
  BY <1>t, <1>2 DEF TypeOK
<1>4. i = job[k].v
  <2>1. CASE i # job[k].v /\ i \in job[k].prior
    <3>1. version'[i] = [version[i] EXCEPT !.status = "RETIRED",
                                           !.been = @ \cup {"RETIRED"}]
      BY <1>1, <1>2, <2>1, WrittenRow
    <3>. QED
      BY <1>2, <1>3, <3>1 DEF VersionRows
  <2>2. CASE i # job[k].v /\ i \notin job[k].prior
    <3>1. version'[i] = version[i]
      BY <1>1, <1>2, <2>2, WrittenRow
    <3>. QED
      BY <1>2, <3>1
  <2>. QED
    BY <2>1, <2>2
<1>5. job[k].to = "ROLLED_BACK"
  <2>1. version'[i] = [version[i] EXCEPT !.status = job[k].to,
                                         !.been = @ \cup {job[k].to}]
    BY <1>1, <1>2, <1>4, WrittenRow
  <2>. QED
    BY <1>2, <1>3, <2>1 DEF VersionRows
<1>6. k \in Handlers
  BY <1>5 DEF BootsOnlyPromote, Jobs
<1>7. job'[k] = [job[k] EXCEPT !.step = "production", !.prior = {}]
  BY <1>1, <1>5 DEF Commit, AfterCommit
<1>8. job[k] \in JobRecords
  BY <1>t DEF TypeOK
<1>. QED
  BY <1>4, <1>5, <1>6, <1>7, <1>8 DEF JobRecords, Applying

\* Every step keeps the trail of the rollbacks.
LEMMA RollbackInductive ==
  ASSUME Inductive, BootsOnlyPromote, RollbackIsAudited, [Next]_vars
  PROVE  RollbackIsAudited'
<1>t. TypeOK
  BY DEF Inductive
<1> SUFFICES ASSUME ~failed', NEW i \in DOMAIN version',
                    "ROLLED_BACK" \in version'[i].been
             PROVE  \/ <<i, "ROLLED_BACK">> \in audit'
                    \/ \E h \in Handlers :
                         /\ job'[h].v = i /\ job'[h].to = "ROLLED_BACK"
                         /\ job'[h].step \in Applying
  BY DEF RollbackIsAudited, Applying
<1>1. ~failed /\ audit \subseteq audit'
  BY <1>t, TrailGrows
<1>2. CASE i \in DOMAIN version => "ROLLED_BACK" \notin version[i].been
  BY <1>2, RollbackBegins
<1>3. CASE i \in DOMAIN version /\ "ROLLED_BACK" \in version[i].been
  <2>1. CASE <<i, "ROLLED_BACK">> \in audit
    BY <1>1, <2>1
  <2>2. CASE <<i, "ROLLED_BACK">> \notin audit
    <3>1. PICK h \in Handlers : /\ job[h].v = i /\ job[h].to = "ROLLED_BACK"
                                /\ job[h].step \in Applying
      BY <1>1, <1>3, <2>2 DEF RollbackIsAudited, Applying
    <3>. QED
      BY <1>t, <3>1, RequestGoesOn
  <2>. QED
    BY <2>1, <2>2
<1>. QED
  BY <1>2, <1>3

\* Every rollback has its audit event, is on its way to it, or belongs to a
\* request that ended between the two (rollback_agent_version).
THEOREM RollbacksAreAudited == Spec => []RollbackIsAudited
<1>1. Init => BootsOnlyPromote /\ RollbackIsAudited
  BY DEF Init, BootsOnlyPromote, RollbackIsAudited, Idle, Jobs
<1>2. Inductive /\ BootsOnlyPromote /\ RollbackIsAudited /\ [Next]_vars
        => BootsOnlyPromote' /\ RollbackIsAudited'
  <2>1. Inductive => TypeOK
    BY DEF Inductive
  <2>. QED
    BY <2>1, BootsInductive, RollbackInductive
<1>. QED
  BY <1>1, <1>2, AlwaysInductive, PTL DEF Spec
=============================================================================
