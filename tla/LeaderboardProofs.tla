--------------------------- MODULE LeaderboardProofs ---------------------------
(***************************************************************************)
(* Theorems about Leaderboard, for any models, tasks and seeds, any number  *)
(* of workflow runs, failed jobs and operators' sweeps, and any error rate. *)
(***************************************************************************)
EXTENDS Leaderboard, Induction, FiniteSetTheorems, TLAPS

LEMMA Bounds == MaxSweeps \in Nat /\ MaxStored \in Nat /\ MaxRedeploys \in Nat
  BY LeaderboardAssumption

\* A model's sweep has an outcome for each task and each of the seeds chosen.
LEMMA FilesAreFunctions ==
  ASSUME NEW S, NEW file \in Files(S)
  PROVE  DOMAIN file = Tasks \X S /\ \A c \in DOMAIN file : file[c] \in Outcomes
<1>1. file \in Results /\ DOMAIN file = Tasks \X S
  BY DEF Files
<1>2. file \in UNION {[Tasks \X R -> Outcomes] : R \in SeedChoices}
  BY <1>1, LeaderboardAssumption
<1>3. PICK R \in SeedChoices : file \in [Tasks \X R -> Outcomes]
  BY <1>2
<1> QED
  BY <1>1, <1>3

\* What a publish is about to upsert are runs, with outcomes.
LEMMA PublishedRuns ==
  ASSUME TypeOK, NEW id \in RunsToPublish
  PROVE  /\ id \in RunIds
         /\ files[id[1]][<<id[2], id[3]>>] \in Outcomes
         /\ id[1] \in Healthy /\ <<id[2], id[3]>> \in DOMAIN files[id[1]]
<1>0. PICK m \in Healthy : id \in {<<m, c[1], c[2]>> : c \in DOMAIN files[m]}
  BY DEF RunsToPublish
<1>1. PICK c \in DOMAIN files[m] : id = <<m, c[1], c[2]>>
  BY <1>0
<1>2. m \in Models /\ files[m] \in Files(seeds)
  BY DEF Healthy, TypeOK
<1>3. c \in Tasks \X seeds /\ files[m][c] \in Outcomes
  BY <1>2, FilesAreFunctions
<1>4. c = <<c[1], c[2]>> /\ c[1] \in Tasks /\ c[2] \in Seeds
  BY <1>3 DEF TypeOK
<1> QED
  BY <1>0, <1>1, <1>2, <1>3, <1>4 DEF RunIds

\* The files that a publish reads stay what they are while it publishes.
LEMMA PublishedRunsStay == UNCHANGED files => UNCHANGED <<RunsToPublish, Healthy>>
  BY DEF RunsToPublish, Healthy

\* What operators may write at any time is a run of some sweep with an outcome,
\* and one that passed the gate if it is a workflow's.
OperatorStores ==
  \/ \E run \in StoreRuns : StoreRun(run[1], run[2])
  \/ \E s \in 1..sweep : \E run \in passed[s] : InsertAgain(s, run)

LEMMA OperatorsStoreRuns ==
  ASSUME TypeOK, OperatorStores
  PROVE  \E id \in RunIds, row \in Row :
           /\ Store(id, row)
           /\ row.sweep # 0 => <<id[1], <<id[2], id[3]>>, row.outcome>> \in passed[row.sweep]
<1>1. ASSUME NEW run \in StoreRuns, StoreRun(run[1], run[2])
      PROVE  \E id \in RunIds, row \in Row :
               Store(id, row) /\ row.sweep = 0
  <2>1. run[1] \in RunIds /\ run[2] \in Outcomes
    BY LeaderboardAssumption DEF RunIds
  <2>2. [outcome |-> run[2], sweep |-> 0] \in Row
    BY <2>1, Bounds DEF Row, Sweeps
  <2> QED
    BY <1>1, <2>1, <2>2 DEF StoreRun
<1>2. ASSUME NEW s \in 1..sweep, NEW run \in passed[s], InsertAgain(s, run)
      PROVE  \E id \in RunIds, row \in Row :
               Store(id, row) /\ <<id[1], <<id[2], id[3]>>, row.outcome>> \in passed[row.sweep]
  <2> DEFINE id == <<run[1], run[2][1], run[2][2]>>
             row == [outcome |-> run[3], sweep |-> s]
  <2>1. s \in 1..MaxSweeps
    BY Bounds DEF TypeOK, Sweeps
  <2>2. run \in Models \X (Tasks \X Seeds) \X Outcomes
    BY <2>1 DEF TypeOK
  <2>3. id \in RunIds /\ row \in Row /\ run = <<id[1], <<id[2], id[3]>>, row.outcome>>
    BY <2>1, <2>2, Bounds DEF RunIds, Row, Sweeps
  <2>4. Store(id, row) /\ row.sweep = s
    BY <1>2 DEF InsertAgain
  <2> QED
    BY <2>3, <2>4
<1> QED
  BY <1>1, <1>2 DEF OperatorStores

-----------------------------------------------------------------------------
\* Runs left to upsert are runs of the healthy files.
TodoInv == todo \subseteq RunsToPublish /\ (pc # "insert" => todo = {})

TypeInv == TypeOK /\ TodoInv

LEMMA TypeInvHolds == Spec => []TypeInv
<1>1. Init => TypeInv
  <2> SUFFICES ASSUME Init PROVE TypeInv
    OBVIOUS
  <2>1. files \in [Models -> {Missing, Pending} \cup Files(seeds)]
    BY DEF Init
  <2>2. rows \in [RunIds -> Row \cup {NoRow}]
    BY DEF Init
  <2>3. /\ seeds \in SUBSET Seeds /\ sweep \in Sweeps
        /\ stored \in 0..MaxStored /\ redeploys \in 0..MaxRedeploys
    BY Bounds DEF Init, Sweeps
  <2>4. passed \in [1..MaxSweeps -> SUBSET (Models \X (Tasks \X Seeds) \X Outcomes)]
    BY DEF Init
  <2> QED
    BY <2>1, <2>2, <2>3, <2>4 DEF Init, TypeInv, TypeOK, TodoInv
<1>2. TypeInv /\ [Next]_vars => TypeInv'
  <2> SUFFICES ASSUME TypeInv, [Next]_vars PROVE TypeInv'
    OBVIOUS
  <2> USE Bounds DEF TypeInv, TypeOK, TodoInv, Sweeps, source, sites, redeploy, operators
  <2>1. ASSUME NEW S \in SeedChoices, Dispatch(S)
        PROVE  TypeInv'
    <3>1. S \in SUBSET Seeds
      BY LeaderboardAssumption
    <3>2. files' \in [Models -> {Missing, Pending} \cup Files(S)]
      BY <2>1 DEF Dispatch
    <3>3. files' \in [Models -> {Missing, Pending} \cup Files(seeds')]
      BY <2>1, <3>2 DEF Dispatch
    <3>4. sweep' \in Sweeps
      BY <2>1 DEF Dispatch
    <3>5. todo' = {} /\ pc' = "sweep"
      BY <2>1 DEF Dispatch
    <3>6. seeds' \in SUBSET Seeds /\ manual' \in BOOLEAN
      BY <2>1, <3>1 DEF Dispatch
    <3> QED
      BY <2>1, <3>3, <3>4, <3>5, <3>6 DEF Dispatch
  <2>2. ASSUME NEW m \in Models, NEW file \in Files(seeds) \cup {Missing}, SweepModel(m, file)
        PROVE  TypeInv'
    <3>1. ASSUME file # Missing
          PROVE  \A c \in DOMAIN file :
                   <<m, c, file[c]>> \in Models \X (Tasks \X Seeds) \X Outcomes
      <4>1. file \in Files(seeds)
        BY <3>1
      <4>2. DOMAIN file = Tasks \X seeds /\ \A c \in DOMAIN file : file[c] \in Outcomes
        BY <4>1, FilesAreFunctions
      <4> QED
        BY <4>2
    <3>2. passed' \in [1..MaxSweeps -> SUBSET (Models \X (Tasks \X Seeds) \X Outcomes)]
      <4> DEFINE added == IF Acceptable(file) THEN {<<m, c, file[c]>> : c \in DOMAIN file} ELSE {}
      <4>1. passed' = [passed EXCEPT ![sweep] = @ \cup added]
        BY <2>2 DEF SweepModel
      <4>2. added \subseteq Models \X (Tasks \X Seeds) \X Outcomes
        BY <3>1 DEF Acceptable
      <4> HIDE DEF added
      <4> QED
        BY <4>1, <4>2
    <3>3. files' \in [Models -> {Missing, Pending} \cup Files(seeds)]
      BY <2>2 DEF SweepModel
    <3>4. pc = "sweep"
      BY <2>2 DEF SweepModel
    <3> QED
      BY <2>2, <3>2, <3>3, <3>4 DEF SweepModel
  <2>3. CASE BeginPublish \/ PublishAgain \/ NothingToPublish
    BY <2>3 DEF BeginPublish, PublishAgain, NothingToPublish
  <2>4. CASE LoadAndGate
    <3>1. RunsToPublish \subseteq RunIds
      BY PublishedRuns
    <3> QED
      BY <2>4, <3>1, PublishedRunsStay DEF LoadAndGate
  <2>5. ASSUME NEW id \in todo, InsertRun(id)
        PROVE  TypeInv'
    <3>1. files[id[1]][<<id[2], id[3]>>] \in Outcomes /\ id \in RunIds
      BY PublishedRuns
    <3>2. [outcome |-> files[id[1]][<<id[2], id[3]>>], sweep |-> sweep] \in Row
      BY <3>1 DEF Row
    <3> QED
      BY <2>5, <3>2, PublishedRunsStay DEF InsertRun, Upsert
  <2>6. CASE ReadBoard \/ ReadRunsAndWrite \/ Deploy \/ Commit
    BY <2>6 DEF ReadBoard, ReadRunsAndWrite, AfterExport, Deploy, Commit
  <2>7. CASE JobFails
    BY <2>7 DEF JobFails
  <2>8. CASE OperatorStores
    <3>1. PICK id \in RunIds, row \in Row : Store(id, row)
      BY <2>8, OperatorsStoreRuns
    <3>2. stored' \in 0..MaxStored
      BY <3>1 DEF Store
    <3> QED
      BY <3>1, <3>2, PublishedRunsStay DEF Store, Upsert
  <2>10. CASE PagesCheckout \/ PagesDeploy \/ PagesFails
    BY <2>10, PublishedRunsStay DEF PagesCheckout, PagesDeploy, PagesFails
  <2>9. CASE UNCHANGED vars
    BY <2>9, PublishedRunsStay DEF vars
  <2> QED
    BY <2>1, <2>2, <2>3, <2>4, <2>5, <2>6, <2>7, <2>8, <2>9, <2>10
       DEF Next, SweepRaises, OperatorStores
<1> QED
  BY <1>1, <1>2, PTL DEF Spec

\* The variables keep their types; in particular what reaches the database is a
\* run of a file, with an outcome.
THEOREM TypeCorrect == Spec => []TypeOK
<1>1. TypeInv => TypeOK
  BY DEF TypeInv
<1> QED
  BY <1>1, TypeInvHolds, PTL

-----------------------------------------------------------------------------
\* The gate's three conditions make a file acceptable: where every run is not
\* an error, some run is none.
LEMMA GateAccepts ==
  ASSUME NEW file, file # Missing, Gate(file)
  PROVE  Acceptable(file)
<1>1. \E c \in DOMAIN file : file[c] # "error"
  <2> SUFFICES ASSUME \A c \in DOMAIN file : file[c] = "error" PROVE FALSE
    OBVIOUS
  <2>1. {c \in DOMAIN file : file[c] = "error"} = DOMAIN file
    OBVIOUS
  <2> QED
    BY <2>1 DEF Gate, ErrorCount
<1> QED
  BY <1>1 DEF Gate, Acceptable

\* Every acceptable file's runs are on record as having passed, and so is every
\* row that a workflow wrote.
PassedInv ==
  /\ DOMAIN passed = 1..MaxSweeps /\ passed = [s \in DOMAIN passed |-> passed[s]]
  /\ pc # "idle" => sweep # 0
  /\ \A m \in Models :
       files[m] \notin {Missing, Pending} /\ Acceptable(files[m]) =>
         \A c \in DOMAIN files[m] : <<m, c, files[m][c]>> \in passed[sweep]
  /\ RowsPassedTheGate

\* No run of a sweep that failed the gate is ever in the table, whichever jobs
\* fail between which commits and whatever an operator publishes again.
THEOREM RowsPassed == Spec => []RowsPassedTheGate
<1>1. Init => PassedInv
  BY Bounds DEF Init, PassedInv, RowsPassedTheGate
<1>2. TypeInv /\ PassedInv /\ [Next]_vars => PassedInv'
  <2> SUFFICES ASSUME TypeInv, PassedInv, [Next]_vars PROVE PassedInv'
    OBVIOUS
  <2> USE DEF PassedInv, RowsPassedTheGate, source, sites, redeploy, operators
  <2>0. sweep \in 0..MaxSweeps /\ rows \in [RunIds -> Row \cup {NoRow}] /\ Bounds
    BY Bounds DEF TypeInv, TypeOK, Sweeps
  <2>1. ASSUME NEW S \in SeedChoices, Dispatch(S)
        PROVE  PassedInv'
    <3>1. passed' = passed /\ rows' = rows /\ sweep' # 0
      BY <2>0, <2>1 DEF Dispatch
    <3>2. \A m \in Models : files'[m] = Pending
      BY <2>1 DEF Dispatch
    <3> QED
      BY <3>1, <3>2
  <2>2. ASSUME NEW m \in Models, NEW file \in Files(seeds) \cup {Missing}, SweepModel(m, file)
        PROVE  PassedInv'
    <3>1. sweep \in DOMAIN passed /\ pc' = pc /\ sweep' = sweep /\ rows' = rows
      BY <2>0, <2>2 DEF SweepModel
    <3>2. /\ DOMAIN passed' = DOMAIN passed
          /\ passed' = [s \in DOMAIN passed' |-> passed'[s]]
          /\ \A s \in DOMAIN passed : passed[s] \subseteq passed'[s]
      BY <2>2, <3>1 DEF SweepModel
    <3>3. Acceptable(file) => \A c \in DOMAIN file : <<m, c, file[c]>> \in passed'[sweep]
      BY <2>2, <3>1 DEF SweepModel
    <3>4. files' = [files EXCEPT ![m] = file] /\ files \in [Models -> {Missing, Pending} \cup Files(seeds)]
      BY <2>2 DEF SweepModel, TypeInv, TypeOK
    <3>5. ASSUME NEW n \in Models, files'[n] \notin {Missing, Pending}, Acceptable(files'[n]),
                 NEW c \in DOMAIN files'[n]
          PROVE  <<n, c, files'[n][c]>> \in passed'[sweep]
      BY <3>1, <3>2, <3>3, <3>4, <3>5
    <3>6. \A id \in RunIds : rows'[id] # NoRow /\ rows'[id].sweep # 0 =>
            rows[id].sweep \in DOMAIN passed
      BY <2>0, <3>1 DEF Row, Sweeps
    <3> QED
      BY <3>1, <3>2, <3>5, <3>6
  <2>3. CASE UNCHANGED <<rows, files, sweep, passed>> /\ (pc = "idle" /\ pc' # "idle" => sweep > 0)
    BY <2>3, <2>0
  <2>4. ASSUME NEW id \in todo, InsertRun(id)
        PROVE  PassedInv'
    <3>1. id \in RunsToPublish /\ id \in RunIds
      BY PublishedRuns DEF TypeInv, TodoInv
    <3>2. id[1] \in Healthy /\ <<id[2], id[3]>> \in DOMAIN files[id[1]]
      BY <3>1, PublishedRuns DEF TypeInv
    <3>3. id[1] \in Models /\ files[id[1]] \notin {Missing, Pending} /\ Acceptable(files[id[1]])
      BY <3>2, GateAccepts DEF Healthy
    <3>4. <<id[1], <<id[2], id[3]>>, files[id[1]][<<id[2], id[3]>>]>> \in passed[sweep]
      BY <3>2, <3>3
    <3> QED
      BY <2>0, <2>4, <3>1, <3>4 DEF InsertRun, Upsert
  <2>5. CASE OperatorStores
    <3>1. PICK id \in RunIds, row \in Row :
            /\ Store(id, row)
            /\ row.sweep # 0 => <<id[1], <<id[2], id[3]>>, row.outcome>> \in passed[row.sweep]
      BY <2>5, OperatorsStoreRuns DEF TypeInv
    <3> QED
      BY <2>0, <3>1 DEF Store, Upsert
  <2>6. CASE JobFails
    <3>1. \A m \in Models : files'[m] \notin {Missing, Pending} => files'[m] = files[m]
      BY <2>6 DEF JobFails
    <3> QED
      BY <2>6, <3>1 DEF JobFails
  <2>7. CASE \/ BeginPublish \/ PublishAgain \/ NothingToPublish \/ LoadAndGate
             \/ ReadBoard \/ ReadRunsAndWrite \/ Deploy \/ Commit
             \/ PagesCheckout \/ PagesDeploy \/ PagesFails \/ UNCHANGED vars
    BY <2>0, <2>3, <2>7 DEF BeginPublish, PublishAgain, NothingToPublish, LoadAndGate, ReadBoard,
         ReadRunsAndWrite, AfterExport, Deploy, Commit, PagesCheckout, PagesDeploy, PagesFails, vars
  <2> QED
    BY <2>1, <2>2, <2>4, <2>5, <2>6, <2>7 DEF Next, SweepRaises, OperatorStores
<1>3. PassedInv => RowsPassedTheGate
  BY DEF PassedInv
<1> QED
  BY <1>1, <1>2, <1>3, TypeInvHolds, PTL DEF Spec

-----------------------------------------------------------------------------
Published(id) == rows[id] = [outcome |-> files[id[1]][<<id[2], id[3]>>], sweep |-> sweep]

\* During the upserts, what is neither left to do nor an operator's is done.
WholeInv ==
  /\ pc = "insert" => \A id \in RunsToPublish \ (todo \cup disturbed) : Published(id)
  /\ PublishIsWhole

\* A publish that reaches its export has put every healthy run in place, also
\* when an earlier one was cut off half way through the same file.
THEOREM PublishesAreWhole == Spec => []PublishIsWhole
<1>1. Init => WholeInv
  BY DEF Init, WholeInv, PublishIsWhole
<1>2. TypeInv /\ WholeInv /\ [Next]_vars => WholeInv'
  <2> SUFFICES ASSUME TypeInv, WholeInv, [Next]_vars PROVE WholeInv'
    OBVIOUS
  <2> USE DEF WholeInv, PublishIsWhole, Published, source, sites, redeploy, operators
  <2>0. rows \in [RunIds -> Row \cup {NoRow}] /\ RunsToPublish \subseteq RunIds
    BY PublishedRuns DEF TypeInv, TypeOK
  <2>1. ASSUME NEW S \in SeedChoices, Dispatch(S)
        PROVE  WholeInv'
    BY <2>1 DEF Dispatch
  <2>2. ASSUME NEW m \in Models, NEW file \in Files(seeds) \cup {Missing}, SweepModel(m, file)
        PROVE  WholeInv'
    BY <2>2 DEF SweepModel
  <2>3. CASE BeginPublish \/ PublishAgain \/ NothingToPublish \/ JobFails
    BY <2>3 DEF BeginPublish, PublishAgain, NothingToPublish, JobFails
  <2>4. CASE LoadAndGate
    BY <2>4, PublishedRunsStay DEF LoadAndGate
  <2>5. ASSUME NEW id \in todo, InsertRun(id)
        PROVE  WholeInv'
    <3>1. UNCHANGED <<files, sweep, pc, RunsToPublish>> /\ pc = "insert"
      BY <2>5, PublishedRunsStay DEF InsertRun
    <3>2. id \in RunIds /\ Published(id)'
      BY <2>0, <2>5, <3>1 DEF InsertRun, Upsert, TypeInv, TodoInv
    <3>3. \A i \in RunIds \ {id} : rows'[i] = rows[i]
      BY <2>0, <2>5 DEF InsertRun, Upsert
    <3>4. \A i \in RunsToPublish \ (todo' \cup disturbed') : i = id \/ i \notin todo \cup disturbed
      BY <2>5 DEF InsertRun
    <3> QED
      BY <2>0, <3>1, <3>2, <3>3, <3>4
  <2>6. CASE ReadBoard
    BY <2>6, PublishedRunsStay DEF ReadBoard
  <2>7. CASE ReadRunsAndWrite \/ Deploy \/ Commit
    BY <2>7, PublishedRunsStay DEF ReadRunsAndWrite, AfterExport, Deploy, Commit
  <2>8. CASE OperatorStores
    <3>0. PICK id \in RunIds, row \in Row : Store(id, row)
      BY <2>8, OperatorsStoreRuns DEF TypeInv
    <3>1. UNCHANGED <<files, sweep, pc, todo, RunsToPublish>>
      BY <3>0, PublishedRunsStay DEF Store
    <3>2. pc # "idle" => disturbed' = disturbed \cup {id}
      BY <3>0 DEF Store
    <3>3. \A i \in RunIds \ {id} : rows'[i] = rows[i]
      BY <2>0, <3>0 DEF Store, Upsert
    <3> QED
      BY <2>0, <3>1, <3>2, <3>3
  <2>9. CASE PagesCheckout \/ PagesDeploy \/ PagesFails \/ UNCHANGED vars
    BY <2>9, PublishedRunsStay DEF PagesCheckout, PagesDeploy, PagesFails, vars
  <2> QED
    BY <2>1, <2>2, <2>3, <2>4, <2>5, <2>6, <2>7, <2>8, <2>9 DEF Next, SweepRaises, OperatorStores
<1>3. WholeInv => PublishIsWhole
  BY DEF WholeInv
<1> QED
  BY <1>1, <1>2, <1>3, TypeInvHolds, PTL DEF Spec

-----------------------------------------------------------------------------
Consistent(s) ==
  \E old \in [s.between -> Row \cup {NoRow}] : s.lines = Leaderboard(SeenBefore(s, old))

\* What the first query saw is a table that differs from the one there is now
\* only under the keys that operators wrote since.
SnapshotInv ==
  /\ pc = "read" =>
       \E table \in [RunIds -> Row \cup {NoRow}] :
         /\ board = Leaderboard(Stored(table))
         /\ \A id \in RunIds \ between : table[id] = rows[id]
  /\ Consistent(snapshot) /\ Consistent(live) /\ Consistent(git)
  /\ \A s \in pages : Consistent(s)

\* Lines made from such a table are consistent with the runs of this one.
LEMMA TwoQueriesAreConsistent ==
  ASSUME NEW table \in [RunIds -> Row \cup {NoRow}], between \subseteq RunIds,
         \A id \in RunIds \ between : table[id] = rows[id]
  PROVE  Consistent([lines |-> Leaderboard(Stored(table)), runs |-> Stored(rows),
                     between |-> between])
<1> DEFINE s == [lines |-> Leaderboard(Stored(table)), runs |-> Stored(rows), between |-> between]
           old == [id \in between |-> table[id]]
<1>1. old \in [s.between -> Row \cup {NoRow}]
  OBVIOUS
<1>2. \A id \in RunIds : \A row : Key(Record(id, row)) = id
  BY DEF Key, Record, RunIds
<1>3. {r \in s.runs : Key(r) \notin s.between}
        = {Record(id, table[id]) : id \in {i \in RunIds \ between : table[i] # NoRow}}
  <2>1. s.runs = {Record(id, rows[id]) : id \in {i \in RunIds : rows[i] # NoRow}}
    BY DEF Stored
  <2>2. ASSUME NEW id \in RunIds \ between
        PROVE  rows[id] = table[id] /\ Record(id, rows[id]) = Record(id, table[id])
    BY DEF Record
  <2> QED
    BY <1>2, <2>1, <2>2
<1>4. {Record(id, old[id]) : id \in {i \in s.between : old[i] # NoRow}}
        = {Record(id, table[id]) : id \in {i \in between : table[i] # NoRow}}
  <2>1. \A id \in between : Record(id, old[id]) = Record(id, table[id])
    BY DEF Record
  <2> QED
    BY <2>1
<1>5. SeenBefore(s, old) = Stored(table)
  BY <1>3, <1>4 DEF SeenBefore, Stored
<1>6. s.lines = Leaderboard(SeenBefore(s, old))
  BY <1>5
<1> QED
  BY <1>1, <1>6 DEF Consistent

\* The lines on the site are those of the runs beside them, up to the rows that
\* were written between the two queries.
THEOREM SiteConsistency == Spec => []SiteIsConsistent
<1>0. Consistent(Empty)
  <2> DEFINE old == [id \in {} |-> NoRow]
  <2>1. SeenBefore(Empty, old) = {} /\ old \in [Empty.between -> Row \cup {NoRow}]
    BY DEF SeenBefore, Empty
  <2>2. Empty.lines = Leaderboard({})
    BY DEF Empty, Leaderboard
  <2> QED
    BY <2>1, <2>2 DEF Consistent
<1>1. Init => SnapshotInv
  BY <1>0 DEF Init, SnapshotInv
<1>2. TypeInv /\ SnapshotInv /\ [Next]_vars => SnapshotInv'
  <2> SUFFICES ASSUME TypeInv, SnapshotInv, [Next]_vars PROVE SnapshotInv'
    OBVIOUS
  <2> USE DEF SnapshotInv, source, sites, redeploy, operators
  <2>0. ASSUME NEW s, s = s', Consistent(s) PROVE Consistent(s)'
    BY <2>0 DEF Consistent, SeenBefore, Key, Record
  <2>2. ASSUME pc' # "read", snapshot' \in {snapshot, Empty, git} \cup pages,
               live' \in {snapshot, live} \cup pages, git' \in {snapshot, git},
               pages' \subseteq pages \cup {git}
        PROVE  SnapshotInv'
    BY <2>2, <1>0
  <2>3. ASSUME NEW S \in SeedChoices, Dispatch(S)
        PROVE  SnapshotInv'
    BY <2>2, <2>3 DEF Dispatch
  <2>4. ASSUME NEW m \in Models, NEW file, SweepModel(m, file)
        PROVE  SnapshotInv'
    BY <2>2, <2>4 DEF SweepModel
  <2>5. CASE \/ BeginPublish \/ PublishAgain \/ NothingToPublish \/ LoadAndGate \/ JobFails
             \/ Deploy \/ Commit
    BY <2>2, <2>5 DEF BeginPublish, PublishAgain, NothingToPublish, LoadAndGate, JobFails,
         Deploy, Commit
  <2>6. ASSUME NEW id \in todo, InsertRun(id)
        PROVE  SnapshotInv'
    BY <2>2, <2>6 DEF InsertRun
  <2>7. CASE ReadBoard
    <3>1. /\ UNCHANGED <<rows, snapshot, sites, pages>> /\ between' = {}
          /\ board' = Leaderboard(Stored(rows))
      BY <2>7 DEF ReadBoard
    <3>2. rows \in [RunIds -> Row \cup {NoRow}]
      BY DEF TypeInv, TypeOK
    <3> QED
      BY <3>1, <3>2
  <2>8. CASE ReadRunsAndWrite
    <3>1. pc = "read" /\ UNCHANGED <<sites, pages>> /\ pc' # "read"
      BY <2>8 DEF ReadRunsAndWrite, AfterExport
    <3>2. \/ snapshot' = Empty
          \/ snapshot' = [lines |-> board, runs |-> Stored(rows), between |-> between]
      BY <2>8 DEF ReadRunsAndWrite
    <3>3. Consistent([lines |-> board, runs |-> Stored(rows), between |-> between])
      <4>1. between \subseteq RunIds
        BY DEF TypeInv, TypeOK
      <4> QED
        BY <3>1, <4>1, TwoQueriesAreConsistent
    <3>4. Consistent(snapshot')
      BY <1>0, <3>2, <3>3
    <3> QED
      BY <3>1, <3>4
  <2>9. CASE OperatorStores
    <3>1. PICK id \in RunIds, row \in Row : Store(id, row)
      BY <2>9, OperatorsStoreRuns DEF TypeInv
    <3>2. /\ UNCHANGED <<pc, board, snapshot, sites, pages>>
          /\ pc = "read" => between' = between \cup {id}
      BY <3>1 DEF Store
    <3>3. \A i \in RunIds \ {id} : rows'[i] = rows[i]
      BY <3>1 DEF Store, Upsert, TypeInv, TypeOK
    <3> QED
      BY <3>2, <3>3
  <2>10. CASE PagesCheckout \/ PagesDeploy \/ PagesFails \/ UNCHANGED vars
    <3>1. /\ UNCHANGED <<pc, rows, board, between, snapshot, git>>
          /\ live' \in {live} \cup pages /\ pages' \subseteq pages \cup {git}
      BY <2>10 DEF PagesCheckout, PagesDeploy, PagesFails, vars
    <3> QED
      BY <3>1
  <2> QED
    BY <2>3, <2>4, <2>5, <2>6, <2>7, <2>8, <2>9, <2>10 DEF Next, SweepRaises, OperatorStores
<1>3. SnapshotInv => SiteIsConsistent
  BY DEF SnapshotInv, Consistent, SiteIsConsistent
<1> QED
  BY <1>1, <1>2, <1>3, TypeInvHolds, PTL DEF Spec

-----------------------------------------------------------------------------
\* What is about to be committed is what this workflow run deployed, whatever a
\* pages-deploy has done to the site in the meantime.
LiveInv == pc = "commit" => snapshot = deployed

\* Only what the workflow put on the site is committed.
THEOREM CommitsFollowTheSite == Spec => GitFollowsTheSite
<1>1. Init => LiveInv
  BY DEF Init, LiveInv
<1>2. LiveInv /\ [Next]_vars => LiveInv' /\ [git' # git => git' = deployed]_vars
  <2> SUFFICES ASSUME LiveInv, [Next]_vars PROVE LiveInv' /\ (git' # git => git' = deployed)
    OBVIOUS
  <2> USE DEF LiveInv, source, sites, redeploy, operators
  <2>1. ASSUME NEW S \in SeedChoices, Dispatch(S)
        PROVE  LiveInv' /\ git' = git
    BY <2>1 DEF Dispatch
  <2>2. ASSUME NEW m \in Models, NEW file, SweepModel(m, file)
        PROVE  LiveInv' /\ git' = git
    BY <2>2 DEF SweepModel
  <2>3. CASE \/ BeginPublish \/ PublishAgain \/ NothingToPublish \/ LoadAndGate \/ ReadBoard
             \/ ReadRunsAndWrite \/ Deploy \/ JobFails
    BY <2>3 DEF BeginPublish, PublishAgain, NothingToPublish, LoadAndGate, ReadBoard,
         ReadRunsAndWrite, AfterExport, Deploy, JobFails
  <2>4. ASSUME NEW id, InsertRun(id) \/ \E row : Store(id, row)
        PROVE  LiveInv' /\ git' = git
    BY <2>4 DEF InsertRun, Store
  <2>5. CASE Commit
    BY <2>5 DEF Commit
  <2>6. CASE PagesCheckout \/ PagesDeploy \/ PagesFails \/ UNCHANGED vars
    BY <2>6 DEF PagesCheckout, PagesDeploy, PagesFails, vars
  <2> QED
    BY <2>1, <2>2, <2>3, <2>4, <2>5, <2>6 DEF Next, SweepRaises, StoreRun, InsertAgain
<1> QED
  BY <1>1, <1>2, PTL DEF Spec, GitFollowsTheSite

-----------------------------------------------------------------------------
Shows(lines, m) == \E l \in lines : l.model = m

\* While runs are upserted, those that are not left to do are in the table; what
\* is read then has each healthy model, and so has what is deployed and committed.
ShownInv ==
  /\ pc = "insert" => \A id \in RunsToPublish \ todo : rows[id] # NoRow
  /\ pc = "read" => \A m \in Healthy : Shows(board, m)
  /\ pc \in {"deploy", "commit"} => Publishes(snapshot)

\* A model with a row in the table has a line on the leaderboard.
LEMMA RowsAreShown ==
  ASSUME NEW id \in RunIds, rows[id] # NoRow
  PROVE  Shows(Leaderboard(Stored(rows)), id[1])
<1> DEFINE r == Record(id, rows[id])
           l == Line(Stored(rows), r.model, r.version)
<1>1. r \in Stored(rows) /\ r.model = id[1]
  BY DEF Stored, Record
<1>2. l \in Leaderboard(Stored(rows))
  BY <1>1 DEF Leaderboard
<1>3. l.model = r.model
  BY DEF Line
<1> QED
  BY <1>1, <1>2, <1>3 DEF Shows

\* A healthy file has a run, and that is to be published.
LEMMA HealthyHasRuns ==
  ASSUME TypeOK, NEW m \in Healthy
  PROVE  \E id \in RunsToPublish : id[1] = m
<1>1. Acceptable(files[m])
  BY GateAccepts DEF Healthy
<1>2. PICK c \in DOMAIN files[m] : TRUE
  BY <1>1 DEF Acceptable
<1>3. <<m, c[1], c[2]>> \in RunsToPublish
  BY <1>2 DEF RunsToPublish
<1> QED
  BY <1>3

\* What is deployed or committed comes from a publish that published, and shows
\* every model whose sweep was healthy; pages-deploy adds nothing of its own.
THEOREM DeploysArePublished == Spec => DeploysPublishedModels
<1>1. Init => ShownInv
  BY DEF Init, ShownInv
<1>2. TypeInv /\ ShownInv /\ [Next]_vars =>
        /\ ShownInv'
        /\ [/\ live' # live => live' \in pages \/ Publishes(live')
            /\ git' # git => Publishes(git')]_vars
  <2> SUFFICES ASSUME TypeInv, ShownInv, [Next]_vars
               PROVE  /\ ShownInv'
                      /\ live' # live => live' \in pages \/ Publishes(live')
                      /\ git' # git => Publishes(git')
    OBVIOUS
  <2> USE DEF ShownInv, source, sites, redeploy, operators
  <2>0. rows \in [RunIds -> Row \cup {NoRow}] /\ RunsToPublish \subseteq RunIds /\ NoRow \notin Row
    BY PublishedRuns, LeaderboardAssumption DEF TypeInv, TypeOK, Row, Sweeps
  <2>1. ASSUME NEW S \in SeedChoices, Dispatch(S)
        PROVE  ShownInv' /\ UNCHANGED sites
    BY <2>1 DEF Dispatch
  <2>2. ASSUME NEW m \in Models, NEW file, SweepModel(m, file)
        PROVE  ShownInv' /\ UNCHANGED sites
    BY <2>2 DEF SweepModel
  <2>3. CASE BeginPublish \/ PublishAgain \/ NothingToPublish \/ JobFails
    BY <2>3 DEF BeginPublish, PublishAgain, NothingToPublish, JobFails
  <2>4. CASE LoadAndGate
    BY <2>4, PublishedRunsStay DEF LoadAndGate
  <2>5. ASSUME NEW id \in todo, InsertRun(id)
        PROVE  ShownInv' /\ UNCHANGED sites
    <3>1. UNCHANGED <<files, sweep, pc, sites, RunsToPublish>> /\ pc = "insert" /\ todo' = todo \ {id}
      BY <2>5, PublishedRunsStay DEF InsertRun
    <3>2. [outcome |-> files[id[1]][<<id[2], id[3]>>], sweep |-> sweep] \in Row /\ id \in RunIds
      BY PublishedRuns DEF TypeInv, TypeOK, TodoInv, Row
    <3>3. rows'[id] # NoRow /\ \A i \in RunIds \ {id} : rows'[i] = rows[i]
      BY <2>0, <2>5, <3>2 DEF InsertRun, Upsert
    <3> QED
      BY <2>0, <3>1, <3>3
  <2>6. CASE ReadBoard
    <3>1. UNCHANGED <<sites, Healthy>> /\ board' = Leaderboard(Stored(rows)) /\ pc' = "read"
      BY <2>6, PublishedRunsStay DEF ReadBoard
    <3>2. \A id \in RunsToPublish : rows[id] # NoRow
      BY <2>6 DEF ReadBoard
    <3>3. \A m \in Healthy : Shows(board', m)
      BY <2>0, <3>1, <3>2, HealthyHasRuns, RowsAreShown DEF TypeInv
    <3> QED
      BY <3>1, <3>3
  <2>7. CASE ReadRunsAndWrite
    <3>1. UNCHANGED <<sites, Healthy>> /\ pc = "read" /\ pc' \in {"idle", "deploy"}
          /\ (pc' = "deploy" => Healthy # {})
      BY <2>7, PublishedRunsStay DEF ReadRunsAndWrite, AfterExport
    <3>2. pc' = "deploy" => snapshot'.lines = board
      BY <2>7 DEF ReadRunsAndWrite
    <3>3. pc' = "deploy" => Publishes(snapshot)'
      BY <3>1, <3>2 DEF Publishes, Shows
    <3> QED
      BY <3>1, <3>3
  <2>8. CASE Deploy
    <3>1. Publishes(snapshot)' /\ Publishes(live')
      BY <2>8, PublishedRunsStay DEF Deploy, Publishes
    <3> QED
      BY <2>8, <3>1 DEF Deploy
  <2>9. CASE Commit
    BY <2>9 DEF Commit, Publishes
  <2>10. CASE OperatorStores
    <3>0. PICK id \in RunIds, row \in Row : Store(id, row)
      BY <2>10, OperatorsStoreRuns DEF TypeInv
    <3>1. UNCHANGED <<files, pc, todo, sites, board, snapshot, RunsToPublish, Healthy>>
      BY <3>0, PublishedRunsStay DEF Store
    <3>2. rows'[id] # NoRow /\ \A i \in RunIds \ {id} : rows'[i] = rows[i]
      BY <2>0, <3>0 DEF Store, Upsert
    <3>3. Publishes(snapshot) => Publishes(snapshot)'
      BY <3>1 DEF Publishes
    <3> QED
      BY <2>0, <3>1, <3>2, <3>3
  <2>11. CASE PagesCheckout \/ PagesDeploy \/ PagesFails \/ UNCHANGED vars
    <3>1. /\ UNCHANGED <<files, rows, pc, todo, git, board, snapshot, RunsToPublish, Healthy>>
          /\ live' = live \/ live' \in pages
      BY <2>11, PublishedRunsStay DEF PagesCheckout, PagesDeploy, PagesFails, vars
    <3>2. Publishes(snapshot) => Publishes(snapshot)'
      BY <3>1 DEF Publishes
    <3> QED
      BY <3>1, <3>2
  <2> QED
    BY <2>1, <2>2, <2>3, <2>4, <2>5, <2>6, <2>7, <2>8, <2>9, <2>10, <2>11
       DEF Next, SweepRaises, OperatorStores
<1> QED
  BY <1>1, <1>2, TypeInvHolds, PTL DEF Spec, DeploysPublishedModels
-----------------------------------------------------------------------------
\* Rates are numbers, and a task without runs has none.
LEMMA RatesAreNumbers ==
  ASSUME NEW runs, IsFiniteSet(runs)
  PROVE  TaskRate(runs) \in Int /\ TaskRate({}) = 0
<1>1. CASE runs = {}
  BY <1>1 DEF TaskRate
<1>2. CASE runs # {}
  <2> DEFINE n == Cardinality(runs)
             k == Cardinality(Resolved(runs))
  <2>1. n \in Nat /\ n # 0
    BY <1>2, FS_CardinalityType, FS_EmptySet
  <2>2. Resolved(runs) \subseteq runs
    BY DEF Resolved
  <2>3. k \in Nat
    BY <2>2, FS_Subset, FS_CardinalityType
  <2>4. k * Unit \in Int /\ TaskRate(runs) = (k * Unit) \div n
    BY <1>2, <2>3, BoardAssumption DEF TaskRate
  <2> HIDE DEF n, k
  <2>5. (k * Unit) \div n \in Int
    BY <2>1, <2>4
  <2> QED
    BY <2>4, <2>5 DEF TaskRate
<1> QED
  BY <1>1, <1>2

\* One task more, which a model did not run, adds nothing to its rates.
LEMMA NewTaskAddsNothing ==
  ASSUME NEW own, IsFiniteSet(own), NEW tasks, IsFiniteSet(tasks), NEW t, t \notin tasks,
         OfTask(own, t) = {}
  PROVE  /\ SumFunction([x \in tasks |-> TaskRate(OfTask(own, x))]) \in Int
         /\ SumFunction([x \in tasks \cup {t} |-> TaskRate(OfTask(own, x))])
              = SumFunction([x \in tasks |-> TaskRate(OfTask(own, x))])
<1> DEFINE f == [x \in tasks |-> TaskRate(OfTask(own, x))]
           h == [x \in tasks \cup {t} |-> TaskRate(OfTask(own, x))]
<1>1. \A x : TaskRate(OfTask(own, x)) \in Int
  <2> TAKE x
  <2>1. OfTask(own, x) \subseteq own
    BY DEF OfTask
  <2>2. IsFiniteSet(OfTask(own, x))
    BY <2>1, FS_Subset
  <2> QED
    BY <2>2, RatesAreNumbers
<1>2. \A x \in tasks : f[x] \in Int /\ h[x] = f[x]
  BY <1>1
<1>3. h[t] = 0 /\ \A x \in tasks \cup {t} : h[x] \in Int
  BY <1>1, RatesAreNumbers, FS_EmptySet
<1>4. SumFunction(f) = SumFunctionOnSet(f, tasks)
      /\ SumFunction(h) = SumFunctionOnSet(h, tasks \cup {t})
  BY DEF SumFunction
<1> HIDE DEF f, h
<1>5. SumFunctionOnSet(h, tasks \cup {t}) = h[t] + SumFunctionOnSet(h, tasks)
  BY <1>3, SumInsert
<1>6. SumFunctionOnSet(f, tasks) = SumFunctionOnSet(h, tasks)
  BY <1>2, SumCongruence
<1>7. SumFunctionOnSet(f, tasks) \in Int
  BY <1>2, SumType
<1>8. SumFunction(f) \in Int /\ SumFunction(h) = SumFunction(f)
  BY <1>3, <1>4, <1>5, <1>6, <1>7
<1> QED
  BY <1>8 DEF f, h

\* Whatever finite set of runs a board is made from, a model that skipped a
\* task falls behind by it.
THEOREM SkippersArePenalised ==
  ASSUME NEW runs, IsFiniteSet(runs)
  PROVE  PenalisesSkipping(runs)
<1> SUFFICES ASSUME NEW new \in runs,
                    NEW before, before = {r \in runs : r.task # new.task},
                    NEW l \in Leaderboard(before),
                    OfTask(OfModel(runs, l.model, l.version), new.task) = {}
             PROVE  Falls(l, Line(runs, l.model, l.version))
  BY DEF PenalisesSkipping
<1>1. PICK r \in before : l = Line(before, r.model, r.version)
  BY DEF Leaderboard
<1>2. l.model = r.model /\ l.version = r.version
  BY <1>1 DEF Line
<1> DEFINE own == OfModel(runs, l.model, l.version)
           tasks == Universe(before)
           now == Line(runs, l.model, l.version)
<1>3. OfModel(before, l.model, l.version) = own
  BY DEF OfModel, OfTask
<1>4. Universe(runs) = tasks \cup {new.task} /\ new.task \notin tasks
  BY DEF Universe
<1>5. IsFiniteSet(own)
  <2>1. own \subseteq runs
    BY DEF OfModel
  <2> QED
    BY <2>1, FS_Subset
<1>6. IsFiniteSet(tasks) /\ Cardinality(tasks) \in Nat
  <2>1. IsFiniteSet(before)
    BY FS_Subset
  <2>2. tasks = {x.task : x \in before}
    BY DEF Universe
  <2>3. IsFiniteSet(tasks)
    <3> DEFINE f == [x \in before |-> x.task]
    <3>1. tasks = {f[x] : x \in before}
      BY <2>2
    <3> HIDE DEF f, tasks
    <3> QED
      BY <2>1, <3>1, FiniteImage
  <2> QED
    BY <2>3, FS_CardinalityType
<1> DEFINE rate == SumFunction([x \in tasks |-> TaskRate(OfTask(own, x))])
<1>7. l.n_tasks = Cardinality(tasks) /\ l.pass_at_1 = rate
  BY <1>1, <1>2, <1>3 DEF Line, Grid
<1>8. /\ now.n_tasks = Cardinality(tasks \cup {new.task})
      /\ now.pass_at_1 = SumFunction([x \in tasks \cup {new.task} |-> TaskRate(OfTask(own, x))])
  BY <1>4 DEF Line, Grid
<1>9. OfTask(own, new.task) = {}
  OBVIOUS
<1>10. Cardinality(tasks \cup {new.task}) = Cardinality(tasks) + 1
  BY <1>4, <1>6, FS_AddElement
<1> HIDE DEF own, tasks, now
<1>11. rate \in Int /\ now.pass_at_1 = rate
  BY <1>4, <1>5, <1>6, <1>8, <1>9, NewTaskAddsNothing
<1> HIDE DEF rate
<1>12. now.pass_at_1 * l.n_tasks < l.pass_at_1 * now.n_tasks \/ ~ (l.pass_at_1 > 0)
  <2> DEFINE n == Cardinality(tasks)
  <2>1. n \in Nat /\ rate \in Int /\ rate * (n + 1) = rate * n + rate /\ rate * n \in Int
    BY <1>6, <1>11
  <2> QED
    BY <2>1, <1>7, <1>8, <1>10, <1>11
<1> QED
  BY <1>12 DEF Falls, now

\* So does every table that is ever exported.
THEOREM TablesPenaliseSkipping == Spec => []SkippingIsPenalised
<1>1. TypeOK => SkippingIsPenalised
  <2> SUFFICES ASSUME TypeOK PROVE PenalisesSkipping(Stored(rows))
    BY DEF SkippingIsPenalised
  <2> DEFINE kept == {i \in RunIds : rows[i] # NoRow}
  <2>1. IsFiniteSet(RunIds)
    <3> DEFINE pairs == (Models \X Tasks) \X Seeds
               f == [p \in pairs |-> <<p[1][1], p[1][2], p[2]>>]
    <3>1. IsFiniteSet(pairs)
      BY LeaderboardAssumption, FS_Product
    <3>2. RunIds = {f[p] : p \in pairs}
      <4>1. ASSUME NEW id \in RunIds PROVE \E p \in pairs : f[p] = id
        <5>1. PICK m \in Models, t \in Tasks, s \in Seeds : id = <<m, t, s>>
          BY DEF RunIds
        <5>2. <<<<m, t>>, s>> \in pairs /\ f[<<<<m, t>>, s>>] = id
          BY <5>1
        <5> QED
          BY <5>2
      <4>2. \A p \in pairs : f[p] \in RunIds
        BY DEF RunIds
      <4> HIDE DEF f
      <4> QED
        BY <4>1, <4>2
    <3> HIDE DEF f, pairs
    <3> QED
      BY <3>1, <3>2, FiniteImage
  <2>2. IsFiniteSet(kept)
    BY <2>1, FS_Subset
  <2>3. IsFiniteSet(Stored(rows))
    <3>1. Stored(rows) = {Record(id, rows[id]) : id \in kept}
      BY DEF Stored
    <3> DEFINE f == [id \in kept |-> Record(id, rows[id])]
    <3>2. Stored(rows) = {f[id] : id \in kept}
      BY <3>1
    <3> HIDE DEF f, kept
    <3> QED
      BY <2>2, <3>2, FiniteImage
  <2> QED
    BY <2>3, SkippersArePenalised
<1> QED
  BY <1>1, TypeCorrect, PTL
=============================================================================
