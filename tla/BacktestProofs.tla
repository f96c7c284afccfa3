---------------------------- MODULE BacktestProofs ----------------------------
(***************************************************************************)
(* Theorems about BacktestResults, for any number of versions, processes,  *)
(* trades and failures; and about BacktestEngine, for any bars,               *)
(* specifications and costs, and any number of bars, candidates and        *)
(* resumptions: the books of the engine are those of its trades, the       *)
(* levels of an open position only tighten, and the engine and the batch   *)
(* evaluator agree on entries, exits and drawdowns.                        *)
(***************************************************************************)
EXTENDS MCBacktest, FiniteSetTheorems, WellFoundedInduction, TLAPS

Spawned(j) == jobs[j].os # "none"
Whole(v) == \A f \in Files : dir[v].arrow[f] # 0
Archived(v) == dir[v].parquet = dir[v].arrow["trade-log"]

\* The run that was ingested from v is completed, and its rows are the trades of v.
Ingested(v) ==
  LET j == dir[v].arrow["trade-log"]
  IN  /\ runs[dir[v].run] = "completed"
      /\ RowsOf(dir[v].run) = TradesOf(j)
      /\ \A t \in TradesOf(j) : trades[t].job = j

\* Directories are numbered without gaps, and the files of each are of one process.
DirInv ==
  /\ \E n \in 0 .. MaxVersions : Existing = 1 .. n
  /\ \A v \in Versions :
       /\ ~dir[v].made => /\ \A f \in Files : dir[v].arrow[f] = 0
                          /\ dir[v].marks = {} /\ dir[v].manifest = 0
       /\ \A f, g \in Files :
            dir[v].arrow[f] # 0 /\ dir[v].arrow[g] # 0 => dir[v].arrow[f] = dir[v].arrow[g]
       /\ "arrow_published" \in dir[v].marks => Whole(v)
       /\ dir[v].manifest # 0 => Whole(v) /\ Archived(v)

\* Each process has a directory to itself.
JobInv ==
  /\ \A j \in Jobs : Spawned(j) =>
       /\ jobs[j].out \in Existing
       /\ \A f \in Files : dir[jobs[j].out].arrow[f] # 0 /\ jobs[j].os \in {"running", "signalled"}
                             => dir[jobs[j].out].arrow[f] = j
  /\ \A j, k \in Jobs : Spawned(j) /\ Spawned(k) /\ jobs[j].out = jobs[k].out => j = k

Waiting == {"communicate", "terminate"}
Closing == {"manifest", "finish"}
PastPublish == {"validate", "ingest", "ingested", "archive", "check"} \cup Closing
Processing == {"publish"} \cup PastPublish

\* What an invocation that has got so far relies on: the version it makes is the latest,
\* and that of no process, unless it is the very one it is made of.
WorkInv ==
  /\ pc # "down" => runId \in Runs
  /\ pc \in {"dispatch"} \cup Waiting => out \in Versions /\ out = Latest
  /\ pc = "dispatch" => /\ \A f \in Files : dir[out].arrow[f] = 0
                        /\ \A j \in Jobs : Spawned(j) => jobs[j].out # out
  /\ pc \in Processing =>
       /\ out \in Existing /\ target \in Existing /\ target = Latest /\ done <= out
       /\ target # out => /\ \A j \in Jobs : Spawned(j) => jobs[j].out # target
                          /\ \A f \in Files : dir[target].arrow[f] \in {0, dir[out].arrow[f]}
  /\ pc \in PastPublish => Whole(target)
  /\ pc \in Closing => Archived(target) /\ Ingested(target)
  /\ pc = "finish" => dir[target].manifest # 0

\* Since the backtest that completed last, only versions made of its results were added,
\* and the latest of them is the one up for review.
ReviewInv ==
  /\ stage # "backtest-running" =>
       /\ done \in Existing /\ Whole(done)
       /\ \A j \in Jobs : Spawned(j) => jobs[j].out <= done
       /\ \A v \in Existing : v >= done =>
            \A f \in Files : dir[v].arrow[f] \in {0, dir[done].arrow[f]}
  /\ stage = "review-pending" =>
       /\ pc = "down" /\ done <= Latest
       /\ dir[Latest].manifest # 0 /\ Ingested(Latest)

\* The inductive invariant.
ResultsInv == TypeOK /\ DirInv /\ JobInv /\ WorkInv /\ ReviewInv

\* The kinds of what is stored, and of what is held by the state file and the invocation.
DirTyped ==
  dir \in [Versions -> [made : BOOLEAN, arrow : [Files -> 0 .. MaxJobs],
                        parquet : 0 .. MaxJobs, marks : SUBSET Marks,
                        run : {0} \cup Runs, manifest : {0} \cup Runs]]
JobsTyped ==
  jobs \in [Jobs -> [os : {"none", "running", "signalled", "killed", "succeeded",
                          "resource_pressure", "external_failure", "data_logic"},
                    out : 0 .. MaxVersions, trades : 0 .. MaxTrades]]
TablesTyped ==
  /\ runs \in [Runs -> {"none", "running", "completed"}]
  /\ trades \in [1 .. MaxTrades -> [run : {0} \cup Runs, job : 0 .. MaxJobs]]
ErrorTyped ==
  /\ error \in {"none", "resource_pressure", "external_failure", "data_logic"}
  /\ error = "data_logic" => pc = "down"
  /\ pc = "throttled" => error = "resource_pressure"
  /\ error \in Lasting => stage = "backtest-running"
CallTyped ==
  /\ stage \in {"backtest-running", "backtest-complete", "review-pending"}
  /\ done \in 0 .. MaxVersions
  /\ pc \in {"down", "backtest-running", "dispatch", "throttled", "backtest-complete"}
              \cup Waiting \cup Processing
  /\ runId \in {0} \cup Runs /\ out \in 0 .. MaxVersions /\ target \in 0 .. MaxVersions
  /\ job \in 0 .. MaxJobs /\ failures \in 0 .. MaxFailures
  /\ ErrorTyped
  /\ pc \in {"backtest-running", "dispatch"} \cup Waiting => stage = "backtest-running"
  /\ pc \in {"backtest-complete"} \cup Processing => stage = "backtest-complete" /\ done # 0
WaitTyped == pc \in Waiting => job \in Jobs /\ jobs[job].out = out

----------------------------------------------------------------------------
(* Lemmas about directories.                                               *)

LEMMA TypeParts == TypeOK <=> DirTyped /\ JobsTyped /\ TablesTyped /\ CallTyped /\ WaitTyped
BY DEF TypeOK, DirTyped, JobsTyped, TablesTyped, CallTyped, ErrorTyped, WaitTyped, Waiting,
       Closing, PastPublish, Processing

LEMMA BoundFacts ==
  /\ MaxVersions \in Nat /\ MaxJobs \in Nat /\ MaxTrades \in Nat /\ MaxFailures \in Nat
  /\ Versions = 1 .. MaxVersions /\ Jobs = 1 .. MaxJobs
  /\ Runs = 1 .. MaxJobs + MaxFailures + 1
BY BoundsAssumption DEF Versions, Jobs, Runs

LEMMA TypePartsNext ==
  DirTyped' /\ JobsTyped' /\ TablesTyped' /\ CallTyped' /\ WaitTyped' => TypeOK'
BY DEF TypeOK, DirTyped, JobsTyped, TablesTyped, CallTyped, ErrorTyped, WaitTyped, Waiting,
       Closing, PastPublish, Processing

LEMMA ZeroFacts == 0 \in 0 .. MaxVersions /\ 0 \in 0 .. MaxJobs /\ 0 \in 0 .. MaxFailures
BY BoundsAssumption

\* The error stays while the invocation goes on or ends with nothing saved ...
LEMMA ErrorStays ==
  ASSUME ErrorTyped, error' = error, stage' = stage, pc # "down" \/ pc' = "down",
         pc' # "throttled"
  PROVE  ErrorTyped'
BY DEF ErrorTyped

\* ... and may be replaced as it ends.
LEMMA ErrorFails == ASSUME Fail PROVE ErrorTyped'
BY DEF ErrorTyped, Fail, Lasting

LEMMA FailureCounts ==
  ASSUME failures \in 0 .. MaxFailures, Failure
  PROVE  failures' \in 0 .. MaxFailures
BY BoundFacts DEF Failure

LEMMA CountFacts == ASSUME NEW n \in Nat PROVE Cardinality(1 .. n) = n
<1>1. Cardinality(1 .. n) = IF 1 > n THEN 0 ELSE n - 1 + 1
  BY FS_Interval
<1>2. QED BY <1>1

\* The number of directories is that of the latest.
LEMMA LatestFacts ==
  ASSUME DirInv
  PROVE  Latest \in 0 .. MaxVersions /\ Existing = 1 .. Latest
<1>1. PICK n \in 0 .. MaxVersions : Existing = 1 .. n
  BY DEF DirInv
<1>3. Cardinality(1 .. n) = n
  BY <1>1, BoundFacts, CountFacts
<1>4. Latest = n
  BY <1>1, <1>3 DEF Latest
<1>5. QED BY <1>1, <1>4

\* While no directory is made, the latest stays the latest.
LEMMA LatestStays ==
  ASSUME \A v \in Versions : dir'[v].made = dir[v].made
  PROVE  Existing' = Existing /\ Latest' = Latest
<1>1. Existing' = Existing
  BY DEF Existing
<1>2. QED BY <1>1 DEF Latest

\* A step that leaves directories and processes alone.
LEMMA StoreStays ==
  ASSUME ResultsInv, UNCHANGED <<dir, jobs>>
  PROVE  DirInv' /\ JobInv' /\ Existing' = Existing /\ Latest' = Latest
<1>1. Existing' = Existing /\ Latest' = Latest
  BY LatestStays
<1>2. QED BY <1>1 DEF ResultsInv, DirInv, JobInv, Whole, Archived, Spawned

\* What was ingested from a whole version stays so while its rows do.
LEMMA IngestedStays ==
  ASSUME TypeOK, NEW v \in Versions, Whole(v), Ingested(v),
         dir'[v].arrow = dir[v].arrow, dir'[v].run = dir[v].run,
         runs' = runs, trades' = trades,
         \A j \in Jobs : jobs'[j].trades = jobs[j].trades
  PROVE  Ingested(v)'
<1> DEFINE j == dir[v].arrow["trade-log"]
<1>1. j \in Jobs /\ dir'[v].arrow["trade-log"] = j
  <2>1. DirTyped /\ "trade-log" \in Files
    BY TypeParts DEF Files
  <2>2. j \in 0 .. MaxJobs /\ j # 0
    BY <2>1 DEF DirTyped, Whole
  <2>3. QED BY <2>2, BoundFacts
<1>2. TradesOf(j)' = TradesOf(j)
  BY <1>1 DEF TradesOf
<1>3. RowsOf(dir[v].run)' = RowsOf(dir[v].run)
  BY DEF RowsOf
<1>4. QED BY <1>1, <1>2, <1>3 DEF Ingested

----------------------------------------------------------------------------
(* The invariant.                                                          *)

LEMMA ResultsInit == ASSUME Init PROVE ResultsInv
<1>1. TypeOK
  <2>1. DirTyped
    BY BoundFacts DEF Init, DirTyped, NoDir
  <2>2. JobsTyped
    BY BoundFacts DEF Init, JobsTyped
  <2>3. TablesTyped
    BY BoundFacts DEF Init, TablesTyped, NoRow
  <2>4. CallTyped /\ WaitTyped
    BY ZeroFacts DEF Init, CallTyped, ErrorTyped, Lasting, WaitTyped, Waiting, Closing, PastPublish, Processing
  <2>5. QED BY <2>1, <2>2, <2>3, <2>4, TypeParts
<1>2. Existing = 1 .. 0 /\ 0 \in 0 .. MaxVersions
  BY BoundFacts DEF Init, Existing, NoDir
<1>3. DirInv
  BY <1>2 DEF Init, DirInv, NoDir
<1>4. QED BY <1>1, <1>3
  DEF Init, ResultsInv, JobInv, WorkInv, ReviewInv, Spawned, Waiting, Closing, PastPublish,
      Processing

\* An invocation ends or is killed, and leaves what it has made.
LEMMA DownKeeps ==
  ASSUME ResultsInv, TypeOK', UNCHANGED <<dir, jobs, stage, done, runs, trades>>,
         pc' = "down"
  PROVE  ResultsInv'
<1>1. DirInv' /\ JobInv' /\ Latest' = Latest /\ Existing' = Existing
  BY StoreStays
<1>2. WorkInv'
  BY DEF WorkInv, Waiting, Closing, PastPublish, Processing
<1>3. ReviewInv'
  BY <1>1 DEF ResultsInv, ReviewInv, Whole, Spawned, Ingested, RowsOf, TradesOf
<1>4. QED BY <1>1, <1>2, <1>3 DEF ResultsInv

LEMMA InvokeKeeps == ASSUME ResultsInv, Invoke PROVE ResultsInv'
<1>1. /\ UNCHANGED <<dir, jobs, runs, trades, failures>>
      /\ pc = "down" /\ stage # "review-pending" /\ runId' = runId + 1 /\ runId' \in Runs
      /\ pc' = stage' /\ out' = 0 /\ target' = 0 /\ job' = 0
      /\ \/ stage' = "backtest-running" /\ done' = 0 /\ error' = "none"
         \/ stage' = stage /\ done' = done /\ error' = error /\ error # "data_logic"
  BY DEF Invoke, state, store
<1>2. DirTyped /\ JobsTyped /\ TablesTyped /\ CallTyped
  BY TypeParts DEF ResultsInv
<1>3. stage' \in {"backtest-running", "backtest-complete"}
  BY <1>1, <1>2 DEF CallTyped
<1>4. CallTyped'
  <2>1. stage' = "backtest-complete" => done' # 0
    BY <1>1 DEF ResultsInv, ReviewInv, Existing, Versions
  <2>2. done' \in 0 .. MaxVersions
    BY <1>1, <1>2, ZeroFacts DEF CallTyped
  <2>3. ErrorTyped'
    BY <1>1, <1>2, <1>3 DEF CallTyped, ErrorTyped, Lasting
  <2>4. QED BY <1>1, <1>2, <1>3, <2>1, <2>2, <2>3, ZeroFacts
    DEF CallTyped, Waiting, Closing, PastPublish, Processing
<1>5. TypeOK'
  <2>1. DirTyped' /\ JobsTyped' /\ TablesTyped'
    BY <1>1, <1>2 DEF DirTyped, JobsTyped, TablesTyped
  <2>2. WaitTyped'
    BY <1>1, <1>3 DEF WaitTyped, Waiting
  <2>3. QED BY <1>4, <2>1, <2>2, TypePartsNext
<1>6. DirInv' /\ JobInv' /\ Latest' = Latest /\ Existing' = Existing
  BY <1>1, StoreStays
<1>7. WorkInv'
  BY <1>1, <1>3 DEF WorkInv, Waiting, Closing, PastPublish, Processing
<1>8. ReviewInv'
  BY <1>1, <1>3, <1>6 DEF ResultsInv, ReviewInv, Whole, Spawned
<1>9. QED BY <1>5, <1>6, <1>7, <1>8 DEF ResultsInv

LEMMA RefineKeeps == ASSUME ResultsInv, Refine PROVE ResultsInv'
<1>1. TypeOK'
  BY DEF ResultsInv, TypeOK, Refine, call, store
<1>2. UNCHANGED <<dir, jobs, pc>> /\ pc = "down" /\ stage' = "backtest-running"
  BY DEF Refine, call, store
<1>3. QED BY <1>1, <1>2, StoreStays
  DEF ResultsInv, WorkInv, ReviewInv, Waiting, Closing, PastPublish, Processing

\* The directory a backtest writes to is made for it.
LEMMA BeginBacktestKeeps == ASSUME ResultsInv, BeginBacktest PROVE ResultsInv'
<1>1. /\ pc = "backtest-running" /\ Latest < MaxVersions /\ out' = Latest + 1
      /\ dir' = [dir EXCEPT ![out'].made = TRUE]
      /\ \/ pc' = "dispatch" /\ error' = error /\ failures' = failures
         \/ pc' = "down" /\ Fail /\ Failure
      /\ UNCHANGED <<stage, done, runId, target, job, jobs, runs, trades>>
  BY DEF BeginBacktest, Fail
<1>2. TypeOK /\ DirInv /\ JobInv /\ stage = "backtest-running"
  BY <1>1 DEF ResultsInv, TypeOK
<1>3. Latest \in 0 .. MaxVersions /\ Existing = 1 .. Latest /\ out' \in Versions
      /\ out' \notin Existing
  BY <1>1, <1>2, LatestFacts, BoundFacts
<1>0. DirTyped /\ JobsTyped /\ TablesTyped /\ CallTyped
  BY <1>2, TypeParts
<1>4. /\ \A v \in Versions : dir'[v].made = (dir[v].made \/ v = out')
      /\ \A v \in Versions : ~dir'[v].made => ~dir[v].made
      /\ \A v \in Versions : /\ dir'[v].arrow = dir[v].arrow /\ dir'[v].marks = dir[v].marks
                             /\ dir'[v].manifest = dir[v].manifest
                             /\ dir'[v].parquet = dir[v].parquet /\ dir'[v].run = dir[v].run
  BY <1>0, <1>1, <1>3 DEF DirTyped
<1>5. TypeOK'
  <2>1. DirTyped'
    BY ZenonT(30), <1>0, <1>1, <1>3 DEF DirTyped
  <2>2. CallTyped' /\ WaitTyped'
    <3>1. out' \in 0 .. MaxVersions
      BY <1>3, BoundFacts
    <3>2. ErrorTyped' /\ failures' \in 0 .. MaxFailures
      <4>1. CASE pc' = "dispatch" /\ error' = error /\ failures' = failures
        BY <1>0, <1>1, <4>1, ErrorStays DEF CallTyped
      <4>2. CASE pc' = "down" /\ Fail /\ Failure
        BY <1>0, <4>2, ErrorFails, FailureCounts DEF CallTyped
      <4>3. QED BY <1>1, <4>1, <4>2
    <3>3. pc' \in {"dispatch", "down"} /\ stage' = "backtest-running"
      BY <1>1, <1>2
    <3>4. QED BY <1>0, <1>1, <3>1, <3>2, <3>3
      DEF CallTyped, WaitTyped, Waiting, Closing, PastPublish, Processing
  <2>3. JobsTyped' /\ TablesTyped'
    BY <1>0, <1>1 DEF JobsTyped, TablesTyped
  <2>4. QED BY <2>1, <2>2, <2>3, TypePartsNext
<1>6. Existing' = 1 .. out'
  <2>1. Existing' = Existing \cup {out'}
    BY <1>3, <1>4 DEF Existing
  <2>2. QED BY <1>1, <1>3, <2>1, BoundFacts
<1>7. DirInv'
  <2>1. out' \in 0 .. MaxVersions
    BY <1>3, BoundFacts
  <2>2. \A v \in Versions :
         /\ ~dir'[v].made => /\ \A f \in Files : dir'[v].arrow[f] = 0
                             /\ dir'[v].marks = {} /\ dir'[v].manifest = 0
         /\ \A f, g \in Files :
              dir'[v].arrow[f] # 0 /\ dir'[v].arrow[g] # 0 => dir'[v].arrow[f] = dir'[v].arrow[g]
    BY <1>2, <1>4 DEF DirInv
  <2>3. \A v \in Versions :
         /\ "arrow_published" \in dir'[v].marks => Whole(v)'
         /\ dir'[v].manifest # 0 => Whole(v)' /\ Archived(v)'
    BY <1>2, <1>4 DEF DirInv, Whole, Archived
  <2>4. QED BY <1>6, <2>1, <2>2, <2>3 DEF DirInv
<1>8. Latest' = out'
  <2>1. out' \in Nat
    BY <1>3, BoundFacts
  <2>2. QED BY <1>6, <2>1, CountFacts DEF Latest
<1>9. JobInv'
  BY <1>1, <1>2, <1>3, <1>4, <1>6 DEF JobInv, Spawned, TypeOK
<1>10. \A f \in Files : dir'[out'].arrow[f] = 0
  BY <1>2, <1>3, <1>4 DEF DirInv, Existing
<1>11. WorkInv'
  BY <1>1, <1>2, <1>3, <1>8, <1>10
  DEF ResultsInv, WorkInv, JobInv, Spawned, Waiting, Closing, PastPublish, Processing
<1>12. ReviewInv'
  BY <1>1, <1>2 DEF ReviewInv
<1>13. QED BY <1>5, <1>7, <1>9, <1>11, <1>12 DEF ResultsInv

\* A process is given the new directory.
LEMMA DispatchKeeps == ASSUME ResultsInv, Dispatch PROVE ResultsInv'
<1>1. CASE Fail /\ Failure /\ UNCHANGED <<job, jobs>>
  <2>1. TypeOK'
    <3>1. DirTyped /\ JobsTyped /\ TablesTyped /\ CallTyped
      BY TypeParts DEF ResultsInv
    <3>2. ErrorTyped' /\ failures' \in 0 .. MaxFailures /\ pc' = "down"
      BY <1>1, <3>1, ErrorFails, FailureCounts DEF CallTyped, Fail
    <3>3. UNCHANGED <<stage, done, runId, out, target, job, jobs, dir, runs, trades>>
      BY <1>1 DEF Dispatch, store
    <3>4. DirTyped' /\ JobsTyped' /\ TablesTyped'
      BY <3>1, <3>3 DEF DirTyped, JobsTyped, TablesTyped
    <3>5. CallTyped' /\ WaitTyped'
      BY <3>1, <3>2, <3>3 DEF CallTyped, WaitTyped, Waiting, Closing, PastPublish, Processing
    <3>6. QED BY <3>4, <3>5, TypePartsNext
  <2>2. QED BY <1>1, <2>1, DownKeeps DEF Dispatch, Fail, store
<1>2. ASSUME NEW j \in Jobs, NEW n \in 0 .. MaxTrades,
             \A k \in Jobs : (jobs[k].os = "none") = (k >= j),
             jobs' = [jobs EXCEPT ![j] = [os |-> "running", out |-> out, trades |-> n]],
             job' = j, pc' = "communicate", UNCHANGED <<error, failures>>
      PROVE  ResultsInv'
  <2>1. pc = "dispatch" /\ UNCHANGED <<stage, done, runId, out, target, dir, runs, trades>>
    BY DEF Dispatch, store
  <2>2. TypeOK /\ JobInv /\ WorkInv /\ DirInv /\ stage = "backtest-running"
    BY <2>1 DEF ResultsInv, TypeOK
  <2>3. /\ out \in Versions /\ out = Latest /\ \A f \in Files : dir[out].arrow[f] = 0
        /\ \A k \in Jobs : Spawned(k) => jobs[k].out # out
    BY <2>1, <2>2 DEF WorkInv
  <2>4. ~Spawned(j)
    BY <1>2, BoundFacts DEF Spawned
  <2>5. /\ jobs'[j].out = out /\ jobs'[j].os = "running"
        /\ \A k \in Jobs \ {j} : jobs'[k] = jobs[k]
    BY <1>2, <2>2 DEF TypeOK
  <2>6. Existing' = Existing /\ Latest' = Latest
    BY <2>1, LatestStays
  <2>7. out \in Existing
    BY <2>2, <2>3, LatestFacts, BoundFacts
  <2>8. TypeOK'
    <3>1. DirTyped /\ JobsTyped /\ TablesTyped /\ CallTyped
      BY <2>2, TypeParts
    <3>2. JobsTyped'
      BY <1>2, <2>3, <3>1, BoundFacts DEF JobsTyped
    <3>0. ErrorTyped'
      BY <1>2, <2>1, <3>1, ErrorStays DEF CallTyped
    <3>3. CallTyped' /\ WaitTyped'
      BY <1>2, <2>1, <2>2, <2>5, <3>0, <3>1, BoundFacts
      DEF CallTyped, WaitTyped, Waiting, Closing, PastPublish, Processing
    <3>4. DirTyped' /\ TablesTyped'
      BY <2>1, <3>1 DEF DirTyped, TablesTyped
    <3>5. QED BY <3>2, <3>3, <3>4, TypePartsNext
  <2>9. DirInv'
    BY <2>1, <2>2, <2>6 DEF DirInv, Whole, Archived
  <2>10. JobInv'
    BY <2>1, <2>2, <2>3, <2>5, <2>6, <2>7 DEF JobInv, Spawned
  <2>11. WorkInv' /\ ReviewInv'
    BY <1>2, <2>1, <2>2, <2>3, <2>6
    DEF WorkInv, ReviewInv, Waiting, Closing, PastPublish, Processing
  <2>12. QED BY <2>8, <2>9, <2>10, <2>11 DEF ResultsInv
<1>3. QED BY <1>1, <1>2 DEF Dispatch

\* A process gets on or ends: its directory and its trades stay.
LEMMA ProcessKeeps ==
  ASSUME ResultsInv, NEW j \in Jobs, Exit(j) \/ Timeout(j)
  PROVE  ResultsInv'
<1>1. PICK os \in {"signalled", "killed", "succeeded", "resource_pressure", "external_failure",
                   "data_logic"} :
        /\ jobs' = [jobs EXCEPT ![j].os = os]
        /\ jobs[j].os \in {"running", "signalled", "killed"}
        /\ os = "signalled" => jobs[j].os = "running"
  BY DEF Exit, Timeout
<1>0. failures' = failures \/ Failure
  BY DEF Exit, Timeout
<1>2. /\ UNCHANGED <<stage, done, error, runId, out, target, job, dir, runs, trades>>
      /\ \/ pc' = pc
         \/ pc \in Waiting /\ pc' = "terminate"
  BY DEF Exit, Timeout, state, call, store, Waiting
<1>3. TypeOK /\ JobInv /\ WorkInv /\ DirInv /\ ReviewInv
  BY DEF ResultsInv
<1>4. /\ \A k \in Jobs : jobs'[k].out = jobs[k].out /\ jobs'[k].trades = jobs[k].trades
      /\ \A k \in Jobs : Spawned(k)' = Spawned(k)
      /\ \A k \in Jobs : jobs'[k].os \in {"running", "signalled"}
                          => jobs[k].os \in {"running", "signalled"}
  BY <1>1, <1>3 DEF TypeOK, Spawned
<1>5. TypeOK'
  <2>1. DirTyped /\ JobsTyped /\ TablesTyped /\ CallTyped /\ WaitTyped
    BY <1>3, TypeParts
  <2>2. JobsTyped'
    BY <1>1, <2>1 DEF JobsTyped
  <2>0. ErrorTyped' /\ failures' \in 0 .. MaxFailures
    <3>1. ErrorTyped /\ failures \in 0 .. MaxFailures
      BY <2>1 DEF CallTyped
    <3>2. ErrorTyped'
      BY <1>2, <3>1 DEF ErrorTyped, Waiting
    <3>3. QED BY <1>0, <3>1, <3>2, FailureCounts
  <2>3. CallTyped' /\ WaitTyped'
    BY <1>2, <1>4, <2>0, <2>1
    DEF CallTyped, WaitTyped, Waiting, Closing, PastPublish, Processing
  <2>4. DirTyped' /\ TablesTyped'
    BY <1>2, <2>1 DEF DirTyped, TablesTyped
  <2>5. QED BY <2>2, <2>3, <2>4, TypePartsNext
<1>6. Existing' = Existing /\ Latest' = Latest
  BY <1>2, LatestStays
<1>7. DirInv' /\ JobInv'
  BY <1>2, <1>3, <1>4, <1>6 DEF DirInv, JobInv, Whole, Archived
<1>8. \A v \in Versions : Whole(v) /\ Ingested(v) => Ingested(v)'
  BY <1>2, <1>3, <1>4, IngestedStays
<1>9. Existing \subseteq Versions
  BY DEF Existing
<1>10. \A v \in Versions : (Whole(v) <=> Whole(v)') /\ (Archived(v) <=> Archived(v)')
  BY <1>2 DEF Whole, Archived
<1>11. WorkInv'
  <2>1. CASE pc \in Waiting
    BY <1>2, <1>3, <1>6, <2>1 DEF WorkInv, Waiting, Closing, PastPublish, Processing
  <2>2. CASE pc \notin Waiting
    <3>1. pc' = pc
      BY <1>2, <2>2
    <3>2. pc \in Processing => target \in Versions
      BY <1>3, <1>9 DEF WorkInv
    <3>3. pc \in Closing => Ingested(target)'
      <4>1. pc \in Closing => Whole(target) /\ Ingested(target) /\ target \in Versions
        BY <1>3, <3>2 DEF WorkInv, Closing, PastPublish, Processing
      <4>2. target' = target
        BY <1>2
      <4>3. \A v \in Versions : v = target /\ Ingested(v)' => Ingested(target)'
        BY <4>2 DEF Ingested, RowsOf, TradesOf
      <4>4. QED BY <1>8, <4>1, <4>3
    <3>4. pc \in PastPublish => Whole(target)'
      BY <1>2, <1>3 DEF WorkInv, Whole
    <3>5. pc \in Closing => Archived(target)'
      BY <1>2, <1>3 DEF WorkInv, Archived
    <3>6. QED BY <1>2, <1>3, <1>4, <1>6, <2>2, <3>1, <3>3, <3>4, <3>5 DEF WorkInv
  <2>3. QED BY <2>1, <2>2
<1>12. ReviewInv'
  <2>1. stage = "review-pending" => Latest \in Existing
    BY <1>3, LatestFacts, BoundFacts DEF ReviewInv
  <2>2. stage = "review-pending" => Ingested(Latest)'
    <3>1. stage = "review-pending" => Latest \in Versions /\ dir[Latest].manifest # 0
                                      /\ Ingested(Latest)
      BY <1>3, <1>9, <2>1 DEF ReviewInv
    <3>2. stage = "review-pending" => Whole(Latest)
      BY <1>3, <3>1 DEF DirInv
    <3>3. \A v \in Versions : v = Latest /\ Ingested(v)' => Ingested(Latest)'
      BY <1>6 DEF Ingested, RowsOf, TradesOf
    <3>4. QED BY <1>8, <3>1, <3>2, <3>3
  <2>4. QED BY <1>2, <1>3, <1>4, <1>6, <1>9, <1>10, <2>2 DEF ReviewInv, Waiting
<1>13. QED BY <1>5, <1>7, <1>11, <1>12 DEF ResultsInv

\* A file appears where the process alone writes, and not in a version that is whole.
LEMMA WriteKeeps ==
  ASSUME ResultsInv, NEW j \in Jobs, WriteResult(j)
  PROVE  ResultsInv'
<1> DEFINE v == jobs[j].out
<1>1. PICK f \in Files : dir' = [dir EXCEPT ![v].arrow[f] = j]
  <2>1. NextFile(j) \in Files
    BY DEF NextFile, Files
  <2>2. dir' = [dir EXCEPT ![v].arrow[NextFile(j)] = j]
    BY DEF WriteResult
  <2>3. QED BY <2>1, <2>2, Zenon
<1>2. /\ jobs[j].os \in {"running", "signalled"} /\ Missing(j) # {}
      /\ UNCHANGED <<stage, done, error, pc, runId, out, target, job, jobs, runs, trades, failures>>
  BY DEF WriteResult, state, call
<1>3. TypeOK /\ DirInv /\ JobInv /\ WorkInv /\ ReviewInv
  BY DEF ResultsInv
<1>4. DirTyped /\ JobsTyped /\ TablesTyped /\ CallTyped /\ WaitTyped
  BY <1>3, TypeParts
<1>5. Spawned(j) /\ v \in Existing /\ v \in Versions /\ j # 0
  BY <1>2, <1>3, BoundFacts DEF Spawned, JobInv, Existing
<1>6. \A g \in Files : dir[v].arrow[g] \in {0, j}
  BY <1>2, <1>3, <1>5 DEF JobInv
<1>7. ~Whole(v)
  BY <1>2, <1>6 DEF Whole, Missing
<1> HIDE DEF v
<1>8. /\ \A w \in Versions \ {v} : dir'[w] = dir[w]
      /\ \A w \in Versions : /\ dir'[w].made = dir[w].made /\ dir'[w].marks = dir[w].marks
                             /\ dir'[w].manifest = dir[w].manifest
      /\ \A g \in Files : dir'[v].arrow[g] = IF g = f THEN j ELSE dir[v].arrow[g]
  BY <1>1, <1>4, <1>5 DEF DirTyped
<1>9. TypeOK'
  <2>1. DirTyped'
    <3>1. dir[v].arrow \in [Files -> 0 .. MaxJobs] /\ j \in 0 .. MaxJobs
      BY <1>4, <1>5, BoundFacts DEF DirTyped
    <3>2. [dir[v].arrow EXCEPT ![f] = j] \in [Files -> 0 .. MaxJobs]
      BY <3>1
    <3>3. QED BY SMTT(30), <1>1, <1>4, <1>5, <3>2 DEF DirTyped
  <2>2. JobsTyped' /\ TablesTyped' /\ CallTyped' /\ WaitTyped'
    BY <1>2, <1>4 DEF JobsTyped, TablesTyped, CallTyped, ErrorTyped, WaitTyped
  <2>3. QED BY <2>1, <2>2, TypePartsNext
<1>10. Existing' = Existing /\ Latest' = Latest
  BY <1>8, LatestStays
<1>11. \A w \in Versions : Whole(w) => w # v /\ Whole(w)'
  BY <1>7, <1>8 DEF Whole
<1>12. DirInv'
  <2>1. \A g, h \in Files : dir'[v].arrow[g] # 0 /\ dir'[v].arrow[h] # 0
                              => dir'[v].arrow[g] = dir'[v].arrow[h]
    BY <1>6, <1>8
  <2>2. dir[v].made /\ "arrow_published" \notin dir[v].marks /\ dir[v].manifest = 0
    BY <1>3, <1>5, <1>7 DEF DirInv, Existing
  <2>3. \E n \in 0 .. MaxVersions : Existing' = 1 .. n
    BY <1>3, <1>10 DEF DirInv
  <2>4. ASSUME NEW w \in Versions
        PROVE  /\ ~dir'[w].made => /\ \A g \in Files : dir'[w].arrow[g] = 0
                                   /\ dir'[w].marks = {} /\ dir'[w].manifest = 0
               /\ \A g, h \in Files : dir'[w].arrow[g] # 0 /\ dir'[w].arrow[h] # 0
                                        => dir'[w].arrow[g] = dir'[w].arrow[h]
               /\ "arrow_published" \in dir'[w].marks => Whole(w)'
               /\ dir'[w].manifest # 0 => Whole(w)' /\ Archived(w)'
    <3>1. CASE w = v
      BY <1>8, <2>1, <2>2, <3>1
    <3>2. CASE w # v
      <4>1. dir'[w] = dir[w]
        BY <1>8, <3>2
      <4>2. (Whole(w) => Whole(w)') /\ (Archived(w) => Archived(w)')
        BY <4>1 DEF Whole, Archived
      <4>3. QED BY <1>3, <4>1, <4>2 DEF DirInv
    <3>3. QED BY <3>1, <3>2
  <2>5. QED BY <2>3, <2>4 DEF DirInv
<1>13. JobInv'
  <2>1. ASSUME NEW k \in Jobs, Spawned(k)', NEW g \in Files,
               dir'[jobs[k].out].arrow[g] # 0, jobs[k].os \in {"running", "signalled"}
        PROVE  dir'[jobs[k].out].arrow[g] = k
    <3>1. Spawned(k) /\ jobs[k].out \in Versions
      BY <1>2, <1>3, <2>1 DEF Spawned, JobInv, Existing
    <3>2. CASE k = j
      BY <1>6, <1>8, <2>1, <3>2 DEF v
    <3>3. CASE k # j
      <4>1. jobs[k].out # v
        BY <1>3, <1>5, <3>1, <3>3 DEF JobInv, v
      <4>2. QED BY <1>3, <1>8, <2>1, <3>1, <4>1 DEF JobInv
    <3>4. QED BY <3>2, <3>3
  <2>2. QED BY <1>2, <1>3, <1>10, <2>1 DEF JobInv, Spawned
<1>14. \A w \in Versions : Whole(w) /\ Ingested(w) /\ Archived(w)
                             => dir'[w] = dir[w] /\ Ingested(w)' /\ Archived(w)'
  <2>1. TAKE w \in Versions
  <2>2. HAVE Whole(w) /\ Ingested(w) /\ Archived(w)
  <2>3. dir'[w] = dir[w]
    BY <1>8, <1>11, <2>2
  <2>4. Ingested(w)'
    BY <1>2, <1>3, <2>2, <2>3, IngestedStays
  <2>5. QED BY <2>2, <2>3, <2>4 DEF Archived
<1>15. Existing \subseteq Versions
  BY DEF Existing
<1>16. WorkInv'
  <2>1. pc = "dispatch" => /\ \A g \in Files : dir'[out].arrow[g] = 0
                           /\ \A k \in Jobs : Spawned(k) => jobs[k].out # out
    BY <1>3, <1>5, <1>8 DEF WorkInv, v
  <2>2. pc \in Processing /\ target # out =>
          \A g \in Files : dir'[target].arrow[g] \in {0, dir'[out].arrow[g]}
    <3>1. SUFFICES ASSUME pc \in Processing, target # out, NEW g \in Files
                   PROVE  dir'[target].arrow[g] \in {0, dir'[out].arrow[g]}
      OBVIOUS
    <3>2. /\ target \in Versions /\ out \in Versions /\ target # v
          /\ dir[target].arrow[g] \in {0, dir[out].arrow[g]}
      BY <1>3, <1>5, <1>15, <3>1 DEF WorkInv, v
    <3>3. dir'[target].arrow[g] = dir[target].arrow[g]
      BY <1>8, <3>2
    <3>4. CASE out = v
      BY <1>6, <1>8, <3>2, <3>3, <3>4
    <3>5. CASE out # v
      BY <1>8, <3>2, <3>3, <3>5
    <3>6. QED BY <3>4, <3>5
  <2>3. pc \in PastPublish => target \in Versions /\ Whole(target) /\ Whole(target)'
    <3>1. pc \in PastPublish => target \in Versions /\ Whole(target)
      BY <1>3, <1>15 DEF WorkInv, Processing
    <3>2. \A w \in Versions : w = target /\ Whole(w)' => Whole(target)'
      BY <1>2 DEF Whole
    <3>3. QED BY <1>11, <3>1, <3>2
  <2>4. pc \in Closing => dir'[target] = dir[target] /\ Archived(target)' /\ Ingested(target)'
    <3>1. pc \in Closing => Whole(target) /\ Archived(target) /\ Ingested(target) /\ target \in Versions
      BY <1>3, <2>3 DEF WorkInv, PastPublish
    <3>2. \A w \in Versions : w = target /\ Ingested(w)' => Ingested(target)'
      BY <1>2 DEF Ingested, RowsOf, TradesOf
    <3>3. pc \in Closing => dir'[target] = dir[target] /\ Archived(target)
                            /\ target' = target /\ Ingested(target)'
      BY <1>2, <1>14, <3>1, <3>2
    <3>4. QED BY <3>3 DEF Archived
  <2>5. QED BY <1>2, <1>3, <1>10, <2>1, <2>2, <2>3, <2>4
    DEF WorkInv, Spawned, Closing
<1>17. ReviewInv'
  <2>1. stage # "backtest-running" => v < done
    <3>1. SUFFICES ASSUME stage # "backtest-running" PROVE v < done
      OBVIOUS
    <3>2. v <= done /\ Whole(done) /\ done \in Versions
      BY <1>3, <1>5, <1>15, <3>1 DEF ReviewInv, v
    <3>3. v # done
      BY <1>7, <3>2
    <3>4. QED BY <1>5, <3>2, <3>3, BoundFacts
  <2>2. stage # "backtest-running" =>
          /\ done \in Existing /\ done \in Versions /\ dir'[done] = dir[done]
          /\ Whole(done)'
          /\ \A w \in Existing : w >= done => dir'[w] = dir[w]
    <3>1. SUFFICES ASSUME stage # "backtest-running"
                   PROVE  /\ done \in Existing /\ done \in Versions /\ dir'[done] = dir[done]
                          /\ Whole(done)'
                          /\ \A w \in Existing : w >= done => dir'[w] = dir[w]
      OBVIOUS
    <3>2. done \in Existing /\ done \in Versions /\ Whole(done) /\ v < done
      BY <1>3, <1>15, <2>1, <3>1 DEF ReviewInv
    <3>3. \A w \in Existing : w >= done => w # v /\ w \in Versions
      BY <1>5, <1>15, <3>2, BoundFacts
    <3>4. dir'[done] = dir[done] /\ done' = done
      BY <1>2, <1>5, <1>8, <3>2, BoundFacts
    <3>5. QED BY <1>8, <3>2, <3>3, <3>4 DEF Whole
  <2>3. stage = "review-pending" => dir'[Latest].manifest # 0 /\ Ingested(Latest)'
    <3>1. SUFFICES ASSUME stage = "review-pending"
                   PROVE  dir'[Latest].manifest # 0 /\ Ingested(Latest)'
      OBVIOUS
    <3>2. Latest \in Versions
      BY <1>3, <1>15, <3>1, LatestFacts, BoundFacts DEF ReviewInv
    <3>3. dir[Latest].manifest # 0 /\ Ingested(Latest)
      BY <1>3, <3>1 DEF ReviewInv
    <3>4. Whole(Latest) /\ Archived(Latest)
      BY <1>3, <3>2, <3>3 DEF DirInv
    <3>5. \A w \in Versions : w = Latest /\ Ingested(w)' => Ingested(Latest)'
      BY <1>10 DEF Ingested, RowsOf, TradesOf
    <3>6. QED BY <1>14, <3>2, <3>3, <3>4, <3>5
  <2>4. QED BY <1>2, <1>3, <1>10, <2>2, <2>3 DEF ReviewInv, Spawned
<1>18. QED BY <1>9, <1>12, <1>13, <1>16, <1>17 DEF ResultsInv

\* What completes is the output of the latest directory.
LEMMA VerifyKeeps == ASSUME ResultsInv, Verify PROVE ResultsInv'
<1>1. /\ pc \in Waiting
      /\ UNCHANGED <<runId, out, target, job, jobs, dir, runs, trades, failures>>
      /\ \/ /\ Published(out) = Files
            /\ stage' = "backtest-complete" /\ done' = out
            /\ pc' = "backtest-complete" /\ error = "none" /\ error' = error
         \/ Fail /\ UNCHANGED <<stage, done>>
         \/ pc' = "down" /\ UNCHANGED <<stage, done, error>>
  BY DEF Verify, state, store, Waiting
<1>2. TypeOK /\ DirInv /\ JobInv /\ WorkInv
  BY DEF ResultsInv
<1>3. DirTyped /\ JobsTyped /\ TablesTyped /\ CallTyped
  BY <1>2, TypeParts
<1>4. out \in Versions /\ out = Latest /\ runId \in Runs
  BY <1>1, <1>2 DEF WorkInv, Waiting
<1>5. CASE \/ Fail /\ UNCHANGED <<stage, done>>
           \/ pc' = "down" /\ UNCHANGED <<stage, done, error>>
  <2>0. pc' = "down" /\ UNCHANGED <<stage, done>> /\ ErrorTyped'
    BY <1>3, <1>5, ErrorFails, ErrorStays DEF CallTyped, Fail
  <2>1. CallTyped' /\ WaitTyped'
    BY <1>1, <1>3, <2>0
    DEF CallTyped, WaitTyped, Waiting, Closing, PastPublish, Processing
  <2>2. TypeOK'
    BY <1>1, <1>3, <2>1, TypePartsNext DEF DirTyped, JobsTyped, TablesTyped
  <2>3. QED BY <1>1, <2>0, <2>2, DownKeeps
<1>6. CASE /\ Published(out) = Files
           /\ stage' = "backtest-complete" /\ done' = out
           /\ pc' = "backtest-complete" /\ error = "none" /\ error' = error
  <2>1. DirInv' /\ JobInv' /\ Latest' = Latest /\ Existing' = Existing
    BY <1>1, StoreStays
  <2>2. Existing = 1 .. Latest /\ out \in Existing
    BY <1>2, <1>4, LatestFacts, BoundFacts
  <2>3. CallTyped' /\ WaitTyped'
    <3>1. out # 0 /\ out \in 0 .. MaxVersions
      BY <1>4, BoundFacts
    <3>3. ErrorTyped'
      BY <1>6 DEF ErrorTyped, Lasting
    <3>4. QED BY <1>1, <1>3, <1>6, <3>1, <3>3
      DEF CallTyped, WaitTyped, Waiting, Closing, PastPublish, Processing
  <2>4. TypeOK'
    BY <1>1, <1>3, <2>3, TypePartsNext DEF DirTyped, JobsTyped, TablesTyped
  <2>5. WorkInv'
    BY <1>1, <1>4, <1>6 DEF WorkInv, Waiting, Closing, PastPublish, Processing
  <2>6. Whole(out)
    BY <1>6 DEF Published, Whole
  <2>7. \A j \in Jobs : Spawned(j) => jobs[j].out <= out
    BY <1>2, <1>4, <2>2, BoundFacts DEF JobInv
  <2>8. \A w \in Existing : w >= out => w = out
    BY <1>4, <2>2, BoundFacts
  <2>9. ReviewInv'
    BY <1>1, <1>6, <2>1, <2>2, <2>6, <2>7, <2>8 DEF ReviewInv, Whole, Spawned
  <2>10. QED BY <2>1, <2>4, <2>5, <2>9 DEF ResultsInv
<1>7. QED BY <1>1, <1>5, <1>6

\* A step of the processing that makes no directory and publishes no file.
LEMMA WorkKeeps ==
  ASSUME ResultsInv, pc \in Processing, pc' \in Processing, DirTyped', TablesTyped',
         UNCHANGED <<stage, done, error, runId, out, target, job, jobs, failures>>,
         \A v \in Versions : dir'[v].made = dir[v].made /\ dir'[v].arrow = dir[v].arrow,
         \A v \in Versions \ {target} : dir'[v] = dir[v],
         pc' \in PastPublish \/ "arrow_published" \in dir'[target].marks => Whole(target),
         dir'[target].manifest # 0 => Whole(target) /\ Archived(target)',
         pc' \in Closing => Archived(target)' /\ Ingested(target)',
         pc' = "finish" => dir'[target].manifest # 0
  PROVE  ResultsInv'
<1>1. TypeOK /\ DirInv /\ JobInv /\ WorkInv /\ ReviewInv
  BY DEF ResultsInv
<1>2. JobsTyped /\ CallTyped
  BY <1>1, TypeParts
<1>3. /\ stage = "backtest-complete" /\ runId \in Runs
      /\ out \in Existing /\ target \in Existing /\ target \in Versions /\ out \in Versions
      /\ target = Latest /\ done <= out
  BY <1>1, <1>2 DEF CallTyped, WorkInv, Existing, Processing, PastPublish, Closing
<1>4. Existing' = Existing /\ Latest' = Latest
  BY LatestStays
<1>5. TypeOK'
  <2>1. pc # "down" /\ pc \notin Waiting /\ pc' \notin Waiting \cup {"dispatch", "backtest-running"}
    BY DEF Processing, PastPublish, Closing, Waiting
  <2>0. ErrorTyped'
    BY <1>2, <2>1, ErrorStays DEF CallTyped, Processing, PastPublish, Closing
  <2>2. CallTyped'
    BY <1>2, <1>3, <2>0, <2>1 DEF CallTyped
  <2>3. JobsTyped' /\ WaitTyped'
    BY <1>2, <2>1 DEF JobsTyped, WaitTyped
  <2>4. QED BY <2>2, <2>3, TypePartsNext
<1>6. \A v \in Versions : Whole(v) <=> Whole(v)'
  BY DEF Whole
<1>7. DirInv'
  <2>1. ASSUME NEW v \in Versions
        PROVE  /\ ~dir'[v].made => /\ \A g \in Files : dir'[v].arrow[g] = 0
                                   /\ dir'[v].marks = {} /\ dir'[v].manifest = 0
               /\ \A g, h \in Files : dir'[v].arrow[g] # 0 /\ dir'[v].arrow[h] # 0
                                        => dir'[v].arrow[g] = dir'[v].arrow[h]
               /\ "arrow_published" \in dir'[v].marks => Whole(v)'
               /\ dir'[v].manifest # 0 => Whole(v)' /\ Archived(v)'
    <3>1. CASE v = target
      <4>1. dir[target].made /\ dir'[v].made
        BY <1>3, <3>1 DEF Existing
      <4>2. \A g, h \in Files : dir'[v].arrow[g] # 0 /\ dir'[v].arrow[h] # 0
                                  => dir'[v].arrow[g] = dir'[v].arrow[h]
        BY <1>1 DEF DirInv
      <4>3. dir'[v].manifest # 0 => Archived(v)'
        BY <3>1 DEF Archived
      <4>4. QED BY <1>6, <3>1, <4>1, <4>2, <4>3
    <3>2. CASE v # target
      <4>1. dir'[v] = dir[v]
        BY <3>2
      <4>2. Archived(v) => Archived(v)'
        BY <4>1 DEF Archived
      <4>3. QED BY <1>1, <1>6, <4>1, <4>2 DEF DirInv
    <3>3. QED BY <3>1, <3>2
  <2>2. \E n \in 0 .. MaxVersions : Existing' = 1 .. n
    BY <1>1, <1>4 DEF DirInv
  <2>3. QED BY <2>1, <2>2 DEF DirInv
<1>8. JobInv'
  BY <1>1, <1>4 DEF JobInv, Spawned, Existing
<1>9. WorkInv'
  <2>1. pc' \in PastPublish => Whole(target)'
    BY <1>3 DEF Whole
  <2>2. target # out => \A f \in Files : dir'[target].arrow[f] \in {0, dir'[out].arrow[f]}
    BY <1>1, <1>3 DEF WorkInv
  <2>3. pc' \notin Waiting \cup {"dispatch"}
    BY DEF Processing, PastPublish, Closing, Waiting
  <2>4. target # out => \A j \in Jobs : Spawned(j)' => jobs[j].out # target
    BY <1>1 DEF WorkInv, Spawned
  <2>5. QED BY <1>3, <1>4, <2>1, <2>2, <2>3, <2>4 DEF WorkInv
<1>10. ReviewInv'
  <2>1. Existing \subseteq Versions /\ done \in Existing /\ done \in Versions
    BY <1>1, <1>3 DEF Existing, ReviewInv
  <2>2. Whole(done)'
    BY <1>1, <1>3, <2>1 DEF ReviewInv, Whole
  <2>3. \A v \in Existing : v >= done =>
          \A f \in Files : dir'[v].arrow[f] \in {0, dir'[done].arrow[f]}
    BY <1>1, <1>3, <2>1 DEF ReviewInv
  <2>4. \A j \in Jobs : Spawned(j)' => jobs[j].out <= done
    BY <1>1, <1>3 DEF ReviewInv, Spawned
  <2>5. QED BY <1>3, <1>4, <2>1, <2>2, <2>3, <2>4 DEF ReviewInv
<1>11. QED BY <1>5, <1>7, <1>8, <1>9, <1>10 DEF ResultsInv

\* What an invocation in a step of the processing knows of its version.
LEMMA TargetFacts ==
  ASSUME ResultsInv, pc \in Processing
  PROVE  /\ target \in Versions /\ out \in Versions /\ runId \in Runs
         /\ DirTyped /\ TablesTyped
         /\ pc \in PastPublish => Whole(target)
         /\ pc \in Closing => Archived(target) /\ Ingested(target)
         /\ dir[target].manifest # 0 => Whole(target) /\ Archived(target)
         /\ "arrow_published" \in dir[target].marks => Whole(target)
<1>1. TypeOK /\ DirInv /\ WorkInv
  BY DEF ResultsInv
<1>2. DirTyped /\ TablesTyped
  BY <1>1, TypeParts
<1>3. target \in Versions /\ out \in Versions /\ runId \in Runs
  BY <1>1 DEF WorkInv, Existing, Processing, PastPublish, Closing
<1>4. QED BY <1>1, <1>2, <1>3 DEF WorkInv, DirInv

\* A step the checkpoint of the version has, is skipped.
LEMMA SkipKeeps ==
  ASSUME ResultsInv,
         \/ Skip("publish", "arrow_published", "validate")
         \/ Skip("validate", "schema_validated", "ingest")
         \/ Skip("ingest", "sqlite_ingested", "archive")
         \/ Skip("archive", "parquet_archived", "check")
  PROVE  ResultsInv'
<1>1. /\ pc \in {"publish", "validate", "ingest", "archive"}
      /\ pc' \in {"validate", "ingest", "archive", "check"}
      /\ pc = "publish" => "arrow_published" \in dir[target].marks
      /\ UNCHANGED <<stage, done, error, runId, out, target, job, jobs, failures, dir, runs, trades>>
  BY DEF Skip, Marked, state, store
<1>2. pc \in Processing /\ pc' \in Processing /\ pc' \in PastPublish /\ pc' \notin Closing
      /\ (pc # "publish" => pc \in PastPublish)
  BY <1>1 DEF Processing, PastPublish, Closing
<1>3. /\ Whole(target) /\ DirTyped /\ TablesTyped
      /\ dir[target].manifest # 0 => Archived(target)
  BY <1>1, <1>2, TargetFacts
<1>4. DirTyped' /\ TablesTyped' /\ (Archived(target) => Archived(target)')
  BY <1>1, <1>3 DEF DirTyped, TablesTyped, Archived
<1>5. pc' # "finish"
  BY <1>1
<1>6. QED BY <1>1, <1>2, <1>3, <1>4, <1>5, WorkKeeps

\* A mark, the ingested run or the archived copy is saved with the version.
LEMMA SaveKeeps ==
  ASSUME ResultsInv, Validate \/ SaveIngested \/ Archive
  PROVE  ResultsInv'
<1>1. /\ pc \in {"validate", "ingested", "archive"} /\ pc' \in {"ingest", "archive", "check"}
      /\ UNCHANGED <<stage, done, error, runId, out, target, job, jobs, failures, runs, trades>>
  BY DEF Validate, SaveIngested, Archive, state
<1>2. /\ pc \in Processing /\ pc' \in Processing /\ pc \in PastPublish /\ pc' \in PastPublish
      /\ pc' \notin Closing /\ pc' # "finish"
  BY <1>1 DEF Processing, PastPublish, Closing
<1>3. /\ target \in Versions /\ runId \in Runs /\ Whole(target) /\ DirTyped /\ TablesTyped
      /\ dir[target].manifest # 0 => Archived(target)
  BY <1>2, TargetFacts
<1>4. PICK mark \in Marks, r \in {0} \cup Runs, copy \in 0 .. MaxJobs :
        /\ dir' = [dir EXCEPT ![target].marks = @ \cup {mark}, ![target].run = r,
                              ![target].parquet = copy]
        /\ copy = dir[target].parquet \/ dir[target].parquet = 0
  <2>1. /\ dir[target].run \in {0} \cup Runs /\ dir[target].parquet \in 0 .. MaxJobs
        /\ dir[target].arrow["trade-log"] \in 0 .. MaxJobs
    BY <1>3 DEF DirTyped, Files
  <2>2. CASE Validate
    <3>1. dir' = [dir EXCEPT ![target].marks = @ \cup {"schema_validated"},
                             ![target].run = dir[target].run,
                             ![target].parquet = dir[target].parquet]
      BY <1>3, <2>2 DEF Validate, DirTyped
    <3>2. "schema_validated" \in Marks
      BY DEF Marks
    <3>3. QED BY <2>1, <3>1, <3>2, Zenon
  <2>3. CASE SaveIngested
    <3>1. dir' = [dir EXCEPT ![target].marks = @ \cup {"sqlite_ingested"},
                             ![target].run = runId,
                             ![target].parquet = dir[target].parquet]
      BY <1>3, <2>3 DEF SaveIngested, DirTyped
    <3>2. "sqlite_ingested" \in Marks /\ runId \in {0} \cup Runs
      BY <1>3 DEF Marks
    <3>3. QED BY <2>1, <3>1, <3>2, Zenon
  <2>4. CASE Archive
    <3> DEFINE copy == IF dir[target].parquet = 0 THEN dir[target].arrow["trade-log"]
                       ELSE dir[target].parquet
    <3>1. dir' = [dir EXCEPT ![target].marks = @ \cup {"parquet_archived"},
                             ![target].run = dir[target].run,
                             ![target].parquet = copy]
      BY <1>3, <2>4 DEF Archive, DirTyped
    <3>2. "parquet_archived" \in Marks /\ copy \in 0 .. MaxJobs
          /\ (copy = dir[target].parquet \/ dir[target].parquet = 0)
      BY <2>1 DEF Marks
    <3> HIDE DEF copy
    <3>3. QED BY <2>1, <3>1, <3>2, Zenon
  <2>5. QED BY <2>2, <2>3, <2>4
<1>5. /\ \A v \in Versions : dir'[v].made = dir[v].made /\ dir'[v].arrow = dir[v].arrow
      /\ \A v \in Versions \ {target} : dir'[v] = dir[v]
      /\ dir'[target].manifest = dir[target].manifest /\ dir'[target].parquet = copy
      /\ DirTyped'
  <2> DEFINE d == [dir[target] EXCEPT !.marks = @ \cup {mark}, !.run = r, !.parquet = copy]
  <2>1. dir[target].marks \cup {mark} \in SUBSET Marks
    BY <1>3 DEF DirTyped
  <2>2. d \in [made : BOOLEAN, arrow : [Files -> 0 .. MaxJobs], parquet : 0 .. MaxJobs,
               marks : SUBSET Marks, run : {0} \cup Runs, manifest : {0} \cup Runs]
    BY <1>3, <2>1 DEF DirTyped
  <2>3. /\ d.made = dir[target].made /\ d.arrow = dir[target].arrow
        /\ d.manifest = dir[target].manifest /\ d.parquet = copy
    BY <1>3 DEF DirTyped
  <2>4. dir' = [dir EXCEPT ![target] = d]
    BY <1>4
  <2> HIDE DEF d
  <2>5. DirTyped'
    BY <1>3, <2>2, <2>4 DEF DirTyped
  <2>6. /\ dir'[target] = d /\ \A v \in Versions \ {target} : dir'[v] = dir[v]
    BY <1>3, <2>4 DEF DirTyped
  <2>7. QED BY <2>3, <2>5, <2>6
<1>6. dir'[target].manifest # 0 => Archived(target)'
  <2>1. SUFFICES ASSUME dir[target].manifest # 0 PROVE Archived(target)'
    BY <1>5
  <2>2. dir[target].parquet = dir[target].arrow["trade-log"] /\ dir[target].parquet # 0
    BY <1>3, <2>1 DEF Archived, Whole, Files
  <2>3. QED BY <1>1, <1>3, <1>4, <1>5, <2>2 DEF Archived
<1>7. TablesTyped'
  BY <1>1, <1>3 DEF TablesTyped
<1>8. QED BY <1>1, <1>2, <1>3, <1>5, <1>6, <1>7, WorkKeeps

\* The version to make is the latest one, or a new one.
LEMMA BeginProcessingKeeps == ASSUME ResultsInv, BeginProcessing PROVE ResultsInv'
<1>1. /\ pc = "backtest-complete" /\ pc' = "publish" /\ out' = Latest
      /\ dir' = [dir EXCEPT ![target'].made = TRUE]
      /\ \/ target' = Latest
         \/ target' = Latest + 1 /\ Latest < MaxVersions
      /\ UNCHANGED <<stage, done, error, runId, job, jobs, runs, trades, failures>>
  BY DEF BeginProcessing, state
<1>2. TypeOK /\ DirInv /\ JobInv /\ WorkInv /\ ReviewInv
  BY DEF ResultsInv
<1>3. DirTyped /\ JobsTyped /\ TablesTyped /\ CallTyped
  BY <1>2, TypeParts
<1>4. stage = "backtest-complete" /\ runId \in Runs
  BY <1>1, <1>2, <1>3 DEF CallTyped, WorkInv
<1>5. /\ Latest \in 0 .. MaxVersions /\ Existing = 1 .. Latest
      /\ done \in Existing /\ done <= Latest /\ Latest \in Versions /\ Latest \in Existing
  <2>1. Latest \in 0 .. MaxVersions /\ Existing = 1 .. Latest
    BY <1>2, LatestFacts
  <2>2. done \in Existing
    BY <1>2, <1>4 DEF ReviewInv
  <2>3. QED BY <2>1, <2>2, BoundFacts
<1>6. target' \in Versions /\ target' >= Latest /\ (target' \in Existing => target' = Latest)
  BY <1>1, <1>5, BoundFacts
<1>7. /\ \A v \in Versions : dir'[v].made = (dir[v].made \/ v = target')
      /\ \A v \in Versions : ~dir'[v].made => ~dir[v].made
      /\ \A v \in Versions : /\ dir'[v].arrow = dir[v].arrow /\ dir'[v].marks = dir[v].marks
                             /\ dir'[v].manifest = dir[v].manifest
                             /\ dir'[v].parquet = dir[v].parquet /\ dir'[v].run = dir[v].run
  BY <1>1, <1>3, <1>6 DEF DirTyped
<1>8. TypeOK'
  <2>1. DirTyped'
    BY <1>1, <1>3, <1>6 DEF DirTyped
  <2>2. JobsTyped' /\ TablesTyped'
    BY <1>1, <1>3 DEF JobsTyped, TablesTyped
  <2>3. out' \in 0 .. MaxVersions /\ target' \in 0 .. MaxVersions
    BY <1>1, <1>5, <1>6, BoundFacts
  <2>0. ErrorTyped'
    BY <1>1, <1>3, ErrorStays DEF CallTyped
  <2>4. CallTyped' /\ WaitTyped'
    BY <1>1, <1>3, <1>4, <2>0, <2>3
    DEF CallTyped, WaitTyped, Waiting, Closing, PastPublish, Processing
  <2>5. QED BY <2>1, <2>2, <2>4, TypePartsNext
<1>9. Existing' = 1 .. target' /\ Existing \subseteq Existing'
  <2>1. Existing' = Existing \cup {target'}
    BY <1>6, <1>7 DEF Existing
  <2>2. QED BY <1>1, <1>5, <2>1, BoundFacts
<1>10. Latest' = target'
  <2>1. target' \in Nat
    BY <1>6, BoundFacts
  <2>2. QED BY <1>9, <2>1, CountFacts DEF Latest
<1>11. DirInv'
  <2>1. target' \in 0 .. MaxVersions
    BY <1>6, BoundFacts
  <2>2. \A v \in Versions :
         /\ ~dir'[v].made => /\ \A f \in Files : dir'[v].arrow[f] = 0
                             /\ dir'[v].marks = {} /\ dir'[v].manifest = 0
         /\ \A f, g \in Files :
              dir'[v].arrow[f] # 0 /\ dir'[v].arrow[g] # 0 => dir'[v].arrow[f] = dir'[v].arrow[g]
    BY <1>2, <1>7 DEF DirInv
  <2>3. \A v \in Versions :
         /\ "arrow_published" \in dir'[v].marks => Whole(v)'
         /\ dir'[v].manifest # 0 => Whole(v)' /\ Archived(v)'
    BY <1>2, <1>7 DEF DirInv, Whole, Archived
  <2>4. QED BY <1>9, <2>1, <2>2, <2>3 DEF DirInv
<1>12. JobInv'
  <2>1. \A j \in Jobs : Spawned(j) => jobs[j].out \in Versions
    BY <1>2 DEF JobInv, Existing
  <2>2. QED BY <1>1, <1>2, <1>7, <1>9, <2>1 DEF JobInv, Spawned
<1>13. target' # out' => target' \notin Existing /\ \A f \in Files : dir'[target'].arrow[f] = 0
  <2>1. SUFFICES ASSUME target' # out'
                 PROVE  target' \notin Existing /\ \A f \in Files : dir'[target'].arrow[f] = 0
    OBVIOUS
  <2>2. target' \notin Existing
    BY <1>1, <1>6, <2>1
  <2>3. ~dir[target'].made
    BY <1>6, <2>2 DEF Existing
  <2>4. QED BY <1>2, <1>6, <1>7, <2>2, <2>3 DEF DirInv
<1>14. WorkInv'
  <2>1. out' \in Existing' /\ target' \in Existing' /\ target' = Latest' /\ done <= out'
    BY <1>1, <1>5, <1>6, <1>9, <1>10, BoundFacts
  <2>2. target' # out' => \A j \in Jobs : Spawned(j)' => jobs[j].out # target'
    BY <1>1, <1>2, <1>13 DEF JobInv, Spawned
  <2>3. QED BY <1>1, <1>4, <1>13, <2>1, <2>2
    DEF WorkInv, Waiting, Closing, PastPublish, Processing
<1>15. ReviewInv'
  <2>1. Existing \subseteq Versions /\ done \in Versions
    BY <1>5 DEF Existing
  <2>2. Whole(done)'
    BY <1>1, <1>2, <1>4, <1>7, <2>1 DEF ReviewInv, Whole
  <2>3. ASSUME NEW v \in Existing', v >= done, NEW f \in Files
        PROVE  dir'[v].arrow[f] \in {0, dir'[done].arrow[f]}
    <3>1. CASE v \in Existing
      BY <1>2, <1>4, <1>7, <2>1, <2>3, <3>1 DEF ReviewInv
    <3>2. CASE v \notin Existing
      <4>1. v = target' /\ target' # out'
        BY <1>1, <1>5, <1>6, <1>9, <2>3, <3>2, BoundFacts
      <4>2. QED BY <1>13, <4>1
    <3>3. QED BY <3>1, <3>2
  <2>4. \A j \in Jobs : Spawned(j)' => jobs'[j].out <= done'
    BY <1>1, <1>2, <1>4 DEF ReviewInv, Spawned
  <2>5. QED BY <1>1, <1>4, <1>5, <1>9, <2>2, <2>3, <2>4 DEF ReviewInv
<1>16. QED BY <1>8, <1>11, <1>12, <1>14, <1>15 DEF ResultsInv

\* A file that is published is the one of the output directory.
LEMMA PublishKeeps == ASSUME ResultsInv, Publish PROVE ResultsInv'
<1>1. /\ pc = "publish"
      /\ UNCHANGED <<stage, done, runId, out, target, job, jobs, runs, trades, failures>>
  BY DEF Publish
<1>2. pc \in Processing
  BY <1>1 DEF Processing
<1>3. /\ target \in Versions /\ out \in Versions /\ DirTyped /\ TablesTyped
      /\ TypeOK /\ DirInv /\ JobInv /\ WorkInv /\ ReviewInv
  BY <1>2, TargetFacts DEF ResultsInv
<1>4. JobsTyped /\ CallTyped /\ stage = "backtest-complete"
  BY <1>2, <1>3, TypeParts DEF CallTyped
<1>5. PICK file \in Files :
        \/ /\ Published(target) # Files /\ file \notin Published(target)
           /\ \/ Fail /\ UNCHANGED dir
              \/ /\ dir[out].arrow[file] # 0
                 /\ dir' = [dir EXCEPT ![target].arrow[file] = dir[out].arrow[file]]
                 /\ UNCHANGED <<error, pc>>
        \/ /\ Published(target) = Files
           /\ dir' = [dir EXCEPT ![target].marks = @ \cup {"arrow_published"}]
           /\ pc' = "validate"
           /\ UNCHANGED error
  <2> DEFINE file == CASE "trade-log" \notin Published(target)    -> "trade-log"
                       [] "equity-curve" \notin Published(target) -> "equity-curve"
                       [] OTHER                                   -> "metrics"
  <2>1. file \in Files /\ (Published(target) # Files => file \notin Published(target))
    BY DEF Published, Files
  <2>2. \/ /\ Published(target) # Files
           /\ IF dir[out].arrow[file] = 0
               THEN Fail /\ UNCHANGED dir
               ELSE /\ dir' = [dir EXCEPT ![target].arrow[file] = dir[out].arrow[file]]
                    /\ UNCHANGED <<error, pc>>
        \/ /\ Published(target) = Files
           /\ dir' = [dir EXCEPT ![target].marks = @ \cup {"arrow_published"}]
           /\ pc' = "validate"
           /\ UNCHANGED error
    BY Zenon DEF Publish
  <2> HIDE DEF file
  <2>3. QED BY <2>1, <2>2, Zenon
<1>6. CASE Fail /\ UNCHANGED dir
  <2>1. CallTyped' /\ WaitTyped'
    BY <1>1, <1>4, <1>6, ErrorFails
    DEF Fail, CallTyped, WaitTyped, Waiting, Closing, PastPublish, Processing
  <2>2. TypeOK'
    BY <1>1, <1>3, <1>4, <1>6, <2>1, TypePartsNext DEF DirTyped, JobsTyped, TablesTyped
  <2>3. QED BY <1>1, <1>6, <2>2, DownKeeps DEF Fail
<1>7. CASE /\ Published(target) = Files
           /\ dir' = [dir EXCEPT ![target].marks = @ \cup {"arrow_published"}]
           /\ pc' = "validate"
           /\ UNCHANGED error
  <2>1. Whole(target)
    BY <1>7 DEF Published, Whole
  <2>2. /\ \A v \in Versions : dir'[v].made = dir[v].made /\ dir'[v].arrow = dir[v].arrow
        /\ \A v \in Versions \ {target} : dir'[v] = dir[v]
        /\ dir'[target].manifest = dir[target].manifest
        /\ dir'[target].parquet = dir[target].parquet
    BY <1>3, <1>7 DEF DirTyped
  <2>3. DirTyped' /\ TablesTyped'
    <3>1. dir[target].marks \cup {"arrow_published"} \in SUBSET Marks
      BY <1>3 DEF DirTyped, Marks
    <3>2. DirTyped'
      BY ZenonT(30), <1>3, <1>7, <3>1 DEF DirTyped
    <3>3. QED BY <1>1, <1>3, <3>2 DEF TablesTyped
  <2>4. dir'[target].manifest # 0 => Archived(target)'
    BY <1>1, <1>3, <2>2 DEF DirInv, Archived
  <2>5. pc' \in Processing /\ pc' \notin Closing /\ pc' # "finish"
    BY <1>7 DEF Processing, PastPublish, Closing
  <2>6. QED BY <1>1, <1>2, <1>7, <2>1, <2>2, <2>3, <2>4, <2>5, WorkKeeps
<1>8. CASE /\ Published(target) # Files /\ file \notin Published(target)
           /\ dir[out].arrow[file] # 0
           /\ dir' = [dir EXCEPT ![target].arrow[file] = dir[out].arrow[file]]
           /\ UNCHANGED <<error, pc>>
  <2>1. dir[target].arrow[file] = 0 /\ ~Whole(target) /\ target # out
    BY <1>8 DEF Published, Whole
  <2>2. /\ out \in Existing /\ target \in Existing /\ target = Latest /\ done <= out
        /\ \A j \in Jobs : Spawned(j) => jobs[j].out # target
        /\ \A f \in Files : dir[target].arrow[f] \in {0, dir[out].arrow[f]}
    BY <1>2, <1>3, <2>1 DEF WorkInv
  <2>3. /\ \A v \in Versions \ {target} : dir'[v] = dir[v]
        /\ \A v \in Versions : dir'[v].made = dir[v].made
        /\ dir'[target].marks = dir[target].marks /\ dir'[target].manifest = dir[target].manifest
        /\ \A f \in Files : dir'[target].arrow[f] =
             IF f = file THEN dir[out].arrow[file] ELSE dir[target].arrow[f]
    BY <1>3, <1>8 DEF DirTyped
  <2>4. DirTyped'
    <3>1. dir[out].arrow[file] \in 0 .. MaxJobs /\ dir[target].arrow \in [Files -> 0 .. MaxJobs]
      BY <1>3 DEF DirTyped
    <3>2. [dir[target].arrow EXCEPT ![file] = dir[out].arrow[file]] \in [Files -> 0 .. MaxJobs]
      BY <3>1
    <3>3. QED BY ZenonT(30), <1>3, <1>8, <3>2 DEF DirTyped
  <2>5. TypeOK'
    <3>1. JobsTyped' /\ TablesTyped'
      BY <1>1, <1>3, <1>4 DEF JobsTyped, TablesTyped
    <3>0. ErrorTyped'
      BY <1>1, <1>4, <1>8, ErrorStays DEF CallTyped
    <3>2. CallTyped' /\ WaitTyped'
      BY <1>1, <1>4, <1>8, <3>0 DEF CallTyped, WaitTyped, Waiting
    <3>3. QED BY <2>4, <3>1, <3>2, TypePartsNext
  <2>6. Existing' = Existing /\ Latest' = Latest
    BY <2>3, LatestStays
  <2>7. \A f \in Files : dir'[target].arrow[f] \in {0, dir[out].arrow[f]}
    BY <2>2, <2>3
  <2>8. DirInv'
    <3>1. \A f, g \in Files : dir'[target].arrow[f] # 0 /\ dir'[target].arrow[g] # 0
                                => dir'[target].arrow[f] = dir'[target].arrow[g]
      BY <1>3, <2>7 DEF DirInv
    <3>2. dir[target].made /\ "arrow_published" \notin dir[target].marks
          /\ dir[target].manifest = 0
      BY <1>3, <2>1, <2>2 DEF DirInv, Existing
    <3>3. ASSUME NEW w \in Versions
          PROVE  /\ ~dir'[w].made => /\ \A g \in Files : dir'[w].arrow[g] = 0
                                     /\ dir'[w].marks = {} /\ dir'[w].manifest = 0
                 /\ \A g, h \in Files : dir'[w].arrow[g] # 0 /\ dir'[w].arrow[h] # 0
                                          => dir'[w].arrow[g] = dir'[w].arrow[h]
                 /\ "arrow_published" \in dir'[w].marks => Whole(w)'
                 /\ dir'[w].manifest # 0 => Whole(w)' /\ Archived(w)'
      <4>1. CASE w = target
        BY <1>3, <2>3, <3>1, <3>2, <4>1
      <4>2. CASE w # target
        <5>1. dir'[w] = dir[w]
          BY <2>3, <4>2
        <5>2. (Whole(w) => Whole(w)') /\ (Archived(w) => Archived(w)')
          BY <5>1 DEF Whole, Archived
        <5>3. QED BY <1>3, <5>1, <5>2 DEF DirInv
      <4>3. QED BY <4>1, <4>2
    <3>4. \E n \in 0 .. MaxVersions : Existing' = 1 .. n
      BY <1>3, <2>6 DEF DirInv
    <3>5. QED BY <3>3, <3>4 DEF DirInv
  <2>9. JobInv'
    <3>1. \A j \in Jobs : Spawned(j) => jobs[j].out \in Versions \ {target}
      BY <1>3, <2>2 DEF JobInv, Existing
    <3>2. QED BY <1>1, <1>3, <2>3, <2>6, <3>1 DEF JobInv, Spawned
  <2>10. WorkInv'
    <3>1. dir'[out] = dir[out]
      BY <1>3, <2>1, <2>3
    <3>2. pc' = "publish" /\ runId' \in Runs
      BY <1>1, <1>3, <1>8 DEF WorkInv
    <3>3. QED BY <1>1, <2>2, <2>6, <2>7, <3>1, <3>2
      DEF WorkInv, Spawned, Waiting, Closing, PastPublish, Processing
  <2>11. ReviewInv'
    <3>1. Existing \subseteq Versions /\ done \in Existing /\ done \in Versions
      BY <1>3, <1>4 DEF Existing, ReviewInv
    <3>2. done # target
      BY <1>3, <1>4, <2>1 DEF ReviewInv
    <3>3. dir'[done] = dir[done]
      BY <2>3, <3>1, <3>2
    <3>4. \A f \in Files : dir[out].arrow[f] \in {0, dir[done].arrow[f]}
      <4>1. out >= done
        BY <1>3, <2>2, <3>1, BoundFacts
      <4>2. QED BY <1>3, <1>4, <2>2, <4>1 DEF ReviewInv
    <3>5. ASSUME NEW w \in Existing, w >= done, NEW f \in Files
          PROVE  dir'[w].arrow[f] \in {0, dir[done].arrow[f]}
      <4>1. CASE w = target
        BY <2>7, <3>4, <4>1
      <4>2. CASE w # target
        BY <1>3, <1>4, <2>3, <3>1, <3>5, <4>2 DEF ReviewInv
      <4>3. QED BY <4>1, <4>2
    <3>6. Whole(done)'
      BY <1>1, <1>3, <1>4, <3>3 DEF ReviewInv, Whole
    <3>7. QED BY <1>1, <1>3, <1>4, <2>6, <3>1, <3>3, <3>5, <3>6 DEF ReviewInv, Spawned
  <2>12. QED BY <2>5, <2>8, <2>9, <2>10, <2>11 DEF ResultsInv
<1>9. QED BY <1>5, <1>6, <1>7, <1>8

\* The rows of the database, before they are checked.
LEMMA IngestKeeps == ASSUME ResultsInv, Register \/ Ingest PROVE ResultsInv'
<1>1. /\ pc = "ingest" /\ pc' \in {"ingest", "ingested"}
      /\ UNCHANGED <<stage, done, error, runId, out, target, job, jobs, failures, dir>>
  BY DEF Register, Ingest, state, call
<1>2. /\ pc \in Processing /\ pc' \in Processing /\ pc \in PastPublish /\ pc' \in PastPublish
      /\ pc' \notin Closing /\ pc' # "finish"
  BY <1>1 DEF Processing, PastPublish, Closing
<1>3. /\ target \in Versions /\ runId \in Runs /\ Whole(target) /\ DirTyped /\ TablesTyped
      /\ dir[target].manifest # 0 => Archived(target)
  BY <1>2, TargetFacts
<1>4. TablesTyped'
  <2>1. CASE Register
    BY <1>3, <2>1 DEF Register, TablesTyped
  <2>2. CASE Ingest
    <3>1. dir[target].arrow["trade-log"] \in 0 .. MaxJobs
      BY <1>3 DEF DirTyped, Files
    <3>2. DOMAIN trades = 1 .. MaxTrades
      BY <1>3 DEF TablesTyped
    <3> DEFINE j == dir[target].arrow["trade-log"]
    <3>3. trades' = [t \in DOMAIN trades |->
            IF t \in TradesOf(j) THEN [run |-> runId, job |-> j]
            ELSE IF trades[t].run = runId THEN NoRow ELSE trades[t]]
      BY <2>2 DEF Ingest
    <3> HIDE DEF j
    <3>4. j \in 0 .. MaxJobs /\ NoRow \in [run : {0} \cup Runs, job : 0 .. MaxJobs]
      BY <3>1, ZeroFacts DEF j, NoRow
    <3>5. trades' \in [1 .. MaxTrades -> [run : {0} \cup Runs, job : 0 .. MaxJobs]]
      BY <1>3, <3>2, <3>3, <3>4 DEF TablesTyped
    <3>6. runs' = runs
      BY <2>2 DEF Ingest
    <3>7. QED BY <1>3, <3>5, <3>6 DEF TablesTyped
  <2>3. QED BY <2>1, <2>2
<1>5. DirTyped' /\ (Archived(target) => Archived(target)')
  BY <1>1, <1>3 DEF DirTyped, Archived
<1>6. QED BY <1>1, <1>2, <1>3, <1>4, <1>5, WorkKeeps

\* A row that belongs to no run is of no process.
RowInv == \A t \in 1 .. MaxTrades : trades[t].run = 0 => trades[t].job = 0

LEMMA RowsKeep == ASSUME ResultsInv, RowInv, [Next]_vars PROVE RowInv'
<1>1. CASE UNCHANGED trades
  BY <1>1 DEF RowInv
<1>2. CASE Ingest
  <2>1. pc \in Processing
    BY <1>2 DEF Ingest, Processing, PastPublish
  <2>2. runId \in Runs /\ TablesTyped
    BY <2>1, TargetFacts
  <2>3. runId # 0 /\ DOMAIN trades = 1 .. MaxTrades
    BY <2>2, BoundFacts DEF TablesTyped
  <2> DEFINE j == dir[target].arrow["trade-log"]
  <2>4. trades' = [t \in DOMAIN trades |->
          IF t \in TradesOf(j) THEN [run |-> runId, job |-> j]
          ELSE IF trades[t].run = runId THEN NoRow ELSE trades[t]]
    BY <1>2 DEF Ingest
  <2> HIDE DEF j
  <2>5. QED BY <2>3, <2>4 DEF RowInv, NoRow
<1>3. CASE Step /\ ~Ingest
  <2>1. UNCHANGED trades
    BY <1>3
    DEF Step, BeginBacktest, Dispatch, Verify, ProcessFailed, Throttle, BeginProcessing, Skip,
        Publish, Validate, Register, SaveIngested, Archive, CheckAndComplete, WriteManifest,
        Finish, store
  <2>2. QED BY <1>1, <2>1
<1>4. CASE Invoke \/ Refine \/ Killed
  BY <1>1, <1>4 DEF Invoke, Refine, Killed, store
<1>5. ASSUME NEW j \in Jobs, WriteResult(j) \/ Exit(j) \/ Timeout(j) PROVE RowInv'
  BY <1>1, <1>5 DEF WriteResult, Exit, Timeout, store
<1>6. QED BY <1>1, <1>2, <1>3, <1>4, <1>5 DEF Next, vars, store

\* The run is completed when its rows and the copy agree with the log.
LEMMA CheckKeeps == ASSUME ResultsInv, RowInv, CheckAndComplete PROVE ResultsInv'
<1> DEFINE j == dir[target].arrow["trade-log"]  r == dir[target].run
<1>1. /\ pc = "check"
      /\ UNCHANGED <<stage, done, runId, out, target, job, jobs, dir, trades, failures>>
      /\ \/ /\ RowsOf(r) = TradesOf(j)
            /\ \A t \in TradesOf(j) : trades[t].job = j
            /\ dir[target].parquet = j
            /\ TradesOf(j) # {}
            /\ runs' = [runs EXCEPT ![r] = "completed"] /\ pc' = "manifest" /\ UNCHANGED error
         \/ Fail /\ UNCHANGED runs
  BY DEF CheckAndComplete
<1>2. pc \in Processing /\ pc \in PastPublish
  BY <1>1 DEF Processing, PastPublish
<1>3. /\ target \in Versions /\ Whole(target) /\ DirTyped /\ TablesTyped
      /\ dir[target].manifest # 0 => Archived(target)
  BY <1>2, TargetFacts
<1>4. CASE Fail /\ UNCHANGED runs
  <2>1. JobsTyped /\ CallTyped
    BY TypeParts DEF ResultsInv
  <2>2. CallTyped' /\ WaitTyped'
    BY <1>1, <1>4, <2>1, ErrorFails
    DEF Fail, CallTyped, WaitTyped, Waiting, Closing, PastPublish, Processing
  <2>3. TypeOK'
    BY <1>1, <1>3, <1>4, <2>1, <2>2, TypePartsNext DEF DirTyped, JobsTyped, TablesTyped
  <2>4. QED BY <1>1, <1>4, <2>3, DownKeeps DEF Fail
<1>5. CASE /\ RowsOf(r) = TradesOf(j)
           /\ \A t \in TradesOf(j) : trades[t].job = j
           /\ dir[target].parquet = j
           /\ TradesOf(j) # {}
           /\ runs' = [runs EXCEPT ![r] = "completed"] /\ pc' = "manifest" /\ UNCHANGED error
  <2>1. r \in Runs
    <3>1. PICK t \in TradesOf(j) : t \in RowsOf(r)
      BY <1>5
    <3>2. trades[t].run = r /\ t \in 1 .. MaxTrades
      BY <1>3, <3>1 DEF RowsOf, TablesTyped
    <3>3. trades[t].job # 0
      BY <1>3, <1>5, <3>1 DEF Whole, Files
    <3>4. QED BY <1>3, <3>2, <3>3 DEF RowInv, DirTyped
  <2>2. runs'[r] = "completed" /\ TablesTyped'
    BY <1>1, <1>3, <1>5, <2>1 DEF TablesTyped
  <2>3. Archived(target)' /\ DirTyped'
    BY <1>1, <1>3, <1>5 DEF Archived, DirTyped
  <2>4. Ingested(target)'
    <3>1. RowsOf(r)' = RowsOf(r) /\ TradesOf(j)' = TradesOf(j)
      BY <1>1 DEF RowsOf, TradesOf
    <3>2. QED BY <1>1, <1>5, <2>2, <3>1 DEF Ingested
  <2>5. pc' \in Processing /\ pc' \in PastPublish /\ pc' # "finish"
    BY <1>5 DEF Processing, PastPublish, Closing
  <2>6. QED BY <1>1, <1>2, <1>3, <1>5, <2>2, <2>3, <2>4, <2>5, WorkKeeps
<1>6. QED BY <1>1, <1>4, <1>5

\* The manifest is written last.
LEMMA ManifestKeeps == ASSUME ResultsInv, WriteManifest PROVE ResultsInv'
<1>1. /\ pc = "manifest" /\ pc' = "finish"
      /\ dir' = [dir EXCEPT ![target].manifest = runId]
      /\ UNCHANGED <<stage, done, error, runId, out, target, job, jobs, runs, trades, failures>>
  BY DEF WriteManifest, state
<1>2. /\ pc \in Processing /\ pc' \in Processing /\ pc \in PastPublish /\ pc \in Closing
  BY <1>1 DEF Processing, PastPublish, Closing
<1>3. /\ target \in Versions /\ runId \in Runs /\ DirTyped /\ TablesTyped /\ TypeOK
      /\ Whole(target) /\ Archived(target) /\ Ingested(target)
  BY <1>2, TargetFacts DEF ResultsInv
<1>4. /\ \A v \in Versions : dir'[v].made = dir[v].made /\ dir'[v].arrow = dir[v].arrow
      /\ \A v \in Versions \ {target} : dir'[v] = dir[v]
      /\ dir'[target].manifest = runId /\ dir'[target].run = dir[target].run
      /\ dir'[target].parquet = dir[target].parquet
  BY <1>1, <1>3 DEF DirTyped
<1>5. DirTyped' /\ TablesTyped'
  <2>1. runId \in {0} \cup Runs
    BY <1>3
  <2>2. DirTyped'
    BY <1>1, <1>3, <2>1 DEF DirTyped
  <2>3. QED BY <1>1, <1>3, <2>2 DEF TablesTyped
<1>6. Archived(target)'
  BY <1>1, <1>3, <1>4 DEF Archived
<1>7. Ingested(target)'
  <2>1. Ingested(target)' <=> LET v == target IN Ingested(v)'
    BY <1>1 DEF Ingested, RowsOf, TradesOf
  <2>2. \A v \in Versions : v = target => Ingested(v)'
    BY <1>1, <1>3, <1>4, IngestedStays
  <2>3. QED BY <1>1, <1>3, <2>2 DEF Ingested, RowsOf, TradesOf
<1>8. runId # 0
  BY <1>3, BoundFacts
<1>9. QED BY <1>1, <1>2, <1>3, <1>4, <1>5, <1>6, <1>7, <1>8, WorkKeeps

\* What is up for review is what was just finished.
LEMMA FinishKeeps == ASSUME ResultsInv, Finish PROVE ResultsInv'
<1>1. /\ pc = "finish" /\ pc' = "down" /\ stage' = "review-pending"
      /\ UNCHANGED <<done, error, runId, out, target, job, jobs, dir, runs, trades, failures>>
  BY DEF Finish, store
<1>2. TypeOK /\ DirInv /\ WorkInv /\ ReviewInv /\ stage = "backtest-complete"
  BY <1>1 DEF ResultsInv, TypeOK
<1>3. /\ target = Latest /\ done <= out /\ out \in Existing
      /\ Ingested(target) /\ dir[target].manifest # 0
  BY <1>1, <1>2 DEF WorkInv, Processing, PastPublish, Closing
<1>4. DirInv' /\ JobInv' /\ Latest' = Latest /\ Existing' = Existing
  BY <1>1, StoreStays
<1>5. TypeOK'
  BY <1>1, <1>2 DEF TypeOK, Lasting
<1>6. WorkInv'
  BY <1>1 DEF WorkInv, Waiting, Closing, PastPublish, Processing
<1>7. done <= Latest
  BY <1>2, <1>3, LatestFacts, BoundFacts DEF TypeOK
<1>8. Ingested(Latest)'
  BY <1>1, <1>3, <1>4 DEF Ingested, RowsOf, TradesOf
<1>9. ReviewInv'
  BY <1>1, <1>2, <1>3, <1>4, <1>7, <1>8 DEF ReviewInv, Whole, Spawned
<1>10. QED BY <1>4, <1>5, <1>6, <1>9 DEF ResultsInv

\* An error of the process, the end of a throttling, or a kill of the invocation.
LEMMA EndKeeps == ASSUME ResultsInv, ProcessFailed \/ Throttle \/ Killed PROVE ResultsInv'
<1>1. DirTyped /\ JobsTyped /\ TablesTyped /\ CallTyped /\ WaitTyped
  BY TypeParts DEF ResultsInv
<1>2. UNCHANGED <<stage, done, runId, jobs, dir, runs, trades>>
  BY DEF ProcessFailed, Throttle, Killed, state, store
<1>3. CASE ProcessFailed
  <2>1. /\ pc \in Waiting /\ pc' \in {"throttled", "down"}
        /\ error' \in {"resource_pressure", "external_failure", "data_logic"}
        /\ pc' = "throttled" <=> error' = "resource_pressure"
        /\ UNCHANGED <<out, target, job, failures>>
    BY <1>3 DEF ProcessFailed, Waiting, store
  <2>2. stage = "backtest-running" /\ runId \in Runs
    BY <1>1, <2>1 DEF CallTyped, ResultsInv, WorkInv, Waiting
  <2>3. ErrorTyped'
    BY <1>2, <2>1, <2>2 DEF ErrorTyped
  <2>4. CallTyped' /\ WaitTyped'
    BY <1>1, <1>2, <2>1, <2>2, <2>3
    DEF CallTyped, WaitTyped, Waiting, Closing, PastPublish, Processing
  <2>5. TypeOK'
    BY <1>1, <1>2, <2>4, TypePartsNext DEF DirTyped, JobsTyped, TablesTyped
  <2>6. DirInv' /\ JobInv' /\ Latest' = Latest /\ Existing' = Existing
    BY <1>2, StoreStays
  <2>7. WorkInv'
    BY <1>2, <2>1, <2>2 DEF WorkInv, Waiting, Closing, PastPublish, Processing
  <2>8. ReviewInv'
    BY <1>2, <2>2 DEF ReviewInv
  <2>9. QED BY <2>5, <2>6, <2>7, <2>8 DEF ResultsInv
<1>4. CASE Throttle \/ Killed
  <2>1. pc # "down" /\ pc' = "down" /\ (error' = error \/ error' = "none")
    BY <1>4 DEF Throttle, Killed, state
  <2>2. ErrorTyped'
    BY <1>1, <1>2, <2>1 DEF CallTyped, ErrorTyped, Lasting
  <2>3. out' \in 0 .. MaxVersions /\ target' \in 0 .. MaxVersions /\ job' \in 0 .. MaxJobs
        /\ failures' \in 0 .. MaxFailures
    BY <1>1, <1>4, ZeroFacts, FailureCounts DEF CallTyped, Throttle, Killed, store
  <2>4. CallTyped' /\ WaitTyped'
    BY <1>1, <1>2, <2>1, <2>2, <2>3
    DEF CallTyped, WaitTyped, Waiting, Closing, PastPublish, Processing
  <2>5. TypeOK'
    BY <1>1, <1>2, <2>4, TypePartsNext DEF DirTyped, JobsTyped, TablesTyped
  <2>6. QED BY <1>2, <2>1, <2>5, DownKeeps
<1>5. QED BY <1>3, <1>4

LEMMA ResultsStep == ASSUME ResultsInv, RowInv, [Next]_vars PROVE ResultsInv'
<1>1. CASE Step
  BY <1>1, BeginBacktestKeeps, DispatchKeeps, VerifyKeeps, EndKeeps, BeginProcessingKeeps,
     SkipKeeps, PublishKeeps, SaveKeeps, IngestKeeps, CheckKeeps, ManifestKeeps, FinishKeeps
  DEF Step
<1>2. CASE Invoke \/ Refine \/ Killed
  BY <1>2, InvokeKeeps, RefineKeeps, EndKeeps
<1>3. ASSUME NEW j \in Jobs, WriteResult(j) \/ Exit(j) \/ Timeout(j) PROVE ResultsInv'
  BY <1>3, WriteKeeps, ProcessKeeps
<1>4. CASE UNCHANGED vars
  <2>1. UNCHANGED <<stage, done, error, pc, runId, out, target, job, jobs, dir, runs, trades, failures>>
    BY <1>4 DEF vars, state, call, store
  <2>2. TypeOK'
    BY <2>1 DEF ResultsInv, TypeOK
  <2>3. DirInv' /\ JobInv' /\ Existing' = Existing /\ Latest' = Latest
    BY <2>1, StoreStays
  <2>4. WorkInv'
    BY <2>1, <2>3 DEF ResultsInv, WorkInv, Whole, Archived, Spawned, Ingested, RowsOf, TradesOf
  <2>5. ReviewInv'
    BY <2>1, <2>3 DEF ResultsInv, ReviewInv, Whole, Spawned, Ingested, RowsOf, TradesOf
  <2>6. QED BY <2>2, <2>3, <2>4, <2>5 DEF ResultsInv
<1>5. QED BY <1>1, <1>2, <1>3, <1>4 DEF Next

LEMMA ResultsAlways == Spec => [](ResultsInv /\ RowInv)
<1>1. Init => ResultsInv /\ RowInv
  <2>1. SUFFICES ASSUME Init PROVE ResultsInv /\ RowInv
    OBVIOUS
  <2>2. RowInv
    BY <2>1 DEF Init, RowInv, NoRow
  <2>3. QED BY <2>1, <2>2, ResultsInit
<1>2. (ResultsInv /\ RowInv) /\ [Next]_vars => (ResultsInv /\ RowInv)'
  BY ResultsStep, RowsKeep
<1>3. QED BY <1>1, <1>2, PTL DEF Spec

----------------------------------------------------------------------------
(* Theorems.                                                               *)

\* What is in a version with a manifest is of one process.
LEMMA WholeOfOne == ResultsInv => ManifestedIsWhole
<1>1. SUFFICES ASSUME ResultsInv, NEW v \in Manifested
               PROVE  \E j \in Jobs : (\A f \in Files : dir[v].arrow[f] = j) /\ dir[v].parquet = j
  BY DEF ManifestedIsWhole
<1>2. v \in Versions /\ DirTyped /\ DirInv /\ dir[v].manifest # 0
  BY <1>1, TypeParts DEF ResultsInv, Manifested
<1>3. Whole(v) /\ Archived(v)
  BY <1>2 DEF DirInv
<1>4. dir[v].arrow["trade-log"] \in Jobs
  BY SMTT(30), <1>2, <1>3, BoundFacts DEF Whole, Files, DirTyped
<1>5. \A f \in Files : dir[v].arrow[f] = dir[v].arrow["trade-log"]
  BY <1>2, <1>3 DEF DirInv, Whole, Files
<1>6. QED BY <1>3, <1>4, <1>5 DEF Archived

\* The latest manifest is that of the latest version, which is made of the backtest that
\* completed last.
LEMMA CurrentUpForReview == ResultsInv => ReviewedIsCurrent
<1>1. SUFFICES ASSUME ResultsInv, stage = "review-pending" PROVE ReviewedIsCurrent
  BY DEF ReviewedIsCurrent
<1>2. TypeOK /\ DirInv /\ ReviewInv /\ DirTyped
  BY <1>1, TypeParts DEF ResultsInv
<1>3. Latest \in 0 .. MaxVersions /\ Existing = 1 .. Latest
  BY <1>2, LatestFacts
<1>4. /\ done \in Existing /\ done <= Latest /\ Whole(done)
      /\ dir[Latest].manifest # 0 /\ Ingested(Latest)
      /\ \A v \in Existing : v >= done =>
           \A f \in Files : dir[v].arrow[f] \in {0, dir[done].arrow[f]}
  BY <1>1, <1>2 DEF ReviewInv
<1>5. Latest \in Existing /\ Latest \in Versions /\ Latest >= done
  BY <1>3, <1>4, BoundFacts
<1>6. Latest \in Manifested
  BY <1>4, <1>5 DEF Manifested
<1>7. \A x \in Manifested : x <= Latest
  <2>1. Manifested \subseteq Existing
    BY <1>2 DEF Manifested, Existing, DirInv
  <2>2. QED BY <1>3, <2>1, BoundFacts
<1>8. (CHOOSE w \in Manifested : \A x \in Manifested : x <= w) = Latest
  <2>1. \A w \in Manifested : (\A x \in Manifested : x <= w) => w = Latest
    <3>1. Manifested \subseteq Nat
      BY BoundFacts DEF Manifested
    <3>2. QED BY <1>6, <1>7, <3>1
  <2>2. QED BY <1>6, <1>7, <2>1
<1>9. dir[Latest].arrow["trade-log"] = dir[done].arrow["trade-log"]
  <2>1. Whole(Latest)
    BY <1>2, <1>4, <1>5 DEF DirInv
  <2>2. QED BY <1>4, <1>5, <2>1 DEF Whole, Files
<1>10. QED BY <1>4, <1>6, <1>8, <1>9 DEF ReviewedIsCurrent, Ingested

\* Whatever is killed, and however long an orphaned process writes on, a version with a
\* manifest is of one backtest, and what is up for review is the one that completed last
\* (process_backtest_results, write_results).
THEOREM WholeResults == Spec => []ResultsAreWhole
<1>1. ResultsInv => ResultsAreWhole
  BY WholeOfOne, CurrentUpForReview DEF ResultsAreWhole, ResultsInv
<1>2. QED BY <1>1, ResultsAlways, PTL


----------------------------------------------------------------------------
(* Sums of trades.  What a recursive function computes is proved by the    *)
(* least number for which it would not.                                    *)

LessThan == {p \in Nat \X Nat : p[1] < p[2]}

\* A set of numbers has a smallest one: induction, by the smallest counterexample.
LEMMA LeastElement ==
  ASSUME NEW T \in SUBSET Nat, T # {}
  PROVE  \E n \in T : \A m \in T : n <= m
<1>1. IsWellFoundedOn(LessThan, Nat)
  BY NatLessThanWellFounded DEF OpToRel, LessThan
<1>2. PICK n \in T : \A m \in T : ~(<<m, n>> \in LessThan)
  BY <1>1, WFMin
<1>3. ASSUME NEW m \in T PROVE n <= m
  <2>1. ~(<<m, n>> \in LessThan) /\ m \in Nat /\ n \in Nat
    BY <1>2
  <2>2. QED BY <2>1 DEF LessThan
<1>4. QED BY <1>3

Trades == [dir : {1, -1}, entry : Nat, exit : Nat,
           reason : {"StopLoss", "TakeProfit", "TrailingStop", "EndOfData"}, pnl : Int]

\* f has the sums of the first trades of s, up to n of them.
AddUp(f, s, n) == f[0] = 0 /\ \A k \in 1 .. n : f[k] = f[k - 1] + s[k].pnl

AreSums(f, s, n) == f \in [0 .. n -> Int] /\ AddUp(f, s, n)

LEMMA SumsExist ==
  ASSUME NEW s \in Seq(Trades)
  PROVE  \E f : AreSums(f, s, Len(s))
<1> DEFINE T == {n \in 0 .. Len(s) : ~\E f : AreSums(f, s, n)}
<1>1. SUFFICES ASSUME T # {} PROVE FALSE
  <2>1. Len(s) \in 0 .. Len(s)
    OBVIOUS
  <2>2. QED BY <2>1
<1>2. PICK n \in T : \A m \in T : n <= m
  <2>1. T \in SUBSET Nat
    OBVIOUS
  <2>2. QED BY <1>1, <2>1, LeastElement
<1>3. n \in 0 .. Len(s) /\ ~\E f : AreSums(f, s, n)
  BY <1>2
<1>4. CASE n = 0
  <2>1. AreSums([k \in 0 .. 0 |-> 0], s, 0)
    BY DEF AreSums, AddUp
  <2>2. QED BY <1>3, <1>4, <2>1
<1>5. CASE n # 0
  <2>1. n - 1 \in 0 .. Len(s) /\ n - 1 \notin T
    BY <1>2, <1>3, <1>5
  <2>2. PICK f : AreSums(f, s, n - 1)
    BY <2>1
  <2> DEFINE g == [k \in 0 .. n |-> IF k = n THEN f[n - 1] + s[n].pnl ELSE f[k]]
  <2>3. s[n].pnl \in Int
    <3>1. n \in 1 .. Len(s)
      BY <1>3, <1>5
    <3>2. s[n] \in Trades
      BY <3>1
    <3>3. QED BY <3>2 DEF Trades
  <2>4. f \in [0 .. n - 1 -> Int]
    BY <2>2 DEF AreSums, AddUp
  <2>5. g \in [0 .. n -> Int]
    BY <1>3, <1>5, <2>3, <2>4
  <2>6. g[0] = 0
    BY <1>3, <1>5, <2>2 DEF AreSums, AddUp
  <2>7. ASSUME NEW k \in 1 .. n PROVE g[k] = g[k - 1] + s[k].pnl
    <3>1. CASE k = n
      BY <1>3, <1>5, <3>1
    <3>2. CASE k # n
      <4>1. k \in 1 .. n - 1 /\ k - 1 \in 0 .. n /\ k - 1 # n /\ k \in 0 .. n
        BY <1>3, <3>2
      <4>2. f[k] = f[k - 1] + s[k].pnl
        BY <2>2, <4>1 DEF AreSums, AddUp
      <4>3. QED BY <3>2, <4>1, <4>2
    <3>3. QED BY <3>1, <3>2
  <2>8. AreSums(g, s, n)
    BY <2>5, <2>6, <2>7 DEF AreSums, AddUp
  <2>9. QED BY <1>3, <2>8
<1>6. QED BY <1>4, <1>5

LEMMA SumsAgree ==
  ASSUME NEW n \in Nat, NEW s \in Seq(Trades), NEW t \in Seq(Trades),
         NEW f, NEW g, AddUp(f, s, n), AddUp(g, t, n), \A k \in 1 .. n : s[k].pnl = t[k].pnl
  PROVE  \A k \in 0 .. n : f[k] = g[k]
<1> DEFINE T == {k \in 0 .. n : f[k] # g[k]}
<1>1. SUFFICES ASSUME T # {} PROVE FALSE
  OBVIOUS
<1>2. PICK k \in T : \A j \in T : k <= j
  <2>1. T \in SUBSET Nat
    OBVIOUS
  <2>2. QED BY <1>1, <2>1, LeastElement
<1>3. k \in 0 .. n /\ f[k] # g[k]
  BY <1>2
<1>4. k # 0
  BY <1>3 DEF AddUp
<1>5. k - 1 \in 0 .. n /\ k - 1 \notin T
  BY <1>2, <1>3, <1>4
<1>6. f[k - 1] = g[k - 1]
  BY <1>5
<1>7. k \in 1 .. n
  BY <1>3, <1>4
<1>8. f[k] = f[k - 1] + s[k].pnl /\ g[k] = g[k - 1] + t[k].pnl
  BY <1>7 DEF AddUp
<1>9. QED BY <1>3, <1>6, <1>7, <1>8

LEMMA SumIs ==
  ASSUME NEW s \in Seq(Trades), NEW f, AreSums(f, s, Len(s))
  PROVE  Sum(s) = f[Len(s)]
<1> DEFINE Grown(g) == [k \in 0 .. Len(s) |-> IF k = 0 THEN 0 ELSE g[k - 1] + s[k].pnl]
           chosen == CHOOSE g : g = Grown(g)
<1>1. f = Grown(f)
  <2>1. \A k \in 0 .. Len(s) : k # 0 => k \in 1 .. Len(s)
    OBVIOUS
  <2>2. QED BY <2>1 DEF AreSums
<1>2. chosen = Grown(chosen)
  BY <1>1
<1>3. AddUp(chosen, s, Len(s))
  <2> HIDE DEF chosen
  <2>1. chosen[0] = 0
    BY <1>2
  <2>2. \A k \in 1 .. Len(s) : chosen[k] = chosen[k - 1] + s[k].pnl
    BY <1>2
  <2>3. QED BY <2>1, <2>2 DEF AddUp
<1>4. Sum(s) = chosen[Len(s)]
  BY DEF Sum
<1>5. chosen[Len(s)] = f[Len(s)]
  <2> HIDE DEF chosen
  <2>1. Len(s) \in Nat /\ Len(s) \in 0 .. Len(s)
    OBVIOUS
  <2>2. AddUp(f, s, Len(s))
    BY DEF AreSums
  <2>3. QED BY <1>3, <2>1, <2>2, SumsAgree
<1>6. QED BY <1>4, <1>5

\* The empty sum, and the sum of one trade more.
LEMMA EmptySum == Sum(<<>>) = 0
<1>1. <<>> \in Seq(Trades) /\ Len(<<>>) = 0
  OBVIOUS
<1>2. PICK f : AreSums(f, <<>>, 0)
  BY <1>1, SumsExist
<1>3. QED BY <1>1, <1>2, SumIs DEF AreSums, AddUp

LEMMA SumFacts ==
  ASSUME NEW s \in Seq(Trades), NEW t \in Trades
  PROVE  Sum(s) \in Int /\ Sum(Append(s, t)) = Sum(s) + t.pnl
<1>2. PICK f : AreSums(f, s, Len(s))
  BY SumsExist
<1>3. Sum(s) = f[Len(s)] /\ Sum(s) \in Int
  <2>1. Len(s) \in 0 .. Len(s)
    OBVIOUS
  <2>2. QED BY <1>2, <2>1, SumIs DEF AreSums, AddUp
<1> DEFINE u == Append(s, t)
<1>4. u \in Seq(Trades) /\ Len(u) = Len(s) + 1 /\ u[Len(s) + 1] = t /\ Len(s) \in Nat
      /\ \A k \in 1 .. Len(s) : u[k] = s[k]
  OBVIOUS
<1> HIDE DEF u
<1>5. PICK g : AreSums(g, u, Len(u))
  BY <1>4, SumsExist
<1>6. \A k \in 0 .. Len(s) : f[k] = g[k]
  <2>1. \A k \in 1 .. Len(s) : s[k].pnl = u[k].pnl
    BY <1>4
  <2>2. \A k \in 1 .. Len(s) : k \in 1 .. Len(u)
    BY <1>4
  <2>3. AddUp(f, s, Len(s)) /\ AddUp(g, u, Len(s))
    BY <1>2, <1>5, <2>2 DEF AreSums, AddUp
  <2>4. QED BY <1>4, <2>1, <2>2, <2>3, SumsAgree
<1>7. g[Len(s) + 1] = g[Len(s)] + u[Len(s) + 1].pnl
  <2>1. Len(s) + 1 \in 1 .. Len(u) /\ (Len(s) + 1) - 1 = Len(s)
    BY <1>4
  <2>2. QED BY <1>5, <2>1 DEF AreSums, AddUp
<1>8. Sum(u) = g[Len(s) + 1]
  BY <1>4, <1>5, SumIs
<1>9. Sum(u) = Sum(s) + t.pnl
  <2>1. f[Len(s)] = g[Len(s)]
    BY <1>4, <1>6
  <2>2. QED BY <1>3, <1>4, <1>7, <1>8, <2>1
<1>10. QED BY <1>3, <1>9 DEF u

----------------------------------------------------------------------------
(* Positions.                                                              *)

Position == [dir : {1, -1}, at : Nat, price : Int, sl : Int, tp : Int, trail : Int,
             distance : Nat]
Positions == Position \cup {Flat}

\* A position has a direction.
LEMMA PositionFacts ==
  ASSUME NEW pos \in Position
  PROVE  /\ pos # Flat
         /\ pos.dir \in {1, -1} /\ pos.at \in Nat /\ pos.distance \in Nat
         /\ pos.price \in Int /\ pos.sl \in Int /\ pos.tp \in Int /\ pos.trail \in Int
BY DEF Position, Flat

\* Prices of a bar, from either side.
LEMMA BarFacts ==
  ASSUME NEW bar \in Bars, NEW side \in {1, -1}
  PROVE  /\ Best(bar, side) \in Int /\ Worst(bar, side) \in Int
         /\ Entry(bar, side) \in Int /\ Current(bar, side) \in Int
         /\ bar.atr \in Nat
         /\ Costed(bar) => Cost(bar) \in Int
BY BarsAssumption, CostsAssumption DEF Best, Worst, Entry, Current, Costed, Cost

\* Distances of the levels from the price.
LEMMA DistanceFacts ==
  ASSUME strategy \in Strategies, NEW bar \in Bars
  PROVE  /\ StopDistance(bar, strategy.sl.value) \in Nat
         /\ TakeDistance(bar, StopDistance(bar, strategy.sl.value)) \in Nat
         /\ TrailingDistance(bar) \in Nat
<1>1. /\ strategy.sl.value \in Nat /\ strategy.tp.value \in Nat /\ strategy.trailing.value \in Nat
      /\ bar.atr \in Nat
  BY StrategiesAssumption, BarsAssumption
<1>2. /\ bar.atr * strategy.sl.value \in Nat
      /\ bar.atr * strategy.tp.value \in Nat
      /\ bar.atr * strategy.trailing.value \in Nat
  BY <1>1
<1>3. StopDistance(bar, strategy.sl.value) \in Nat
  BY <1>1, <1>2 DEF StopDistance
<1>4. StopDistance(bar, strategy.sl.value) * strategy.tp.value \in Nat
  BY <1>1, <1>3
<1>5. TakeDistance(bar, StopDistance(bar, strategy.sl.value)) \in Nat
  BY <1>1, <1>2, <1>4 DEF TakeDistance, Far
<1>6. TrailingDistance(bar) \in Nat
  BY <1>1, <1>2 DEF TrailingDistance
<1>7. QED BY <1>3, <1>5, <1>6

\* What is opened is a position at its bar.
LEMMA OpenedFacts ==
  ASSUME NEW n \in Nat, NEW side \in {1, -1}, NEW price \in Int, NEW stop \in Nat,
         NEW take \in Nat, NEW trail \in Nat, NEW bar
  PROVE  /\ Opened(bar, n, side, price, stop, take, trail) \in Position
         /\ Opened(bar, n, side, price, stop, take, trail).at = n
BY DEF Opened, Position, Far

\* Trailing leaves all but the trailing level, which it does not lower.
LEMMA TrailedFacts ==
  ASSUME NEW bar \in Bars, NEW pos \in Position
  PROVE  /\ Trailed(pos, bar) \in Position
         /\ Trailed(pos, bar).at = pos.at /\ Trailed(pos, bar).dir = pos.dir
         /\ Trailed(pos, bar).sl = pos.sl /\ Trailed(pos, bar).tp = pos.tp
         /\ Trailed(pos, bar).trail >= pos.trail
<1> DEFINE level == Best(bar, pos.dir) - pos.distance
<1>1. level \in Int /\ pos.trail \in Int /\ pos # Flat
  BY PositionFacts, BarFacts
<1> HIDE DEF level
<1>2. CASE pos.distance = 0 \/ ~(level > pos.trail)
  <2>1. Trailed(pos, bar) = pos
    BY <1>1, <1>2 DEF Trailed, level
  <2>2. QED BY <1>1, <2>1
<1>3. CASE pos.distance # 0 /\ level > pos.trail
  <2>1. Trailed(pos, bar) = [pos EXCEPT !.trail = level]
    BY <1>1, <1>3 DEF Trailed, level
  <2>2. /\ [pos EXCEPT !.trail = level] \in Position
        /\ [pos EXCEPT !.trail = level].trail = level
        /\ [pos EXCEPT !.trail = level].at = pos.at
        /\ [pos EXCEPT !.trail = level].dir = pos.dir
        /\ [pos EXCEPT !.trail = level].sl = pos.sl
        /\ [pos EXCEPT !.trail = level].tp = pos.tp
    BY <1>1 DEF Position
  <2>3. QED BY <1>1, <1>3, <2>1, <2>2
<1>4. QED BY <1>2, <1>3

\* A signal has a direction, or is none.
LEMMA SignalFacts ==
  ASSUME NEW bar, NEW prev
  PROVE  EngineSignal(prev, bar) \in {0, 1, -1}
<1>1. \A firing : Fired(firing) \in {0, 1, -1}
  BY DEF Fired
<1>2. QED BY <1>1 DEF EngineSignal

----------------------------------------------------------------------------
(* One bar of the engine.                                                  *)

EngineFields == {"next", "first", "pos", "closed", "count", "prev", "peak", "equity"}

EngineTyped ==
  /\ strategy \in Strategies /\ data \in Seq(Bars) /\ Len(data) <= Length
  /\ DOMAIN eng = EngineFields
  /\ eng.next \in 0 .. Length /\ eng.closed \in Int /\ eng.pos \in Positions
  /\ ledger \in Seq(Trades)

\* The position of e is the one the engine has, on the same levels or with a higher
\* trailing one.
Keeps(e) ==
  /\ e.pos \in Position /\ e.pos.at = eng.pos.at /\ e.pos.dir = eng.pos.dir
  /\ e.pos.sl = eng.pos.sl /\ e.pos.tp = eng.pos.tp /\ e.pos.trail >= eng.pos.trail

LEMMA ExitedFacts ==
  ASSUME EngineTyped, NEW n \in Nat, NEW bar, NEW reason
  PROVE  LET x == Exited(eng, bar, n, reason)
         IN  /\ reason = "none" => x = eng
             /\ reason # "none" =>
                  /\ DOMAIN x = EngineFields /\ x.pos = Flat /\ x.count = eng.count + 1
                  /\ x.closed = eng.closed + Current(bar, eng.pos.dir) - Cost(bar) - eng.pos.price
BY DEF Exited, EngineTyped, EngineFields

\* Recording a point of the equity curve changes neither position nor books.
LEMMA RecordedFacts ==
  ASSUME NEW n \in Nat, NEW bar, NEW e, DOMAIN e = EngineFields
  PROVE  LET r == Recorded(e, bar, n)
         IN  /\ DOMAIN r = EngineFields /\ r.pos = e.pos /\ r.next = e.next
             /\ r.count = e.count /\ r.closed = e.closed
BY DEF Recorded, EngineFields

LEMMA EvaluatedFacts ==
  ASSUME EngineTyped, NEW bar \in Bars, ~FillFails(eng, bar, eng.next)
  PROVE  LET e == Evaluated(eng, bar, eng.next)
             reason == ReasonOn(eng, bar)
         IN  /\ DOMAIN e = EngineFields /\ e.next = eng.next + 1
             /\ reason = "none" => e.count = eng.count /\ e.closed = eng.closed
             /\ reason # "none" =>
                  /\ eng.pos \in Position /\ Costed(bar) /\ e.count = eng.count + 1
                  /\ e.closed = eng.closed + Current(bar, eng.pos.dir) - Cost(bar) - eng.pos.price
             /\ \/ e.pos = Flat
                \/ e.pos \in Position /\ e.pos.at = eng.next
                \/ eng.pos \in Position /\ reason = "none" /\ Keeps(e)
<1> DEFINE n == eng.next
           reason == ReasonOn(eng, bar)
           x == Exited(eng, bar, n, reason)
           t == [x EXCEPT !.pos = Trailed(@, bar)]
           m == IF MayEnter(bar, n) THEN Entered(t, bar, n) ELSE t
           r == Recorded(m, bar, n)
<1>1. n \in Nat /\ DOMAIN eng = EngineFields /\ eng.pos \in Positions /\ strategy \in Strategies
  BY BoundsOfRunAssumption DEF EngineTyped
<1>2. reason # "none" => eng.pos \in Position /\ Costed(bar)
  BY <1>1 DEF ReasonOn, Positions, FillFails
<1>3. /\ DOMAIN x = EngineFields
      /\ reason = "none" => x = eng
      /\ reason # "none" => /\ x.pos = Flat /\ x.count = eng.count + 1
                            /\ x.closed = eng.closed + Current(bar, eng.pos.dir) - Cost(bar)
                                           - eng.pos.price
  BY <1>1, ExitedFacts
<1>4. Trailed(Flat, bar) = Flat
  BY DEF Trailed
<1> HIDE DEF reason, x
<1>5. /\ DOMAIN t = EngineFields /\ t.pos = Trailed(x.pos, bar)
      /\ t.count = x.count /\ t.closed = x.closed /\ t.prev = x.prev
  BY <1>3 DEF EngineFields
<1> HIDE DEF t
<1>6. t.pos = Flat \/ (eng.pos \in Position /\ reason = "none" /\ Keeps(t))
  <2>1. CASE reason = "none" /\ eng.pos \in Position
    BY <1>3, <1>5, <2>1, TrailedFacts DEF Keeps
  <2>2. CASE reason = "none" /\ eng.pos = Flat
    BY <1>3, <1>4, <1>5, <2>2
  <2>3. CASE reason # "none"
    BY <1>3, <1>4, <1>5, <2>3
  <2>4. QED BY <1>1, <2>1, <2>2, <2>3 DEF Positions
<1>7. /\ DOMAIN m = EngineFields /\ m.count = t.count /\ m.closed = t.closed
      /\ m.pos = Flat \/ m.pos = t.pos \/ (m.pos \in Position /\ m.pos.at = n)
  <2>1. CASE m = t
    BY <1>5, <2>1
  <2>2. CASE MayEnter(bar, n) /\ t.pos = Flat
    <3> DEFINE side == EngineSignal(t.prev, bar)
               price == Entry(bar, side) + Cost(bar)
               stop == StopDistance(bar, strategy.sl.value)
               pos == Opened(bar, n, side, price, stop, TakeDistance(bar, stop),
                             TrailingDistance(bar))
               next == NextPrev(t.prev, bar)
    <3>1. m = [t EXCEPT !.prev = next, !.pos = IF side = 0 THEN Flat ELSE pos]
      BY <2>2 DEF Entered
    <3>2. side # 0 => Costed(bar)
      <4>1. SUFFICES ASSUME side # 0, ~Costed(bar) PROVE FALSE
        OBVIOUS
      <4>2. reason = "none" /\ x = eng
        BY <1>2, <1>3, <4>1
      <4>3. eng.pos = Flat
        <5>1. t.pos \notin Position
          BY <2>2, PositionFacts
        <5>2. CASE eng.pos \in Position
          BY <1>5, <4>2, <5>1, <5>2, TrailedFacts
        <5>3. QED BY <1>1, <5>2 DEF Positions
      <4>4. QED BY <1>5, <2>2, <4>1, <4>2, <4>3 DEF FillFails
    <3>3. side # 0 => pos \in Position /\ pos.at = n
      <4>1. SUFFICES ASSUME side # 0 PROVE pos \in Position /\ pos.at = n
        OBVIOUS
      <4>2. side \in {1, -1}
        BY <4>1, SignalFacts
      <4>3. price \in Int
        BY <3>2, <4>1, <4>2, BarFacts
      <4>4. /\ stop \in Nat /\ TakeDistance(bar, stop) \in Nat /\ TrailingDistance(bar) \in Nat
        BY <1>1, DistanceFacts
      <4> HIDE DEF side, price, stop
      <4>5. QED BY SMTT(30), <1>1, <4>2, <4>3, <4>4, OpenedFacts
    <3> HIDE DEF side, pos, next
    <3>4. /\ DOMAIN m = EngineFields /\ m.count = t.count /\ m.closed = t.closed
          /\ m.pos = IF side = 0 THEN Flat ELSE pos
      BY <1>5, <3>1 DEF EngineFields
    <3>5. QED BY <3>3, <3>4
  <2>3. QED BY <2>1, <2>2 DEF Entered
<1> HIDE DEF m
<1>8. /\ DOMAIN r = EngineFields /\ r.pos = m.pos /\ r.count = m.count /\ r.closed = m.closed
  BY <1>1, <1>7, RecordedFacts
<1> HIDE DEF r
<1> DEFINE e == [r EXCEPT !.next = n + 1]
<1>9. /\ DOMAIN e = EngineFields /\ e.next = n + 1 /\ e.pos = m.pos
      /\ e.count = m.count /\ e.closed = m.closed
  BY <1>8 DEF EngineFields
<1>10. Evaluated(eng, bar, eng.next) = e
  BY DEF Evaluated, r, m, t, x, reason
<1> HIDE DEF e, n
<1>11. /\ reason = "none" => e.count = eng.count /\ e.closed = eng.closed
       /\ reason # "none" =>
            /\ e.count = eng.count + 1
            /\ e.closed = eng.closed + Current(bar, eng.pos.dir) - Cost(bar) - eng.pos.price
  BY <1>3, <1>5, <1>7, <1>9
<1>12. \/ e.pos = Flat
       \/ e.pos \in Position /\ e.pos.at = n
       \/ eng.pos \in Position /\ reason = "none" /\ Keeps(e)
  BY <1>6, <1>7, <1>9 DEF Keeps
<1>13. QED BY <1>2, <1>9, <1>10, <1>11, <1>12 DEF n, reason

----------------------------------------------------------------------------
(* The inductive invariant.                                                *)

\* A sum of money, the next bar and a position belong to the trades l.
BooksOf(l, closed, next, pos) ==
  /\ closed = Sum(l)
  /\ \A k \in 1 .. Len(l) : l[k].entry <= l[k].exit /\ l[k].exit < next
  /\ \A k \in 2 .. Len(l) : l[k].entry >= l[k - 1].exit
  /\ pos # Flat => pos.at < next /\ (Len(l) > 0 => pos.at >= l[Len(l)].exit)

EngineBooks ==
  /\ eng.count = Len(ledger)
  /\ BooksOf(ledger, eng.closed, eng.next, eng.pos)

\* The checkpoint stands for a prefix of the trades.
CheckpointBooks ==
  /\ DOMAIN ckpt = {"last", "pos", "closed", "count"}
  /\ ckpt.last \in 0 .. Length - 1 /\ ckpt.closed \in Int /\ ckpt.pos \in Positions
  /\ ckpt.count \in 0 .. Len(ledger)
  /\ BooksOf(SubSeq(ledger, 1, ckpt.count), ckpt.closed, ckpt.last + 1, ckpt.pos)

\* It is behind the engine, or of the same bar with the same position.
CheckpointBehind ==
  \/ ckpt.last < eng.next /\ (ckpt.last + 1 = eng.next => ckpt.pos = eng.pos)
  \/ status = "down" /\ ckpt.last = eng.next /\ ckpt.pos = eng.pos

EngineInv ==
  /\ EngineTyped /\ EngineBooks
  /\ ckpt # NoCheckpoint =>
       CheckpointBooks /\ (status \in {"running", "down"} => CheckpointBehind)

LEMMA EmptyBooks == BooksOf(<<>>, 0, 0, Flat)
BY EmptySum DEF BooksOf

\* Books stay those of the trades while the next bar moves on; a position that is kept
\* or opened after the trades belongs to them.
LEMMA BooksGoOn ==
  ASSUME NEW n \in Nat, NEW l \in Seq(Trades), NEW old \in Positions, NEW pos \in Positions,
         NEW m \in Nat, n <= m, NEW closed \in Int, BooksOf(l, closed, n, old),
         \/ pos = Flat
         \/ pos \in Position /\ pos.at + 1 = m
         \/ old \in Position /\ pos.at = old.at
  PROVE  BooksOf(l, closed, m, pos)
<1>1. /\ closed = Sum(l)
      /\ \A k \in 1 .. Len(l) : l[k].entry <= l[k].exit /\ l[k].exit < n
      /\ \A k \in 2 .. Len(l) : l[k].entry >= l[k - 1].exit
      /\ old # Flat => old.at < n /\ (Len(l) > 0 => old.at >= l[Len(l)].exit)
  BY DEF BooksOf
<1>2. ASSUME NEW k \in 1 .. Len(l) PROVE l[k].exit \in Nat /\ l[k].entry \in Nat
  <2>1. l[k] \in Trades
    OBVIOUS
  <2>2. QED BY <2>1 DEF Trades
<1>3. \A k \in 1 .. Len(l) : l[k].entry <= l[k].exit /\ l[k].exit < m
  BY <1>1, <1>2
<1>4. ASSUME pos # Flat
      PROVE  pos.at < m /\ (Len(l) > 0 => pos.at >= l[Len(l)].exit)
  <2>1. Len(l) > 0 => Len(l) \in 1 .. Len(l)
    OBVIOUS
  <2>2. CASE pos \in Position /\ pos.at + 1 = m
    BY SMTT(30), <1>1, <1>2, <2>1, <2>2, PositionFacts
  <2>3. CASE old \in Position /\ pos.at = old.at
    <3>1. old # Flat /\ old.at \in Nat
      BY <2>3, PositionFacts
    <3>2. QED BY <1>1, <1>2, <2>1, <2>3, <3>1
  <2>4. QED BY <1>4, <2>2, <2>3
<1>5. QED BY <1>1, <1>3, <1>4 DEF BooksOf

\* A trade made of the open position is one more, after the others.
LEMMA BooksOfTrade ==
  ASSUME NEW n \in Nat, NEW l \in Seq(Trades), NEW old \in Position, NEW t \in Trades,
         NEW exit \in Nat, NEW closed \in Int, BooksOf(l, closed, n, old),
         t.entry = old.at, t.exit = exit, exit < n, old.at <= exit
  PROVE  BooksOf(Append(l, t), closed + t.pnl, n, Flat)
<1>1. /\ closed = Sum(l)
      /\ \A k \in 1 .. Len(l) : l[k].entry <= l[k].exit /\ l[k].exit < n
      /\ \A k \in 2 .. Len(l) : l[k].entry >= l[k - 1].exit
      /\ Len(l) > 0 => old.at >= l[Len(l)].exit
  BY PositionFacts DEF BooksOf
<1> DEFINE u == Append(l, t)
<1>2. /\ Len(u) = Len(l) + 1 /\ u[Len(l) + 1] = t /\ Len(l) \in Nat
      /\ \A k \in 1 .. Len(l) : u[k] = l[k]
  OBVIOUS
<1>3. closed + t.pnl = Sum(u)
  BY <1>1, SumFacts
<1> HIDE DEF u
<1>4. ASSUME NEW k \in 1 .. Len(u) PROVE u[k].entry <= u[k].exit /\ u[k].exit < n
  <2>1. CASE k = Len(l) + 1
    BY <1>2, <2>1, PositionFacts
  <2>2. CASE k # Len(l) + 1
    <3>1. k \in 1 .. Len(l)
      BY <1>2, <2>2
    <3>2. QED BY <1>1, <1>2, <3>1
  <2>3. QED BY <2>1, <2>2
<1>5. ASSUME NEW k \in 2 .. Len(u) PROVE u[k].entry >= u[k - 1].exit
  <2>1. k - 1 \in 1 .. Len(l)
    BY <1>2
  <2>2. u[k - 1] = l[k - 1]
    BY <1>2, <2>1
  <2>3. CASE k = Len(l) + 1
    BY <1>1, <1>2, <2>1, <2>2, <2>3
  <2>4. CASE k # Len(l) + 1
    <3>1. k \in 2 .. Len(l) /\ k \in 1 .. Len(l)
      BY <1>2, <2>4
    <3>2. QED BY <1>1, <1>2, <2>2, <3>1
  <2>5. QED BY <2>3, <2>4
<1>6. BooksOf(u, closed + t.pnl, n, Flat)
  BY <1>3, <1>4, <1>5 DEF BooksOf
<1>7. QED BY <1>6 DEF u

\* A prefix is not changed by what is appended, nor by taking it again.
LEMMA PrefixFacts ==
  ASSUME NEW l \in Seq(Trades), NEW c \in 0 .. Len(l), NEW t \in Trades
  PROVE  /\ SubSeq(l, 1, c) \in Seq(Trades) /\ Len(SubSeq(l, 1, c)) = c
         /\ SubSeq(Append(l, t), 1, c) = SubSeq(l, 1, c)
         /\ SubSeq(SubSeq(l, 1, c), 1, c) = SubSeq(l, 1, c)
         /\ SubSeq(l, 1, Len(l)) = l
         /\ c \in 0 .. Len(Append(l, t))
  OBVIOUS

\* Every reason to exit is one a trade may have.
LEMMA ReasonFacts ==
  ASSUME NEW bar
  PROVE  ReasonOn(eng, bar) \in {"none", "StopLoss", "TakeProfit", "TrailingStop"}
BY DEF ReasonOn, ExitReason

\* The trade made of a position.
LEMMA TradeFacts ==
  ASSUME NEW bar \in Bars, Costed(bar), NEW pos \in Position, NEW n \in Nat,
         NEW reason \in {"StopLoss", "TakeProfit", "TrailingStop", "EndOfData"}
  PROVE  LET t == Trade(pos, bar, n, reason, Current(bar, pos.dir) - Cost(bar))
         IN  /\ t \in Trades /\ t.entry = pos.at /\ t.exit = n
             /\ t.pnl = Current(bar, pos.dir) - Cost(bar) - pos.price
<1>1. /\ Current(bar, pos.dir) \in Int /\ Cost(bar) \in Int /\ pos.price \in Int
      /\ pos.at \in Nat /\ pos.dir \in {1, -1}
  BY PositionFacts, BarFacts
<1>2. QED BY <1>1 DEF Trade, Trades

\* A checkpoint that stays keeps its trades when one is appended.
LEMMA CheckpointKept ==
  ASSUME EngineInv, ckpt # NoCheckpoint, ckpt' = ckpt, NEW t \in Trades,
         ledger' = ledger \/ ledger' = Append(ledger, t)
  PROVE  CheckpointBooks'
<1>1. ledger \in Seq(Trades) /\ CheckpointBooks
  BY DEF EngineInv, EngineTyped
<1>2. /\ ckpt.count \in 0 .. Len(ledger')
      /\ SubSeq(ledger', 1, ckpt.count) = SubSeq(ledger, 1, ckpt.count)
  <2>1. ckpt.count \in 0 .. Len(ledger)
    BY <1>1 DEF CheckpointBooks
  <2>2. CASE ledger' = ledger
    BY <2>1, <2>2
  <2>3. CASE ledger' = Append(ledger, t)
    <3>1. /\ SubSeq(Append(ledger, t), 1, ckpt.count) = SubSeq(ledger, 1, ckpt.count)
          /\ ckpt.count \in 0 .. Len(Append(ledger, t))
      BY <1>1, <2>1, PrefixFacts
    <3>2. QED BY <2>3, <3>1
  <2>4. QED BY <2>2, <2>3
<1>3. QED BY <1>1, <1>2 DEF CheckpointBooks

\* The checkpoint of the engine's own books.
LEMMA CheckpointMade ==
  ASSUME EngineTyped', EngineBooks', NEW last \in 0 .. Length - 1,
         ckpt' = [last |-> last, pos |-> eng'.pos, closed |-> eng'.closed, count |-> eng'.count],
         last + 1 = eng'.next \/ last = eng'.next
  PROVE  CheckpointBooks' /\ ckpt'.last = last /\ ckpt'.pos = eng'.pos
<1>1. /\ ledger' \in Seq(Trades) /\ eng'.closed \in Int /\ eng'.pos \in Positions
      /\ eng'.next \in Nat
  BY BoundsOfRunAssumption DEF EngineTyped
<1>2. eng'.count = Len(ledger') /\ BooksOf(ledger', eng'.closed, eng'.next, eng'.pos)
  BY DEF EngineBooks
<1>3. /\ DOMAIN ckpt' = {"last", "pos", "closed", "count"}
      /\ ckpt'.last = last /\ ckpt'.pos = eng'.pos
      /\ ckpt'.closed = eng'.closed /\ ckpt'.count = eng'.count
  OBVIOUS
<1>4. SubSeq(ledger', 1, Len(ledger')) = ledger' /\ Len(ledger') \in 0 .. Len(ledger')
  BY <1>1
<1>5. BooksOf(ledger', eng'.closed, last + 1, eng'.pos)
  <2>1. last + 1 \in Nat /\ eng'.next <= last + 1
    BY <1>1, BoundsOfRunAssumption
  <2>2. eng'.pos = Flat \/ eng'.pos \in Position
    BY <1>1 DEF Positions
  <2>3. QED BY <1>1, <1>2, <2>1, <2>2, BooksGoOn
<1>6. QED BY <1>1, <1>2, <1>3, <1>4, <1>5 DEF CheckpointBooks

----------------------------------------------------------------------------
(* Every step keeps the invariant.                                         *)

LEMMA EngineInit0 == EngineInit => EngineInv
<1> SUFFICES ASSUME EngineInit PROVE EngineInv
  OBVIOUS
<1>1. /\ DOMAIN eng = EngineFields /\ eng.next = 0 /\ eng.closed = 0 /\ eng.count = 0
      /\ eng.pos = Flat /\ ledger = <<>> /\ ckpt = NoCheckpoint
      /\ strategy \in Strategies /\ data = <<>>
  BY DEF EngineInit, Fresh, EngineFields
<1>2. EngineTyped
  BY <1>1, BoundsOfRunAssumption DEF EngineTyped, Positions
<1>3. EngineBooks
  BY <1>1, EmptyBooks DEF EngineBooks
<1>4. QED BY <1>1, <1>2, <1>3 DEF EngineInv

\* The engine evaluates a bar.
LEMMA BarStep ==
  ASSUME EngineInv, EngineBar
  PROVE  /\ EngineInv'
         /\ eng' = eng \/ eng'.pos = Flat \/ eng'.pos.at = eng.next
            \/ (eng.pos \in Position /\ Keeps(eng'))
<1> DEFINE n == eng.next
           bar == data[n + 1]
           reason == ReasonOn(eng, bar)
<1>1. /\ EngineTyped /\ EngineBooks /\ status = "running" /\ n < Len(data)
      /\ UNCHANGED <<strategy, data>>
      /\ ckpt # NoCheckpoint => CheckpointBooks /\ CheckpointBehind
  BY DEF EngineInv, EngineBar
<1>2. /\ bar \in Bars /\ n \in Nat /\ n \in 0 .. Length - 1 /\ n + 1 \in 0 .. Length
      /\ n + 1 \in Nat /\ n < n + 1 /\ n <= n + 1
  BY SMTT(30), <1>1, BoundsOfRunAssumption DEF EngineTyped
<1>3. CASE FillFails(eng, bar, n)
  <2>1. status' = "failed" /\ UNCHANGED <<eng, ckpt, ledger>>
    BY <1>3 DEF EngineBar
  <2>2. QED BY <1>1, <2>1 DEF EngineInv, EngineTyped, EngineBooks, CheckpointBooks
<1>4. CASE ~FillFails(eng, bar, n)
  <2>1. /\ eng' = Evaluated(eng, bar, n) /\ status' = status
        /\ ckpt' = IF CheckpointDue(eng, bar, n) THEN CheckpointOf(eng', n) ELSE ckpt
        /\ ledger' = IF reason = "none" THEN ledger
                     ELSE Append(ledger, Trade(eng.pos, bar, n, reason,
                                               Current(bar, eng.pos.dir) - Cost(bar)))
    BY <1>4 DEF EngineBar
  <2>2. /\ DOMAIN eng' = EngineFields /\ eng'.next = n + 1
        /\ reason = "none" => eng'.count = eng.count /\ eng'.closed = eng.closed
        /\ reason # "none" =>
             /\ eng.pos \in Position /\ Costed(bar) /\ eng'.count = eng.count + 1
             /\ eng'.closed = eng.closed + Current(bar, eng.pos.dir) - Cost(bar) - eng.pos.price
        /\ \/ eng'.pos = Flat
           \/ eng'.pos \in Position /\ eng'.pos.at = n
           \/ eng.pos \in Position /\ reason = "none" /\ Keeps(eng')
    BY <1>1, <1>2, <1>4, <2>1, EvaluatedFacts
  <2> HIDE DEF reason, bar
  <2>3. /\ eng.closed \in Int /\ eng.pos \in Positions /\ ledger \in Seq(Trades)
        /\ eng'.pos \in Positions
        /\ eng.count = Len(ledger) /\ BooksOf(ledger, eng.closed, n, eng.pos)
    BY <1>1, <2>2 DEF EngineTyped, EngineBooks, Positions, Keeps
  <2>4. \E t \in Trades :
          /\ ledger' = ledger \/ ledger' = Append(ledger, t)
          /\ EngineTyped' /\ EngineBooks'
    <3>1. CASE reason = "none"
      <4>1. BooksOf(ledger, eng.closed, n + 1, eng'.pos)
        <5>1. \/ eng'.pos = Flat
              \/ eng'.pos \in Position /\ eng'.pos.at + 1 = n + 1
              \/ eng.pos \in Position /\ eng'.pos.at = eng.pos.at
          BY <2>2 DEF Keeps
        <5>2. QED BY <1>2, <2>3, <5>1, BooksGoOn
      <4>2. EngineTyped' /\ EngineBooks'
        BY <1>1, <1>2, <2>1, <2>2, <2>3, <3>1, <4>1 DEF EngineTyped, EngineBooks
      <4>3. Trades # {}
        <5>1. [dir |-> 1, entry |-> 0, exit |-> 0, reason |-> "StopLoss", pnl |-> 0] \in Trades
          BY DEF Trades
        <5>2. QED BY <5>1
      <4>4. QED BY <2>1, <3>1, <4>2, <4>3
    <3>2. CASE reason # "none"
      <4> DEFINE t == Trade(eng.pos, bar, n, reason, Current(bar, eng.pos.dir) - Cost(bar))
      <4>1. eng.pos \in Position /\ Costed(bar)
        BY <2>2, <3>2
      <4>2. reason \in {"StopLoss", "TakeProfit", "TrailingStop", "EndOfData"}
        BY <3>2, ReasonFacts DEF reason
      <4>3. /\ t \in Trades /\ t.entry = eng.pos.at /\ t.exit = n
            /\ t.pnl = Current(bar, eng.pos.dir) - Cost(bar) - eng.pos.price
        BY <1>2, <4>1, <4>2, TradeFacts DEF bar
      <4> HIDE DEF t
      <4>4. /\ Current(bar, eng.pos.dir) \in Int /\ Cost(bar) \in Int /\ eng.pos.price \in Int
            /\ eng.pos.at \in Nat
        BY <1>2, <4>1, BarFacts, PositionFacts DEF bar
      <4>5. eng'.closed = eng.closed + t.pnl /\ eng'.closed \in Int
        BY <2>2, <2>3, <3>2, <4>3, <4>4
      <4>6. ledger' = Append(ledger, t)
        BY <2>1, <3>2 DEF t
      <4>7. BooksOf(ledger, eng.closed, n + 1, eng.pos)
        BY <1>2, <2>3, <4>1, BooksGoOn
      <4>8. eng.pos.at <= n
        BY <1>2, <2>3, <4>1, <4>4, PositionFacts DEF BooksOf
      <4>9. BooksOf(ledger', eng'.closed, n + 1, Flat)
        BY <1>2, <2>3, <4>1, <4>3, <4>5, <4>6, <4>7, <4>8, BooksOfTrade
      <4>10. ledger' \in Seq(Trades) /\ Len(ledger') = Len(ledger) + 1
        BY <2>3, <4>3, <4>6
      <4>11. BooksOf(ledger', eng'.closed, n + 1, eng'.pos)
        <5>1. \/ eng'.pos = Flat
              \/ eng'.pos \in Position /\ eng'.pos.at + 1 = n + 1
          BY <2>2, <3>2
        <5>2. Flat \in Positions
          BY DEF Positions
        <5>3. QED BY <1>2, <2>3, <4>5, <4>9, <4>10, <5>1, <5>2, BooksGoOn
      <4>12. EngineTyped' /\ EngineBooks'
        BY <1>1, <1>2, <2>1, <2>2, <2>3, <3>2, <4>5, <4>10, <4>11 DEF EngineTyped, EngineBooks
      <4>13. QED BY <4>3, <4>6, <4>12
    <3>3. QED BY <3>1, <3>2
  <2>5. PICK t \in Trades : /\ ledger' = ledger \/ ledger' = Append(ledger, t)
                           /\ EngineTyped' /\ EngineBooks'
    BY <2>4
  <2>6. ckpt' # NoCheckpoint => CheckpointBooks' /\ CheckpointBehind'
    <3>1. CASE CheckpointDue(eng, bar, n)
      <4>1. ckpt' = [last |-> n, pos |-> eng'.pos, closed |-> eng'.closed, count |-> eng'.count]
        BY <2>1, <3>1 DEF CheckpointOf
      <4>2. CheckpointBooks' /\ ckpt'.last = n /\ ckpt'.pos = eng'.pos
        BY <1>2, <2>2, <2>5, <4>1, CheckpointMade
      <4>3. QED BY <1>2, <2>2, <4>2 DEF CheckpointBehind
    <3>2. CASE ~CheckpointDue(eng, bar, n)
      <4>1. ckpt' = ckpt
        BY <2>1, <3>2
      <4>2. CASE ckpt # NoCheckpoint
        <5>1. CheckpointBooks'
          BY <2>5, <4>1, <4>2, CheckpointKept
        <5>2. ckpt.last < n /\ ckpt.last \in Nat
          BY <1>1, <4>2, BoundsOfRunAssumption DEF CheckpointBehind, CheckpointBooks
        <5>3. CheckpointBehind'
          BY <1>2, <2>2, <4>1, <5>2 DEF CheckpointBehind
        <5>4. QED BY <5>1, <5>3
      <4>3. QED BY <4>1, <4>2
    <3>3. QED BY <3>1, <3>2
  <2>7. QED BY <2>2, <2>5, <2>6 DEF EngineInv
<1>5. QED BY <1>3, <1>4

\* The engine closes its position at the end of the data.
LEMMA EndStep ==
  ASSUME EngineInv, EndEngine
  PROVE  EngineInv' /\ (eng' = eng \/ eng'.pos = Flat)
<1> DEFINE bar == Last(data)
           n == Length - 1
<1>1. /\ EngineTyped /\ EngineBooks /\ eng.next = Length /\ Len(data) = Length
      /\ UNCHANGED <<strategy, data, ckpt>> /\ status' \in {"done", "failed"}
      /\ ckpt # NoCheckpoint => CheckpointBooks
  BY BoundsOfRunAssumption DEF EngineInv, EngineTyped, EndEngine
<1>2. /\ bar \in Bars /\ n \in Nat /\ Length \in Nat /\ n < Length
  BY <1>1, BoundsOfRunAssumption DEF EngineTyped, Last
<1>3. CASE UNCHANGED <<eng, ledger>>
  BY <1>1, <1>3 DEF EngineInv, EngineTyped, EngineBooks, CheckpointBooks
<1>4. CASE ~UNCHANGED <<eng, ledger>>
  <2> DEFINE t == Trade(eng.pos, bar, n, "EndOfData", Current(bar, eng.pos.dir) - Cost(bar))
             x == Exited(eng, bar, n, "EndOfData")
  <2>1. /\ eng.pos # Flat /\ Costed(bar)
        /\ eng' = Recorded(x, bar, n) /\ ledger' = Append(ledger, t)
    BY <1>4 DEF EndEngine
  <2>2. eng.pos \in Position
    BY <1>1, <2>1 DEF EngineTyped, Positions
  <2>3. /\ DOMAIN x = EngineFields /\ x.pos = Flat /\ x.count = eng.count + 1
        /\ x.closed = eng.closed + Current(bar, eng.pos.dir) - Cost(bar) - eng.pos.price
        /\ x.next = eng.next
    BY <1>1, <1>2 DEF Exited, EngineTyped, EngineFields
  <2>4. /\ t \in Trades /\ t.entry = eng.pos.at /\ t.exit = n
        /\ t.pnl = Current(bar, eng.pos.dir) - Cost(bar) - eng.pos.price
    BY <1>2, <2>1, <2>2, TradeFacts
  <2>5. /\ Current(bar, eng.pos.dir) \in Int /\ Cost(bar) \in Int /\ eng.pos.price \in Int
        /\ eng.pos.at \in Nat
    BY <1>2, <2>1, <2>2, BarFacts, PositionFacts
  <2> HIDE DEF x, t, bar
  <2>6. /\ DOMAIN eng' = EngineFields /\ eng'.pos = Flat /\ eng'.count = eng.count + 1
        /\ eng'.closed = x.closed /\ eng'.next = eng.next
    <3>1. LET r == Recorded(x, bar, n)
          IN  /\ DOMAIN r = EngineFields /\ r.pos = x.pos /\ r.next = x.next
              /\ r.count = x.count /\ r.closed = x.closed
      BY <1>2, <2>3, RecordedFacts
    <3>2. QED BY <2>1, <2>3, <3>1
  <2>7. eng.closed \in Int /\ ledger \in Seq(Trades) /\ eng.count = Len(ledger)
        /\ BooksOf(ledger, eng.closed, Length, eng.pos)
    BY <1>1 DEF EngineTyped, EngineBooks
  <2>8. eng.pos.at <= n
    BY <1>2, <2>1, <2>5, <2>7 DEF BooksOf
  <2>9. BooksOf(ledger', eng.closed + t.pnl, Length, Flat)
    BY <1>2, <2>1, <2>2, <2>4, <2>7, <2>8, BooksOfTrade
  <2>10. /\ ledger' \in Seq(Trades) /\ Len(ledger') = Len(ledger) + 1
         /\ eng'.closed = eng.closed + t.pnl /\ eng'.closed \in Int
    BY <2>1, <2>3, <2>4, <2>5, <2>6, <2>7
  <2>11. EngineTyped' /\ EngineBooks'
    BY <1>1, <2>6, <2>7, <2>9, <2>10 DEF EngineTyped, EngineBooks, Positions
  <2>12. ckpt # NoCheckpoint => CheckpointBooks'
    BY <1>1, <2>1, <2>4, CheckpointKept
  <2>13. QED BY <1>1, <2>6, <2>11, <2>12 DEF EngineInv
<1>5. QED BY <1>3, <1>4

\* The engine is cancelled.
LEMMA CancelStep ==
  ASSUME EngineInv, Cancel
  PROVE  EngineInv' /\ eng' = eng
<1>1. /\ EngineTyped /\ EngineBooks /\ eng.next < Length /\ status' = "down"
      /\ UNCHANGED <<strategy, data, eng, ledger>>
      /\ ckpt' = [last |-> eng.next, pos |-> eng'.pos, closed |-> eng'.closed, count |-> eng'.count]
  BY DEF EngineInv, Cancel, CheckpointOf
<1>2. EngineTyped' /\ EngineBooks'
  BY <1>1 DEF EngineTyped, EngineBooks
<1>3. eng.next \in 0 .. Length - 1
  BY <1>1, BoundsOfRunAssumption DEF EngineTyped
<1>4. CheckpointBooks' /\ ckpt'.last = eng.next /\ ckpt'.pos = eng'.pos
  BY <1>1, <1>2, <1>3, CheckpointMade
<1>5. CheckpointBehind'
  BY <1>1, <1>4 DEF CheckpointBehind
<1>6. QED BY <1>1, <1>2, <1>4, <1>5 DEF EngineInv

\* A process goes on from the checkpoint, if there is one.
LEMMA ResumeStep ==
  ASSUME EngineInv, Resume
  PROVE  /\ EngineInv'
         /\ eng'.next >= eng.next => eng'.pos = Flat \/ eng'.pos = eng.pos
<1>1. /\ EngineTyped /\ EngineBooks /\ status = "down" /\ status' = "running"
      /\ UNCHANGED <<strategy, data, ckpt>>
      /\ eng' = IF ckpt = NoCheckpoint THEN Fresh(0, 0, 0, Flat) ELSE Resumed(ckpt)
      /\ ledger' = SubSeq(ledger, 1, eng'.count)
      /\ ckpt # NoCheckpoint => CheckpointBooks /\ CheckpointBehind
  BY DEF EngineInv, Resume
<1>2. ledger \in Seq(Trades) /\ Length \in Nat /\ Flat \in Positions
  BY <1>1, BoundsOfRunAssumption DEF EngineTyped, Positions
<1>3. CASE ckpt = NoCheckpoint
  <2>1. /\ DOMAIN eng' = EngineFields /\ eng'.next = 0 /\ eng'.closed = 0 /\ eng'.count = 0
        /\ eng'.pos = Flat
    BY <1>1, <1>3 DEF Fresh, EngineFields
  <2>2. ledger' = <<>>
    BY <1>1, <1>2, <2>1
  <2>3. EngineTyped'
    BY <1>1, <1>2, <2>1, <2>2 DEF EngineTyped
  <2>4. EngineBooks'
    BY <2>1, <2>2, EmptyBooks DEF EngineBooks
  <2>5. QED BY <1>1, <1>3, <2>1, <2>3, <2>4 DEF EngineInv
<1>4. CASE ckpt # NoCheckpoint
  <2>1. CheckpointBooks /\ CheckpointBehind
    BY <1>1, <1>4
  <2>2. /\ DOMAIN eng' = EngineFields /\ eng'.next = ckpt.last + 1 /\ eng'.closed = ckpt.closed
        /\ eng'.count = ckpt.count /\ eng'.pos = ckpt.pos
    BY <1>1, <1>4 DEF Resumed, Fresh, EngineFields
  <2>3. /\ ckpt.last \in 0 .. Length - 1 /\ ckpt.closed \in Int /\ ckpt.pos \in Positions
        /\ ckpt.count \in 0 .. Len(ledger)
        /\ BooksOf(SubSeq(ledger, 1, ckpt.count), ckpt.closed, ckpt.last + 1, ckpt.pos)
    BY <2>1 DEF CheckpointBooks
  <2>4. /\ ledger' = SubSeq(ledger, 1, ckpt.count)
        /\ ledger' \in Seq(Trades) /\ Len(ledger') = ckpt.count
        /\ SubSeq(ledger', 1, ckpt.count) = ledger'
    <3>1. ledger' = SubSeq(ledger, 1, ckpt.count)
      BY <1>1, <2>2
    <3>2. QED BY <1>2, <2>3, <3>1
  <2>5. EngineTyped' /\ EngineBooks'
    <3>1. eng'.next \in 0 .. Length
      BY <1>2, <2>2, <2>3
    <3>2. EngineTyped'
      BY <1>1, <2>2, <2>3, <2>4, <3>1 DEF EngineTyped
    <3>3. BooksOf(ledger', eng'.closed, eng'.next, eng'.pos)
      BY <2>2, <2>3, <2>4
    <3>4. QED BY <2>2, <2>4, <3>2, <3>3 DEF EngineBooks
  <2>6. CheckpointBooks'
    <3>1. ckpt.count \in 0 .. Len(ledger')
      BY <1>2, <2>3, <2>4
    <3>2. DOMAIN ckpt = {"last", "pos", "closed", "count"}
      BY <2>1 DEF CheckpointBooks
    <3>3. QED BY <1>1, <2>3, <2>4, <3>1, <3>2 DEF CheckpointBooks
  <2>7. CheckpointBehind'
    <3>1. ckpt'.last < eng'.next /\ ckpt'.pos = eng'.pos
      BY <1>1, <1>2, <2>2, <2>3
    <3>2. QED BY <3>1 DEF CheckpointBehind
  <2>8. eng'.next >= eng.next => eng'.pos = eng.pos
    BY <1>1, <1>2, <2>1, <2>2, <2>3 DEF CheckpointBehind, EngineTyped
  <2>9. QED BY <2>5, <2>6, <2>7, <2>8 DEF EngineInv
<1>5. QED BY <1>3, <1>4

\* What every step does to the position, behind the property of its levels.
LEMMA EngineStep ==
  ASSUME EngineInv, [EngineNext]_engine
  PROVE  /\ EngineInv'
         /\ \/ eng' = eng
            \/ eng'.pos = Flat
            \/ eng'.pos.at = eng.next
            \/ eng.pos \in Position /\ Keeps(eng')
            \/ eng'.next >= eng.next => eng'.pos = eng.pos
<1>1. CASE UNCHANGED engine
  BY <1>1 DEF engine, EngineInv, EngineTyped, EngineBooks, CheckpointBooks, CheckpointBehind
<1>2. ASSUME NEW bar \in Bars, NewBar(bar) PROVE EngineInv' /\ eng' = eng
  <2>1. /\ Len(data) < Length /\ data' = Append(data, bar)
        /\ UNCHANGED <<strategy, status, eng, ckpt, ledger>>
    BY <1>2 DEF NewBar
  <2>2. EngineTyped'
    BY <1>2, <2>1, BoundsOfRunAssumption DEF EngineInv, EngineTyped
  <2>3. QED BY <2>1, <2>2 DEF EngineInv, EngineBooks, CheckpointBooks, CheckpointBehind
<1>3. CASE EndBatch
  <2>1. UNCHANGED <<strategy, data, status, eng, ckpt, ledger>>
    BY <1>3 DEF EndBatch
  <2>2. QED BY <2>1 DEF EngineInv, EngineTyped, EngineBooks, CheckpointBooks, CheckpointBehind
<1>4. CASE EngineBar
  BY <1>4, BarStep
<1>5. CASE EndEngine
  BY <1>5, EndStep
<1>6. CASE Cancel
  BY <1>6, CancelStep
<1>7. CASE Kill
  <2>1. /\ status = "running" /\ UNCHANGED <<strategy, data, eng, ckpt, ledger>>
    BY <1>7 DEF Kill
  <2>2. QED BY <2>1 DEF EngineInv, EngineTyped, EngineBooks, CheckpointBooks, CheckpointBehind
<1>8. CASE Resume
  BY <1>8, ResumeStep
<1>9. QED BY <1>1, <1>2, <1>3, <1>4, <1>5, <1>6, <1>7, <1>8 DEF EngineNext

LEMMA EngineInvHolds == EngineSpec => []EngineInv
<1>1. EngineInv /\ [EngineNext]_engine => EngineInv'
  BY EngineStep
<1>2. QED BY EngineInit0, <1>1, PTL DEF EngineSpec

----------------------------------------------------------------------------
(* The theorems.                                                           *)

(* The counter and the sum of the engine are those of the trades it made,  *)
(* and its trades follow each other, over cancellations, kills and         *)
(* resumptions from a checkpoint (engine.rs, run_backtest).                *)
THEOREM BooksAreOfTrades == EngineSpec => []BooksBalance
<1>1. EngineInv => BooksBalance
  <2> SUFFICES ASSUME EngineInv PROVE BooksBalance
    OBVIOUS
  <2>1. /\ eng.count = Len(ledger) /\ BooksOf(ledger, eng.closed, eng.next, eng.pos)
        /\ ledger \in Seq(Trades)
    BY DEF EngineInv, EngineBooks, EngineTyped
  <2>2. \A k \in DOMAIN ledger : ledger[k].exit >= ledger[k].entry
    <3>1. SUFFICES ASSUME NEW k \in 1 .. Len(ledger)
                   PROVE  ledger[k].exit >= ledger[k].entry
      BY <2>1
    <3>2. ledger[k] \in Trades
      BY <2>1
    <3>3. ledger[k].entry <= ledger[k].exit
      BY <2>1 DEF BooksOf
    <3>4. QED BY <3>2, <3>3 DEF Trades
  <2>3. eng.pos # Flat /\ ledger # <<>> => eng.pos.at >= Last(ledger).exit
    <3>1. ledger # <<>> => Len(ledger) > 0
      BY <2>1
    <3>2. QED BY <2>1, <3>1 DEF BooksOf, Last
  <2>4. QED BY <2>1, <2>2, <2>3 DEF BooksOf, BooksBalance
<1>2. QED BY <1>1, EngineInvHolds, PTL

(* While a position is open its stop and its target stay and its trailing  *)
(* stop moves in its favour only, over bars and over resumptions that did  *)
(* not go back (position.rs, check_exit_conditions and update_trailing).   *)
THEOREM LevelsTighten == EngineSpec => LevelsOnlyTighten
<1>1. ASSUME EngineInv, [EngineNext]_engine
      PROVE  [/\ eng.pos # Flat /\ eng'.pos # Flat /\ eng'.pos.at = eng.pos.at
              /\ eng'.next >= eng.next /\ eng'.pos.dir = eng.pos.dir
              => /\ eng'.pos.sl = eng.pos.sl /\ eng'.pos.tp = eng.pos.tp
                 /\ eng'.pos.trail >= eng.pos.trail]_eng
  <2>1. SUFFICES ASSUME eng.pos # Flat, eng'.pos # Flat, eng'.pos.at = eng.pos.at,
                        eng'.next >= eng.next, eng' # eng
                 PROVE  /\ eng'.pos.sl = eng.pos.sl /\ eng'.pos.tp = eng.pos.tp
                        /\ eng'.pos.trail >= eng.pos.trail
    OBVIOUS
  <2>2. eng.pos \in Position /\ eng.pos.at < eng.next /\ eng.next \in Nat
    BY <1>1, <2>1, BoundsOfRunAssumption
       DEF EngineInv, EngineTyped, EngineBooks, BooksOf, Positions
  <2>3. eng.pos.trail \in Int /\ eng.pos.at \in Nat
    BY <2>2, PositionFacts
  <2>4. \/ eng.pos \in Position /\ Keeps(eng')
        \/ eng'.pos = eng.pos
    BY <1>1, <2>1, <2>2, <2>3, EngineStep
  <2>5. QED BY <2>3, <2>4 DEF Keeps
<1>2. QED BY <1>1, EngineInvHolds, PTL DEF EngineSpec, LevelsOnlyTighten

----------------------------------------------------------------------------
(* The engine and the batch evaluator agree: the inductive invariant.      *)

\* The batch evaluator b: what it is made of.
BatFields == {"pos", "best", "active", "idle", "prev", "books", "done"}
Books == [trades : Seq(Trades), cum : Int, peak : Int, maxdd : Int]

IsBatch(b) ==
  /\ DOMAIN b = BatFields
  /\ b.pos \in [Ids -> Positions] /\ b.best \in [Ids -> Int] /\ b.books \in [Ids -> Books]

\* Candidates are in one of two lists, once.
Once(s) == \A j, k \in DOMAIN s : s[j] = s[k] => j = k
Parted(active, idle) ==
  /\ active \in Seq(Ids) /\ idle \in Seq(Ids) /\ Once(active) /\ Once(idle)
  /\ Range(active) \cap Range(idle) = {} /\ Range(active) \cup Range(idle) = Ids

Lists(b) ==
  /\ Parted(b.active, b.idle)
  /\ Range(b.active) = {i \in Ids : b.pos[i] # Flat}

\* x is the greatest of the sums c.
Tops(x, c) == (\A k \in DOMAIN c : c[k] <= x) /\ \E k \in DOMAIN c : c[k] = x
\* The running sum, peak and drawdown of a book are those of its trades.
BookRight(book) ==
  LET c == Cumulated(book.trades)
  IN  /\ book.cum = Sum(book.trades) /\ Tops(book.peak, c)
      /\ IsDeepest(book.maxdd, c)

\* The level of a trailing stop after bar n, of a position that opened as o: the closest
\* of where it began and the distance from the best price of each bar since.
TrailIs(d, o, n, x) ==
  IF o.distance = 0 THEN x = o.trail
  ELSE /\ x >= o.trail
       /\ \A m \in o.at + 1 .. n : x >= Best(d[m + 1], o.dir) - o.distance
       /\ \/ x = o.trail
          \/ \E m \in o.at + 1 .. n : x = Best(d[m + 1], o.dir) - o.distance

\* What depends on no evaluator, of a position that opened as o on the bars d: it leaves
\* on bar m for reason r; it did not leave up to n; pos is what has become of it after n;
\* t is its trade.  Both evaluators open alike, so that these agree for both.
At(o, x) == [o EXCEPT !.trail = x]
ReasonIs(d, o, m, r) ==
  \E x \in Int : TrailIs(d, o, m - 1, x) /\ r = ExitReason(At(o, x), d[m + 1])
NoExit(d, o, n) == \A m \in o.at + 1 .. n : ReasonIs(d, o, m, "none")
Right(d, o, pos, n) ==
  \E x \in Int : pos = At(o, x) /\ TrailIs(d, o, n, x) /\ NoExit(d, o, n)
TradeRight(d, o, t) ==
  \/ t.reason = "EndOfData" /\ t.exit = Length - 1 /\ NoExit(d, o, t.exit)
  \/ /\ t.reason \in {"StopLoss", "TakeProfit", "TrailingStop"}
     /\ t.exit > o.at /\ ReasonIs(d, o, t.exit, t.reason) /\ NoExit(d, o, t.exit - 1)

\* The position the engine opens.
OpenedBy(bar, n, side) ==
  LET stop == StopDistance(bar, strategy.sl.value)
  IN  Opened(bar, n, side, Entry(bar, side) + Cost(bar), stop, TakeDistance(bar, stop),
             TrailingDistance(bar))

\* Every position and trade of the batch is what its opening leads to.
BatchExits(b, d) ==
  \A i \in Ids :
    /\ b.pos[i] # Flat =>
         LET p == b.pos[i]
         IN  /\ p.at < Len(d) /\ (p.distance > 0 => p.trail >= b.best[i] - p.distance)
             /\ Right(d, BatchOpened(i, d[p.at + 1], p.at, p.dir), p, Len(d) - 1)
    /\ \A t \in Range(b.books[i].trades) :
         /\ t.entry <= t.exit /\ t.exit < Len(d)
         /\ TradeRight(d, BatchOpened(i, d[t.entry + 1], t.entry, t.dir), t)

\* A position after bar n is that of its opening, when no bar since was passed over.
Unbroken(d, s, pos, n) ==
  pos # Flat =>
    /\ pos.at < Len(d) /\ pos.at <= n /\ Costed(d[pos.at + 1])
    /\ pos.at + 1 .. n \subseteq s =>
         Right(d, OpenedBy(d[pos.at + 1], pos.at, pos.dir), pos, n)

\* So is the exit of a trade.
Witnessed(d, s, t) ==
  /\ t.entry < Len(d) /\ t.exit < Len(d) /\ Costed(d[t.entry + 1])
  /\ t.entry + 1 .. t.exit \subseteq s =>
       TradeRight(d, OpenedBy(d[t.entry + 1], t.entry, t.dir), t)

\* The same of the engine, of its checkpoint and of its trades.
EngineExits ==
  /\ seen \subseteq 0 .. eng.next - 1 /\ seen \subseteq 0 .. Len(data) - 1
  /\ Unbroken(data, seen, eng.pos, eng.next - 1)
  /\ ckpt # NoCheckpoint => Unbroken(data, seen, ckpt.pos, ckpt.last)
  /\ \A t \in Range(ledger) : Witnessed(data, seen, t)

\* First entries: the bars before n that a signal was looked for on, the value a column
\* had on the last of them, and the signal on each bar, of all of which neither evaluator
\* has a say; e is the first signal before n.
OpenBars(d, n) == {m \in 0 .. n - 1 : ~d[m + 1].quarantined}
LastOf(S) == CHOOSE m \in S : \A j \in S : j <= m
PrevOf(d, n, c) ==
  IF OpenBars(d, n) = {} THEN NoValue ELSE d[LastOf(OpenBars(d, n)) + 1].col[c]
PrevsOf(d, n) == [k \in Directional |-> PrevOf(d, n, Column(k))]
DirAt(d, n) == IF d[n + 1].quarantined THEN 0 ELSE BatchSignal(PrevsOf(d, n), d[n + 1])
Dirs(d) == [n \in 0 .. Len(d) - 1 |-> DirAt(d, n)]
FirstIs(ds, n, e) ==
  \/ e = <<>> /\ \A m \in 0 .. n - 1 : ds[m] = 0
  \/ \E m \in 0 .. n - 1 : e = <<m, ds[m]>> /\ ds[m] # 0 /\ \A j \in 0 .. m - 1 : ds[j] = 0

\* The batch enters first on the first signal.
BatchFirst(b, d) ==
  /\ b.prev = PrevsOf(d, Len(d))
  /\ \A i \in Ids : FirstIs(Dirs(d), Len(d), FirstEntryOf(b.books[i].trades, b.pos[i]))

\* Nothing keeps a signal from the engine, and filters leave the columns of crossings alone.
Undisturbed ==
  SeparateColumns /\ AllowedSessions # {} /\ strategy.folds = {} /\ resumes = 0
\* The first entry of the engine e, with the trades l behind it, at the bars d it saw.
EntryOn(d, s, e, l) ==
  /\ e.next <= Len(d) /\ s = 0 .. e.next - 1
  /\ FirstIs(Dirs(d), e.next, FirstEntryOf(l, e.pos))
  /\ e.pos = Flat /\ l = <<>> =>
       \A k \in Directional : e.prev[Column(k)] = PrevOf(d, e.next, Column(k))

\* So does the engine, while nothing came between.
EngineFirst == DOMAIN eng.prev = Columns /\ (Undisturbed => EntryOn(data, seen, eng, ledger))

\* Points of an equity curve.
Rising(points) ==
  /\ points \in Seq(Nat \X Int)
  /\ \A j, k \in DOMAIN points : j <= k => points[j][1] <= points[k][1]
\* The points of the engine's curve are in order and of bars it has seen.
EngineRest ==
  /\ status \in {"running", "down", "failed", "done"} /\ resumes \in 0 .. MaxResumes
  /\ eng.first \in 0 .. eng.next
  /\ Rising(eng.equity) /\ \A k \in DOMAIN eng.equity : eng.equity[k][1] < eng.next

\* What is invariant of the batch evaluator, and of both.
BatchInv ==
  /\ IsBatch(bat) /\ Lists(bat)
  /\ \A i \in Ids : BookRight(bat.books[i])
  /\ BatchExits(bat, data) /\ BatchFirst(bat, data)

AgreeInv == BatchInv /\ EngineExits /\ EngineFirst /\ EngineRest

----------------------------------------------------------------------------
(* Lists of candidates: swap_remove and push keep each of them in one place.*)

\* Taking out the element at k leaves the others, once each.
LEMMA SwapRemoveFacts ==
  ASSUME NEW S, NEW s \in Seq(S), Once(s), NEW k \in 1 .. Len(s)
  PROVE  /\ SwapRemove(s, k) \in Seq(S) /\ Once(SwapRemove(s, k))
         /\ Range(SwapRemove(s, k)) = Range(s) \ {s[k]}
<1> DEFINE n == Len(s)
           t == [s EXCEPT ![k] = s[n]]
           r == SubSeq(t, 1, n - 1)
           At_(j) == IF j = k THEN s[n] ELSE s[j]
<1>1. n \in Nat /\ n >= 1 /\ \A j \in 1 .. n : s[j] \in S
  OBVIOUS
<1>2. t \in Seq(S) /\ Len(t) = n /\ \A j \in 1 .. n : t[j] = At_(j)
  OBVIOUS
<1> HIDE DEF t
<1>3. r \in Seq(S) /\ Len(r) = n - 1 /\ \A j \in 1 .. n - 1 : r[j] = t[j]
  BY <1>1, <1>2
<1>4. SwapRemove(s, k) = r
  BY DEF SwapRemove, t
<1> HIDE DEF r
<1>5. \A j \in 1 .. n - 1 : r[j] = At_(j)
  BY <1>1, <1>2, <1>3
<1>6. DOMAIN r = 1 .. n - 1 /\ DOMAIN s = 1 .. n
  BY <1>3
<1>7. \A i, j \in 1 .. n : s[i] = s[j] => i = j
  BY <1>6 DEF Once
<1>8. ASSUME NEW i \in 1 .. n - 1, NEW j \in 1 .. n - 1, r[i] = r[j] PROVE i = j
  <2>1. At_(i) = At_(j) /\ i \in 1 .. n /\ j \in 1 .. n /\ n \in 1 .. n /\ i # n /\ j # n
    BY <1>1, <1>5, <1>8
  <2>2. QED BY <1>7, <2>1
<1>9. Once(r)
  BY <1>6, <1>8 DEF Once
<1>10. Range(r) = {r[j] : j \in 1 .. n - 1} /\ Range(s) = {s[j] : j \in 1 .. n}
  BY <1>6 DEF Range
<1>11. ASSUME NEW x \in Range(r) PROVE x \in Range(s) \ {s[k]}
  <2>1. PICK j \in 1 .. n - 1 : x = At_(j)
    BY <1>5, <1>10
  <2>2. j \in 1 .. n /\ n \in 1 .. n /\ j # n
    BY <1>1
  <2>3. CASE j = k
    <3>1. x = s[n] /\ s[n] # s[k]
      BY <1>7, <2>1, <2>2, <2>3
    <3>2. QED BY <1>10, <2>2, <3>1
  <2>4. CASE j # k
    <3>1. x = s[j] /\ s[j] # s[k]
      BY <1>7, <2>1, <2>2, <2>4
    <3>2. QED BY <1>10, <2>2, <3>1
  <2>5. QED BY <2>3, <2>4
<1>12. ASSUME NEW x \in Range(s) \ {s[k]} PROVE x \in Range(r)
  <2>1. PICK j \in 1 .. n : x = s[j] /\ j # k
    BY <1>10
  <2>2. CASE j = n
    <3>1. k \in 1 .. n - 1
      BY <1>1, <2>1, <2>2
    <3>2. r[k] = x
      BY <1>5, <2>1, <2>2, <3>1
    <3>3. QED BY <1>10, <3>1, <3>2
  <2>3. CASE j # n
    <3>1. j \in 1 .. n - 1
      BY <1>1, <2>1, <2>3
    <3>2. r[j] = x
      BY <1>5, <2>1, <3>1
    <3>3. QED BY <1>10, <3>1, <3>2
  <2>4. QED BY <2>2, <2>3
<1>13. QED BY <1>3, <1>4, <1>9, <1>11, <1>12

\* One element more.
LEMMA AppendFacts ==
  ASSUME NEW S, NEW s \in Seq(S), Once(s), NEW x \in S, x \notin Range(s)
  PROVE  /\ Append(s, x) \in Seq(S) /\ Once(Append(s, x))
         /\ Range(Append(s, x)) = Range(s) \cup {x}
<1> DEFINE n == Len(s)
           r == Append(s, x)
<1>1. /\ r \in Seq(S) /\ Len(r) = n + 1 /\ r[n + 1] = x /\ n \in Nat
      /\ \A j \in 1 .. n : r[j] = s[j]
  OBVIOUS
<1> HIDE DEF r
<1>2. DOMAIN r = 1 .. n + 1 /\ DOMAIN s = 1 .. n
  BY <1>1
<1>3. Range(r) = {r[j] : j \in 1 .. n + 1} /\ Range(s) = {s[j] : j \in 1 .. n}
  BY <1>2 DEF Range
<1>4. \A j \in 1 .. n + 1 : j \in 1 .. n \/ j = n + 1
  BY <1>1
<1>5. \A j \in 1 .. n : j \in 1 .. n + 1 /\ s[j] # x
  BY <1>1, <1>3
<1>6. n + 1 \in 1 .. n + 1
  BY <1>1
<1>7. Once(r)
  <2>1. SUFFICES ASSUME NEW i \in 1 .. n + 1, NEW j \in 1 .. n + 1, r[i] = r[j] PROVE i = j
    BY <1>2 DEF Once
  <2>2. QED BY <1>1, <1>2, <1>4, <1>5, <2>1 DEF Once
<1>8. Range(r) = Range(s) \cup {x}
  <2>1. \A y \in Range(r) : y \in Range(s) \cup {x}
    BY <1>1, <1>3, <1>4
  <2>2. \A y \in Range(s) \cup {x} : y \in Range(r)
    BY <1>1, <1>3, <1>5, <1>6
  <2>3. QED BY <2>1, <2>2
<1>9. QED BY <1>1, <1>7, <1>8 DEF r

\* A candidate moves from the active ones to the idle ones.
LEMMA MovedFacts ==
  ASSUME NEW active, NEW idle, Parted(active, idle), NEW i \in Range(active)
  PROVE  LET m == Moved(<<active, idle>>, i)
         IN  /\ m = <<m[1], m[2]>> /\ Parted(m[1], m[2])
             /\ Range(m[1]) = Range(active) \ {i}
<1> DEFINE k == CHOOSE j \in DOMAIN active : active[j] = i
           x == SwapRemove(active, k)
           y == Append(idle, i)
<1>1. /\ active \in Seq(Ids) /\ idle \in Seq(Ids) /\ Once(active) /\ Once(idle)
      /\ Range(active) \cap Range(idle) = {} /\ Range(active) \cup Range(idle) = Ids
  BY DEF Parted
<1>2. k \in 1 .. Len(active) /\ active[k] = i
  <2>1. \E j \in DOMAIN active : active[j] = i
    BY DEF Range
  <2>2. k \in DOMAIN active /\ active[k] = i
    BY <2>1
  <2>3. QED BY <1>1, <2>2
<1>3. Moved(<<active, idle>>, i) = <<x, y>>
  BY DEF Moved
<1> HIDE DEF k
<1>4. x \in Seq(Ids) /\ Once(x) /\ Range(x) = Range(active) \ {i}
  BY <1>1, <1>2, SwapRemoveFacts
<1>5. i \in Ids /\ i \notin Range(idle)
  BY <1>1
<1>6. y \in Seq(Ids) /\ Once(y) /\ Range(y) = Range(idle) \cup {i}
  BY <1>1, <1>5, AppendFacts
<1> HIDE DEF x, y
<1>7. Parted(x, y)
  BY <1>1, <1>4, <1>5, <1>6 DEF Parted
<1>8. QED BY <1>3, <1>4, <1>7

----------------------------------------------------------------------------
(* Those that are deactivated, one after another.                          *)

\* Induction up to n, for a set of numbers.
LEMMA Upwards ==
  ASSUME NEW n \in Nat, NEW G, 0 \in G, \A k \in 1 .. n : k - 1 \in G => k \in G
  PROVE  \A k \in 0 .. n : k \in G
<1> DEFINE T == (0 .. n) \ G
<1>1. SUFFICES ASSUME T # {} PROVE FALSE
  OBVIOUS
<1>2. PICK k \in T : \A l \in T : k <= l
  <2>1. T \in SUBSET Nat
    OBVIOUS
  <2>2. QED BY <1>1, <2>1, LeastElement
<1>3. k \in 1 .. n /\ k - 1 \in 0 .. n /\ k \notin G
  BY <1>2
<1>4. k - 1 \in G
  <2>1. ~(k <= k - 1)
    BY <1>3
  <2>2. QED BY <1>2, <1>3, <2>1
<1>5. QED BY <1>3, <1>4

\* A function is defined by its first value and by how each value follows from the one
\* before.
Follows(f, b, step, n) == f[0] = b /\ \A k \in 1 .. n : f[k] = step[<<k, f[k - 1]>>]

\* There is a function for every first value and every step, up to any number.
LEMMA RecursionExists ==
  ASSUME NEW n \in Nat, NEW V, NEW b \in V, NEW step \in [(1 .. n) \X V -> V]
  PROVE  \E f \in [0 .. n -> V] : Follows(f, b, step, n)
<1> DEFINE G == {m \in 0 .. n : \E f \in [0 .. m -> V] : Follows(f, b, step, m)}
<1>1. 0 \in G
  <2> DEFINE f == [k \in 0 .. 0 |-> b]
  <2>1. f \in [0 .. 0 -> V] /\ Follows(f, b, step, 0)
    BY DEF Follows
  <2> HIDE DEF f
  <2>2. QED BY <2>1
<1>2. ASSUME NEW m \in 1 .. n, m - 1 \in G PROVE m \in G
  <2>1. PICK f \in [0 .. (m - 1) -> V] : Follows(f, b, step, m - 1)
    BY <1>2
  <2> DEFINE x == step[<<m, f[m - 1]>>]
             g == [k \in 0 .. m |-> IF k = m THEN x ELSE f[k]]
  <2>2. f[m - 1] \in V /\ x \in V
    OBVIOUS
  <2>3. g \in [0 .. m -> V]
    <3> HIDE DEF x
    <3>1. \A k \in 0 .. m : k # m => k \in 0 .. (m - 1)
      OBVIOUS
    <3>2. QED BY <2>2, <3>1
  <2>4. g[m] = x /\ \A k \in 0 .. (m - 1) : g[k] = f[k]
    <3> HIDE DEF x
    <3>1. QED OBVIOUS
  <2> HIDE DEF g
  <2>5. g[0] = b
    BY <2>1, <2>4 DEF Follows
  <2>6. ASSUME NEW k \in 1 .. m PROVE g[k] = step[<<k, g[k - 1]>>]
    <3>1. k - 1 \in 0 .. (m - 1)
      OBVIOUS
    <3>2. g[k - 1] = f[k - 1]
      BY <2>4, <3>1
    <3>3. CASE k = m
      BY <2>4, <3>2, <3>3
    <3>4. CASE k # m
      <4>1. k \in 1 .. (m - 1) /\ k \in 0 .. (m - 1)
        BY <3>4
      <4>2. f[k] = step[<<k, f[k - 1]>>]
        BY <2>1, <4>1 DEF Follows
      <4>3. QED BY <2>4, <3>2, <4>1, <4>2
    <3>5. QED BY <3>3, <3>4
  <2>7. Follows(g, b, step, m)
    BY <2>5, <2>6 DEF Follows
  <2>8. QED BY <2>3, <2>7
<1>3. \A m \in 0 .. n : m \in G
  <2> HIDE DEF G
  <2>1. QED BY <1>1, <1>2, Upwards
<1>4. QED BY <1>3


\* Those of S among the first k, and the pairs of lists a deactivation goes through.
Gone(active, S, k) == {active[j] : j \in {l \in 1 .. k : active[l] \in S}}
DeactivatedTo(active, idle, S, g) ==
  [k \in 0 .. Len(active) |->
     IF k = 0 THEN <<active, idle>>
     ELSE IF active[k] \in S THEN Moved(g[k - 1], active[k]) ELSE g[k - 1]]
IsParted(v) == v = <<v[1], v[2]>> /\ Parted(v[1], v[2])

\* The two lists while those of S are moved.
LEMMA DeactivationExists ==
  ASSUME NEW active, NEW idle, NEW S, Parted(active, idle)
  PROVE  \E f : /\ f = DeactivatedTo(active, idle, S, f)
                /\ IsParted(f[Len(active)]) /\ Range(f[Len(active)][1]) = Range(active) \ S
<1> DEFINE n == Len(active)
           V == {v \in Seq(Ids) \X Seq(Ids) : IsParted(v)}
           first == <<active, idle>>
           Next_(k, v) == IF active[k] \in S /\ active[k] \in Range(v[1])
                          THEN Moved(v, active[k]) ELSE v
           step == [p \in (1 .. n) \X V |-> Next_(p[1], p[2])]
<1>1. /\ active \in Seq(Ids) /\ idle \in Seq(Ids) /\ n \in Nat /\ Once(active)
      /\ DOMAIN active = 1 .. n
  BY DEF Parted
<1>2. first \in V
  BY <1>1 DEF IsParted
<1>3. ASSUME NEW k \in 1 .. n, NEW v \in V PROVE Next_(k, v) \in V
  <2>1. v = <<v[1], v[2]>> /\ Parted(v[1], v[2])
    BY DEF IsParted
  <2>2. CASE active[k] \in S /\ active[k] \in Range(v[1])
    <3> DEFINE m == Moved(v, active[k])
    <3>1. m = <<m[1], m[2]>> /\ Parted(m[1], m[2])
      BY <2>1, <2>2, MovedFacts
    <3> HIDE DEF m
    <3>2. m[1] \in Seq(Ids) /\ m[2] \in Seq(Ids)
      BY <3>1 DEF Parted
    <3>3. m \in V
      BY <3>1, <3>2 DEF IsParted
    <3>4. QED BY <2>2, <3>3 DEF m
  <2>3. CASE ~(active[k] \in S /\ active[k] \in Range(v[1]))
    BY <2>3
  <2>4. QED BY <2>2, <2>3
<1>4. step \in [(1 .. n) \X V -> V]
  <2> HIDE DEF V, Next_
  <2>1. \A p \in (1 .. n) \X V : p[1] \in 1 .. n /\ p[2] \in V
    OBVIOUS
  <2>2. \A p \in (1 .. n) \X V : Next_(p[1], p[2]) \in V
    BY <1>3, <2>1
  <2>3. QED BY <2>2
<1>5. PICK f \in [0 .. n -> V] : Follows(f, first, step, n)
  <2> HIDE DEF V, step, first
  <2>1. QED BY <1>1, <1>2, <1>4, RecursionExists
<1>6. f[0] = first /\ \A k \in 1 .. n : f[k] = Next_(k, f[k - 1])
  <2>1. ASSUME NEW k \in 1 .. n PROVE f[k] = Next_(k, f[k - 1])
    <3>1. f[k] = step[<<k, f[k - 1]>>]
      BY <1>5 DEF Follows
    <3>2. k - 1 \in 0 .. n
      BY <1>1
    <3>3. f[k - 1] \in V
      BY <1>5, <3>2
    <3> HIDE DEF V, Next_
    <3>4. QED BY <3>1, <3>3
  <2>2. QED BY <1>5, <2>1 DEF Follows
<1> DEFINE G == {k \in 0 .. n : Range(f[k][1]) = Range(active) \ Gone(active, S, k)}
<1>7. 0 \in G
  <2>1. Gone(active, S, 0) = {}
    BY DEF Gone
  <2>2. QED BY <1>1, <1>6, <2>1
<1>8. ASSUME NEW k \in 1 .. n, k - 1 \in G
      PROVE  /\ k \in G
             /\ f[k] = IF active[k] \in S THEN Moved(f[k - 1], active[k]) ELSE f[k - 1]
  <2> DEFINE i == active[k]
             v == f[k - 1]
  <2>1. /\ Range(v[1]) = Range(active) \ Gone(active, S, k - 1)
        /\ v = <<v[1], v[2]>> /\ Parted(v[1], v[2]) /\ k - 1 \in 0 .. n /\ k \in 0 .. n
    <3>1. k - 1 \in 0 .. n
      BY <1>8
    <3>2. v \in V
      BY <1>5, <3>1
    <3>3. QED BY <1>1, <1>8, <3>1, <3>2 DEF IsParted
  <2>2. i \in Range(active) /\ i \notin Gone(active, S, k - 1)
    <3>1. \A l \in 1 .. k - 1 : l \in 1 .. n /\ l # k
      BY <1>1
    <3>2. \A l \in 1 .. k - 1 : active[l] # active[k]
      BY <1>1, <3>1 DEF Once
    <3>3. QED BY <1>1, <3>2 DEF Gone, Range
  <2>3. Gone(active, S, k) = IF i \in S THEN Gone(active, S, k - 1) \cup {i}
                            ELSE Gone(active, S, k - 1)
    <3>1. \A l \in 1 .. k : l \in 1 .. k - 1 \/ l = k
      BY <1>1
    <3>2. \A l \in 1 .. k - 1 : l \in 1 .. k
      BY <1>1
    <3>3. k \in 1 .. k
      BY <1>1
    <3>4. QED BY <3>1, <3>2, <3>3 DEF Gone
  <2>4. f[k] = Next_(k, v)
    BY <1>6
  <2>5. CASE i \in S
    <3>1. i \in Range(v[1])
      BY <2>1, <2>2
    <3>2. f[k] = Moved(v, i)
      BY <2>4, <2>5, <3>1
    <3>3. Range(f[k][1]) = Range(v[1]) \ {i}
      <4> HIDE DEF v, i
      <4>1. QED BY <2>1, <3>1, <3>2, MovedFacts
    <3>4. Range(f[k][1]) = Range(active) \ Gone(active, S, k)
      <4> HIDE DEF v, i
      <4>1. QED BY <2>1, <2>3, <2>5, <3>3
    <3>5. QED BY <2>1, <2>5, <3>2, <3>4
  <2>6. CASE i \notin S
    <3>1. f[k] = v /\ Gone(active, S, k) = Gone(active, S, k - 1)
      BY <2>3, <2>4, <2>6
    <3>2. QED BY <2>1, <2>6, <3>1
  <2>7. QED BY <2>5, <2>6
<1>9. \A k \in 0 .. n : k \in G
  <2> HIDE DEF G
  <2>1. QED BY <1>1, <1>7, <1>8, Upwards
<1>10. f = DeactivatedTo(active, idle, S, f)
  <2>1. ASSUME NEW k \in 0 .. n, k # 0 PROVE k \in 1 .. n /\ k - 1 \in G
    <3>1. k \in 1 .. n /\ k - 1 \in 0 .. n
      BY <1>1, <2>1
    <3> HIDE DEF G
    <3>2. QED BY <1>9, <3>1
  <2> HIDE DEF G, V, Next_
  <2>2. \A k \in 0 .. n :
          f[k] = IF k = 0 THEN first
                 ELSE IF active[k] \in S THEN Moved(f[k - 1], active[k]) ELSE f[k - 1]
    BY <1>6, <1>8, <2>1
  <2>3. QED BY <1>5, <2>2 DEF DeactivatedTo
<1>11. n \in 0 .. n /\ Gone(active, S, n) = Range(active) \cap S
  BY <1>1 DEF Gone, Range
<1>12. f[n] \in V
  BY <1>5, <1>11
<1>13. Range(f[n][1]) = Range(active) \ S
  <2>1. n \in G
    <3> HIDE DEF G
    <3>1. QED BY <1>9, <1>11
  <2>2. QED BY <1>11, <2>1
<1>14. QED BY <1>10, <1>12, <1>13

\* Those of S are deactivated, and the others stay.
LEMMA DeactivateFacts ==
  ASSUME NEW b, DOMAIN b = BatFields, Parted(b.active, b.idle), NEW S
  PROVE  LET r == Deactivate(b, S)
         IN  /\ DOMAIN r = BatFields /\ Parted(r.active, r.idle)
             /\ Range(r.active) = Range(b.active) \ S
             /\ r.pos = [i \in Ids |-> IF i \in S THEN Flat ELSE b.pos[i]]
             /\ r.best = b.best /\ r.prev = b.prev /\ r.books = b.books /\ r.done = b.done
<1> DEFINE n == Len(b.active)
           g == CHOOSE h : h = DeactivatedTo(b.active, b.idle, S, h)
           x == g[n][1]
           y == g[n][2]
           p == [i \in Ids |-> IF i \in S THEN Flat ELSE b.pos[i]]
<1>1. PICK f : /\ f = DeactivatedTo(b.active, b.idle, S, f)
               /\ IsParted(f[n]) /\ Range(f[n][1]) = Range(b.active) \ S
  BY DeactivationExists
<1>2. g = DeactivatedTo(b.active, b.idle, S, g)
  BY <1>1
<1>3. Deactivate(b, S) = [b EXCEPT !.active = x, !.idle = y, !.pos = p]
  BY DEF Deactivate, DeactivatedTo
<1> HIDE DEF g
<1>4. n \in Nat
  BY DEF Parted
<1>5. g[n] = f[n]
  <2> DEFINE G == {k \in 0 .. n : g[k] = f[k]}
  <2>1. 0 \in G
    <3>1. 0 \in 0 .. n
      BY <1>4
    <3>2. g[0] = <<b.active, b.idle>> /\ f[0] = <<b.active, b.idle>>
      BY <1>1, <1>2, <3>1 DEF DeactivatedTo
    <3>3. QED BY <3>1, <3>2
  <2>2. ASSUME NEW k \in 1 .. n, k - 1 \in G PROVE k \in G
    <3>1. k \in 0 .. n /\ k # 0 /\ g[k - 1] = f[k - 1]
      BY <1>4, <2>2
    <3>2. /\ g[k] = IF b.active[k] \in S THEN Moved(g[k - 1], b.active[k]) ELSE g[k - 1]
          /\ f[k] = IF b.active[k] \in S THEN Moved(f[k - 1], b.active[k]) ELSE f[k - 1]
      BY <1>1, <1>2, <3>1 DEF DeactivatedTo
    <3>3. QED BY <3>1, <3>2
  <2>3. \A k \in 0 .. n : k \in G
    <3> HIDE DEF G
    <3>1. QED BY <1>4, <2>1, <2>2, Upwards
  <2>4. QED BY <1>4, <2>3
<1>6. Parted(x, y) /\ Range(x) = Range(b.active) \ S
  BY <1>1, <1>5 DEF IsParted
<1> HIDE DEF x, y, p
<1> DEFINE r == [b EXCEPT !.active = x, !.idle = y, !.pos = p]
<1>7. /\ DOMAIN r = BatFields /\ r.active = x /\ r.idle = y /\ r.pos = p
      /\ r.best = b.best /\ r.prev = b.prev /\ r.books = b.books /\ r.done = b.done
  BY DEF BatFields
<1> HIDE DEF r
<1>8. Deactivate(b, S) = r
  BY <1>3 DEF r
<1>9. QED BY <1>6, <1>7, <1>8 DEF p

----------------------------------------------------------------------------
(* Books of the batch evaluator.                                           *)

LEMMA IdsFacts ==
  /\ Ids = 1 .. Len(Candidates) /\ Len(Candidates) \in Nat
  /\ \A i \in Ids :
       Candidates[i].sl \in Nat /\ Candidates[i].rr \in Nat /\ Candidates[i].trail \in Nat
<1>1. Ids = 1 .. Len(Candidates) /\ Len(Candidates) \in Nat
  BY CandidatesAssumption DEF Ids
<1> DEFINE R == [sl : Nat, rr : Nat, trail : Nat]
<1>2. Candidates \in Seq(R)
  BY CandidatesAssumption
<1>3. \A c \in R : c.sl \in Nat /\ c.rr \in Nat /\ c.trail \in Nat
  OBVIOUS
<1> HIDE DEF R
<1>4. \A i \in Ids : Candidates[i] \in R
  BY <1>1, <1>2
<1>5. QED BY <1>1, <1>3, <1>4

\* The batch looks for the same exits.
LEMMA SameReason ==
  ASSUME NEW pos, NEW bar
  PROVE  BatchReason(pos, bar) = ExitReason(pos, bar)
<1> DEFINE stopped == Worst(bar, pos.dir) <= pos.sl
           taken == Best(bar, pos.dir) >= pos.tp
           trailed == Worst(bar, pos.dir) <= pos.trail
           hits == {r \in {"StopLoss", "TakeProfit", "TrailingStop"} :
                      CASE r = "StopLoss" -> stopped [] r = "TakeProfit" -> taken [] OTHER -> trailed}
           First(r) == /\ "StopLoss" \in hits => r = "StopLoss"
                       /\ r = "TrailingStop" => "TakeProfit" \notin hits
           chosen == CHOOSE r \in hits : First(r)
<1>1. /\ "StopLoss" \in hits <=> stopped
      /\ "TakeProfit" \in hits <=> taken
      /\ "TrailingStop" \in hits <=> trailed
      /\ \A r \in hits : r \in {"StopLoss", "TakeProfit", "TrailingStop"}
  OBVIOUS
<1>2. BatchReason(pos, bar) = IF hits = {} THEN "none" ELSE chosen
  BY DEF BatchReason
<1>3. ExitReason(pos, bar) = IF stopped THEN "StopLoss" ELSE IF taken THEN "TakeProfit"
                             ELSE IF trailed THEN "TrailingStop" ELSE "none"
  BY DEF ExitReason
<1> HIDE DEF hits, stopped, taken, trailed
<1>4. CASE hits = {}
  BY <1>1, <1>2, <1>3, <1>4
<1>5. CASE hits # {}
  <2>1. \E r \in hits : First(r)
    <3>1. CASE stopped
      <4>1. "StopLoss" \in hits /\ First("StopLoss")
        BY <1>1, <3>1
      <4>2. QED BY <4>1
    <3>2. CASE ~stopped /\ taken
      <4>1. "TakeProfit" \in hits /\ First("TakeProfit")
        BY <1>1, <3>2
      <4>2. QED BY <4>1
    <3>3. CASE ~stopped /\ ~taken
      <4>1. "TrailingStop" \in hits /\ First("TrailingStop")
        BY <1>1, <1>5, <3>3
      <4>2. QED BY <4>1
    <3>4. QED BY <3>1, <3>2, <3>3
  <2>2. chosen \in hits /\ First(chosen)
    BY <2>1
  <2> HIDE DEF chosen
  <2>3. QED BY <1>1, <1>2, <1>3, <1>5, <2>2
<1>6. QED BY <1>4, <1>5

\* A session the cost model does not know costs the batch nothing.
LEMMA BatchCostFacts == ASSUME NEW bar \in Bars PROVE BatchCost(bar) \in Int
BY CostsAssumption DEF BatchCost, Costed, Cost

\* The books stay of their kind.
LEMMA RecordFacts ==
  ASSUME NEW book \in Books, NEW t \in Trades
  PROVE  LET r == RecordPnl(book, t)
             cum == book.cum + t.pnl
             peak == IF cum > book.peak THEN cum ELSE book.peak
         IN  /\ r \in Books /\ r.trades = Append(book.trades, t)
             /\ r.cum = cum /\ r.peak = peak
             /\ r.maxdd = IF peak - cum > book.maxdd THEN peak - cum ELSE book.maxdd
<1> DEFINE cum == book.cum + t.pnl
           peak == IF cum > book.peak THEN cum ELSE book.peak
           fall == IF peak - cum > book.maxdd THEN peak - cum ELSE book.maxdd
           ts == Append(book.trades, t)
<1>1. /\ book.trades \in Seq(Trades) /\ book.cum \in Int /\ book.peak \in Int /\ book.maxdd \in Int
      /\ t.pnl \in Int
  BY DEF Books, Trades
<1>2. cum \in Int
  BY <1>1
<1>3. peak \in Int
  BY <1>1, <1>2
<1>4. fall \in Int
  BY <1>1, <1>2, <1>3
<1>5. ts \in Seq(Trades)
  BY <1>1
<1>6. RecordPnl(book, t) = [trades |-> ts, cum |-> cum, peak |-> peak, maxdd |-> fall]
  BY DEF RecordPnl
<1> HIDE DEF cum, peak, fall, ts
<1> DEFINE r == [trades |-> ts, cum |-> cum, peak |-> peak, maxdd |-> fall]
<1>7. r \in Books /\ r.trades = ts /\ r.cum = cum /\ r.peak = peak /\ r.maxdd = fall
  BY <1>2, <1>3, <1>4, <1>5 DEF Books
<1> HIDE DEF r
<1>8. RecordPnl(book, t) = r
  BY <1>6 DEF r
<1>9. QED BY <1>7, <1>8 DEF ts, cum, peak, fall

\* The trade made of a position at a price.
LEMMA MadeFacts ==
  ASSUME NEW bar, NEW pos \in Position, NEW n \in Nat, NEW price \in Int,
         NEW reason \in {"StopLoss", "TakeProfit", "TrailingStop", "EndOfData"}
  PROVE  LET t == Trade(pos, bar, n, reason, price)
         IN  /\ t \in Trades /\ t.entry = pos.at /\ t.exit = n /\ t.dir = pos.dir
             /\ t.reason = reason
<1>1. pos.price \in Int /\ pos.at \in Nat /\ pos.dir \in {1, -1} /\ price - pos.price \in Int
  BY PositionFacts
<1>2. QED BY <1>1 DEF Trade, Trades

\* A trade goes to a book.
Booked(old, new, pos, bar, n, reason) ==
  \E price \in Int : /\ Trade(pos, bar, n, reason, price) \in Trades
                     /\ new = RecordPnl(old, Trade(pos, bar, n, reason, price))

\* A book gets the trade of the position that is closed.
LEMMA ClosedFacts ==
  ASSUME NEW b, IsBatch(b), NEW i \in Ids, NEW bar \in Bars, NEW n \in Nat,
         b.pos[i] \in Position, NEW level \in Int,
         NEW reason \in {"StopLoss", "TakeProfit", "TrailingStop", "EndOfData"}
  PROVE  /\ Booked(b.books[i], Closed(b, i, bar, n, reason, level), b.pos[i], bar, n, reason)
         /\ Closed(b, i, bar, n, reason, level) \in Books
<1> DEFINE price == level - BatchCost(bar)
<1>1. price \in Int
  BY BatchCostFacts
<1>2. b.books[i] \in Books
  BY DEF IsBatch
<1>3. Trade(b.pos[i], bar, n, reason, price) \in Trades
  BY <1>1, MadeFacts
<1>4. Closed(b, i, bar, n, reason, level) =
        RecordPnl(b.books[i], Trade(b.pos[i], bar, n, reason, price))
  BY DEF Closed
<1> HIDE DEF price
<1>5. QED BY <1>1, <1>2, <1>3, <1>4, RecordFacts DEF Booked

----------------------------------------------------------------------------
(* One bar of the batch evaluator: exits and trailing.                     *)

\* Trailing keeps a position a position of the same entry.
LEMMA BatchTrailedFacts ==
  ASSUME NEW bar \in Bars, NEW pos \in Position, NEW best \in Int
  PROVE  /\ BatchTrailed(pos, best, bar) \in Position
         /\ BatchTrailed(pos, best, bar).at = pos.at /\ BatchTrailed(pos, best, bar).dir = pos.dir
         /\ BatchTrailed(pos, best, bar) # Flat
         /\ BatchBest(pos, best, bar) \in Int
<1> DEFINE level == Best(bar, pos.dir) - pos.distance
           moved == [pos EXCEPT !.trail = level]
<1>1. Best(bar, pos.dir) \in Int /\ level \in Int
  BY PositionFacts, BarFacts
<1>2. BatchTrailed(pos, best, bar) = pos \/ BatchTrailed(pos, best, bar) = moved
  BY DEF BatchTrailed
<1> HIDE DEF level
<1>3. moved \in Position /\ moved.at = pos.at /\ moved.dir = pos.dir
  BY <1>1 DEF Position
<1> HIDE DEF moved
<1>4. BatchTrailed(pos, best, bar) \in Position
  BY <1>2, <1>3
<1>5. QED BY <1>1, <1>2, <1>3, <1>4, PositionFacts DEF BatchBest

\* What the batch opens is a position at its bar.
LEMMA BatchOpenedFacts ==
  ASSUME strategy \in Strategies, NEW i \in Ids, NEW bar \in Bars, NEW n \in Nat,
         NEW side \in {1, -1}
  PROVE  LET p == BatchOpened(i, bar, n, side)
         IN  p \in Position /\ p # Flat /\ p.at = n /\ p.dir = side
<1> DEFINE c == Candidates[i]
           stop == StopDistance(bar, c.sl)
           reward == stop * c.rr
           fixed == strategy.tp.value
           offer == CASE strategy.tp.type = "none" -> 0
                      [] strategy.tp.type = "risk_reward" -> reward
                      [] strategy.tp.type = "atr_multiple" /\ bar.atr > 0 -> reward
                      [] OTHER -> fixed
           take == IF offer > 0 THEN offer ELSE Far
           far == bar.atr * c.trail
           trail == IF bar.atr > 0 THEN far ELSE 0
           price == Entry(bar, side) + BatchCost(bar)
<1>1. /\ c.sl \in Nat /\ c.rr \in Nat /\ c.trail \in Nat /\ bar.atr \in Nat
      /\ strategy.sl.value \in Nat /\ fixed \in Nat
  BY IdsFacts, StrategiesAssumption, BarsAssumption
<1>2. bar.atr * c.sl \in Nat /\ far \in Nat
  BY <1>1
<1>3. stop \in Nat
  BY <1>1, <1>2 DEF StopDistance
<1>4. reward \in Nat
  BY <1>1, <1>3
<1>5. price \in Int
  BY BarFacts, BatchCostFacts
<1>6. BatchOpened(i, bar, n, side) = Opened(bar, n, side, price, stop, take, trail)
  BY DEF BatchOpened
<1> HIDE DEF reward, stop, far, price, fixed, c
<1>7. offer \in Nat
  BY <1>1, <1>4
<1> HIDE DEF offer
<1>8. take \in Nat
  BY <1>7 DEF Far
<1>9. trail \in Nat
  BY <1>2
<1> HIDE DEF take, trail
<1>10. /\ Opened(bar, n, side, price, stop, take, trail) \in Position
       /\ Opened(bar, n, side, price, stop, take, trail).at = n
  BY <1>3, <1>5, <1>8, <1>9, OpenedFacts
<1>11. Opened(bar, n, side, price, stop, take, trail).dir = side
  BY DEF Opened
<1>12. QED BY <1>6, <1>10, <1>11, PositionFacts

\* What a bar does to candidate i before anything is opened.
Went(b, r, i, bar, n) ==
  LET p == b.pos[i]
      reason == ExitReason(p, bar)
  IN  \/ p = Flat /\ r.pos[i] = Flat /\ r.books[i] = b.books[i]
      \/ /\ p # Flat /\ reason = "none" /\ r.pos[i] = BatchTrailed(p, b.best[i], bar)
         /\ r.best[i] = BatchBest(p, b.best[i], bar) /\ r.books[i] = b.books[i]
      \/ /\ p # Flat /\ reason \in {"StopLoss", "TakeProfit", "TrailingStop"} /\ r.pos[i] = Flat
         /\ Booked(b.books[i], r.books[i], p, bar, n, reason)

\* Each candidate goes its way, and stays in one list.
LEMMA ProcessBarFacts ==
  ASSUME NEW b, IsBatch(b), Lists(b), NEW bar \in Bars, NEW n \in Nat
  PROVE  LET r == ProcessBar(b, bar, n)
         IN  /\ IsBatch(r) /\ Lists(r) /\ r.prev = b.prev /\ r.done = b.done
             /\ \A i \in Ids : Went(b, r, i, bar, n)
<1> DEFINE reason == [i \in Ids |-> IF i \in Range(b.active) THEN BatchReason(b.pos[i], bar)
                                   ELSE "none"]
           hit == {i \in Ids : reason[i] # "none"}
           on == Range(b.active) \ hit
           books == [i \in Ids |-> IF i \notin hit THEN b.books[i] ELSE
                       Closed(b, i, bar, n, reason[i], HitLevel(b.pos[i], reason[i]))]
           pos == [i \in Ids |-> IF i \in on THEN BatchTrailed(b.pos[i], b.best[i], bar) ELSE b.pos[i]]
           best == [i \in Ids |-> IF i \in on THEN BatchBest(b.pos[i], b.best[i], bar) ELSE b.best[i]]
           c == [b EXCEPT !.books = books, !.pos = pos, !.best = best]
           r == Deactivate(c, hit)
<1>1. ProcessBar(b, bar, n) = r
  BY DEF ProcessBar
<1>2. /\ DOMAIN b = BatFields /\ Parted(b.active, b.idle)
      /\ Range(b.active) = {i \in Ids : b.pos[i] # Flat}
      /\ \A i \in Ids : b.pos[i] \in Positions /\ b.best[i] \in Int /\ b.books[i] \in Books
  BY DEF IsBatch, Lists
<1>3. ASSUME NEW i \in Ids
      PROVE  /\ reason[i] = IF b.pos[i] = Flat THEN "none" ELSE ExitReason(b.pos[i], bar)
             /\ i \in on <=> b.pos[i] # Flat /\ reason[i] = "none"
             /\ i \in hit <=> reason[i] # "none"
             /\ reason[i] \in {"none", "StopLoss", "TakeProfit", "TrailingStop"}
  <2>1. reason[i] = IF b.pos[i] = Flat THEN "none" ELSE ExitReason(b.pos[i], bar)
    BY <1>2, SameReason
  <2>2. ExitReason(b.pos[i], bar) \in {"none", "StopLoss", "TakeProfit", "TrailingStop"}
    BY DEF ExitReason
  <2> HIDE DEF reason
  <2>3. QED BY <1>2, <2>1, <2>2
<1> HIDE DEF reason
<1>4. ASSUME NEW i \in Ids, i \in hit
      PROVE  /\ b.pos[i] \in Position /\ HitLevel(b.pos[i], reason[i]) \in Int
             /\ reason[i] \in {"StopLoss", "TakeProfit", "TrailingStop"}
             /\ reason[i] = ExitReason(b.pos[i], bar)
  <2>1. /\ b.pos[i] \in Position /\ reason[i] \in {"StopLoss", "TakeProfit", "TrailingStop"}
        /\ reason[i] = ExitReason(b.pos[i], bar)
    BY <1>2, <1>3, <1>4 DEF Positions
  <2>2. QED BY <2>1, PositionFacts DEF HitLevel
<1>5. ASSUME NEW i \in Ids, i \in on
      PROVE  b.pos[i] \in Position
  BY <1>2, <1>3, <1>5 DEF Positions
<1> HIDE DEF hit, on
<1>6. ASSUME NEW i \in Ids
      PROVE  /\ books[i] \in Books /\ pos[i] \in Positions /\ best[i] \in Int
             /\ i \in on => pos[i] # Flat /\ pos[i] = BatchTrailed(b.pos[i], b.best[i], bar)
                            /\ best[i] = BatchBest(b.pos[i], b.best[i], bar)
             /\ i \notin on => pos[i] = b.pos[i]
             /\ i \notin hit => books[i] = b.books[i]
             /\ i \in hit => Booked(b.books[i], books[i], b.pos[i], bar, n, reason[i])
  <2>1. CASE i \in hit
    <3>1. books[i] = Closed(b, i, bar, n, reason[i], HitLevel(b.pos[i], reason[i]))
      BY <2>1
    <3>2. i \notin on
      BY <2>1, <1>3, <1>4
    <3>3. pos[i] = b.pos[i] /\ best[i] = b.best[i]
      BY <3>2
    <3> HIDE DEF books, pos, best
    <3>4. /\ Booked(b.books[i], books[i], b.pos[i], bar, n, reason[i]) /\ books[i] \in Books
      BY <1>4, <2>1, <3>1, ClosedFacts
    <3>5. QED BY <1>2, <2>1, <3>2, <3>3, <3>4
  <2>2. CASE i \in on
    <3>1. i \notin hit
      BY <2>2, <1>3
    <3>2. /\ pos[i] = BatchTrailed(b.pos[i], b.best[i], bar)
          /\ best[i] = BatchBest(b.pos[i], b.best[i], bar) /\ books[i] = b.books[i]
      BY <2>2, <3>1
    <3> HIDE DEF books, pos, best
    <3>3. pos[i] \in Position /\ pos[i] # Flat /\ best[i] \in Int
      BY <1>2, <1>5, <2>2, <3>2, BatchTrailedFacts
    <3>4. QED BY <1>2, <2>2, <3>1, <3>2, <3>3 DEF Positions
  <2>3. CASE i \notin on /\ i \notin hit
    <3>1. pos[i] = b.pos[i] /\ best[i] = b.best[i] /\ books[i] = b.books[i]
      BY <2>3
    <3> HIDE DEF books, pos, best
    <3>2. QED BY <1>2, <2>3, <3>1
  <2>4. QED BY <2>1, <2>2, <2>3
<1>7. DOMAIN books = Ids /\ DOMAIN pos = Ids /\ DOMAIN best = Ids
      /\ books = [i \in Ids |-> books[i]] /\ best = [i \in Ids |-> best[i]]
  OBVIOUS
<1> HIDE DEF books, pos, best
<1>8. /\ DOMAIN c = BatFields /\ c.active = b.active /\ c.idle = b.idle
      /\ c.books = books /\ c.pos = pos /\ c.best = best /\ c.prev = b.prev /\ c.done = b.done
  BY <1>2 DEF BatFields
<1> HIDE DEF c
<1>9. /\ DOMAIN r = BatFields /\ Parted(r.active, r.idle)
      /\ Range(r.active) = Range(b.active) \ hit
      /\ r.pos = [i \in Ids |-> IF i \in hit THEN Flat ELSE pos[i]]
      /\ r.best = best /\ r.prev = b.prev /\ r.books = books /\ r.done = b.done
  BY <1>2, <1>8, DeactivateFacts
<1> HIDE DEF r
<1>10. ASSUME NEW i \in Ids
       PROVE  /\ r.pos[i] = IF i \in hit THEN Flat ELSE pos[i]
              /\ r.best[i] = best[i] /\ r.books[i] = books[i]
  BY <1>9
<1>11. \A i \in Ids : r.pos[i] \in Positions /\ r.best[i] \in Int /\ r.books[i] \in Books
  BY <1>6, <1>10 DEF Positions
<1>12. IsBatch(r)
  <2>1. /\ DOMAIN r.pos = Ids /\ r.best = [i \in Ids |-> r.best[i]]
        /\ r.books = [i \in Ids |-> r.books[i]]
        /\ r.pos = [i \in Ids |-> r.pos[i]]
    BY <1>7, <1>9
  <2>2. r.pos \in [Ids -> Positions] /\ r.best \in [Ids -> Int] /\ r.books \in [Ids -> Books]
    BY <1>11, <2>1
  <2>3. QED BY <1>9, <2>2 DEF IsBatch
<1>13. ASSUME NEW i \in Ids PROVE Went(b, r, i, bar, n)
  <2>1. CASE i \in hit
    <3>1. /\ b.pos[i] \in Position /\ b.pos[i] # Flat
          /\ reason[i] \in {"StopLoss", "TakeProfit", "TrailingStop"}
          /\ reason[i] = ExitReason(b.pos[i], bar)
      BY <1>4, <2>1, PositionFacts
    <3>2. /\ r.pos[i] = Flat
          /\ Booked(b.books[i], r.books[i], b.pos[i], bar, n, ExitReason(b.pos[i], bar))
      BY <1>6, <1>10, <2>1, <3>1
    <3>3. QED BY <3>1, <3>2 DEF Went
  <2>2. CASE i \in on
    <3>1. b.pos[i] # Flat /\ ExitReason(b.pos[i], bar) = "none" /\ i \notin hit
      BY <1>3, <2>2
    <3>2. QED BY <1>6, <1>10, <2>2, <3>1 DEF Went
  <2>3. CASE i \notin hit /\ i \notin on
    <3>1. b.pos[i] = Flat
      BY <1>3, <2>3
    <3>2. QED BY <1>6, <1>10, <2>3, <3>1 DEF Went
  <2>4. QED BY <2>1, <2>2, <2>3
<1>14. Range(r.active) = {i \in Ids : r.pos[i] # Flat}
  <2>1. \A i \in Ids : i \in Range(r.active) <=> r.pos[i] # Flat
    <3>1. SUFFICES ASSUME NEW i \in Ids PROVE i \in Range(r.active) <=> r.pos[i] # Flat
      OBVIOUS
    <3>2. i \in Range(r.active) <=> b.pos[i] # Flat /\ i \notin hit
      BY <1>2, <1>9
    <3>3. b.pos[i] # Flat /\ i \notin hit <=> i \in on
      BY <1>3
    <3>4. QED BY <1>6, <1>10, <3>2, <3>3
  <2>2. Range(r.active) \subseteq Ids
    BY <1>2, <1>9
  <2>3. QED BY <2>1, <2>2
<1>15. QED BY <1>1, <1>9, <1>12, <1>13, <1>14 DEF Lists

----------------------------------------------------------------------------
(* One bar of the batch evaluator: entries.                                *)

\* One list after the other.
LEMMA JoinedFacts ==
  ASSUME NEW s \in Seq(Ids), NEW t \in Seq(Ids), Once(s), Once(t), Range(s) \cap Range(t) = {}
  PROVE  s \o t \in Seq(Ids) /\ Once(s \o t) /\ Range(s \o t) = Range(s) \cup Range(t)
<1> DEFINE m == Len(s)
           n == Len(t)
           r == s \o t
<1>1. /\ r \in Seq(Ids) /\ Len(r) = m + n /\ m \in Nat /\ n \in Nat
      /\ \A j \in 1 .. m + n : r[j] = IF j <= m THEN s[j] ELSE t[j - m]
      /\ DOMAIN s = 1 .. m /\ DOMAIN t = 1 .. n
  OBVIOUS
<1> HIDE DEF r
<1>2. DOMAIN r = 1 .. m + n
  BY <1>1
<1>3. /\ Range(s) = {s[j] : j \in 1 .. m} /\ Range(t) = {t[j] : j \in 1 .. n}
      /\ Range(r) = {r[j] : j \in 1 .. m + n}
  BY <1>1, <1>2 DEF Range
<1>4. \A j \in 1 .. m : j \in 1 .. m + n /\ r[j] = s[j]
  BY <1>1
<1>5. \A j \in 1 .. n : m + j \in 1 .. m + n /\ r[m + j] = t[j]
  <2>1. SUFFICES ASSUME NEW j \in 1 .. n PROVE m + j \in 1 .. m + n /\ r[m + j] = t[j]
    OBVIOUS
  <2>2. m + j \in 1 .. m + n /\ ~(m + j <= m) /\ (m + j) - m = j
    BY <1>1
  <2>3. QED BY <1>1, <2>2
<1>6. ASSUME NEW j \in 1 .. m + n
      PROVE  \/ j \in 1 .. m /\ r[j] = s[j]
             \/ j - m \in 1 .. n /\ r[j] = t[j - m]
  BY <1>1
<1>7. Once(r)
  <2>1. SUFFICES ASSUME NEW i \in 1 .. m + n, NEW j \in 1 .. m + n, r[i] = r[j] PROVE i = j
    BY <1>2 DEF Once
  <2>2. CASE i \in 1 .. m /\ j \in 1 .. m
    <3>1. r[i] = s[i] /\ r[j] = s[j]
      BY <1>4, <2>2
    <3>2. QED BY <1>1, <2>1, <2>2, <3>1 DEF Once
  <2>3. CASE i - m \in 1 .. n /\ j - m \in 1 .. n
    <3>1. ~(i \in 1 .. m) /\ ~(j \in 1 .. m)
      BY <1>1, <2>3
    <3>2. r[i] = t[i - m] /\ r[j] = t[j - m]
      BY <1>6, <3>1
    <3>3. i - m = j - m
      BY <1>1, <2>1, <2>3, <3>2 DEF Once
    <3>4. QED BY <1>1, <3>3
  <2>4. ASSUME NEW k \in 1 .. m, NEW l \in 1 .. m + n, l - m \in 1 .. n, r[k] = r[l] PROVE FALSE
    <3>1. ~(l \in 1 .. m)
      BY <1>1, <2>4
    <3>2. r[l] = t[l - m] /\ r[k] = s[k]
      BY <1>4, <1>6, <3>1
    <3>3. t[l - m] \in Range(t) /\ s[k] \in Range(s)
      BY <1>3, <2>4
    <3>4. QED BY <2>4, <3>2, <3>3
  <2>5. QED BY <1>6, <2>1, <2>2, <2>3, <2>4
<1>8. Range(r) = Range(s) \cup Range(t)
  <2>1. \A x \in Range(r) : x \in Range(s) \cup Range(t)
    BY <1>3, <1>6
  <2>2. \A x \in Range(s) \cup Range(t) : x \in Range(r)
    BY <1>3, <1>4, <1>5
  <2>3. QED BY <2>1, <2>2
<1>9. QED BY <1>1, <1>7, <1>8 DEF r

\* What a signal does to the batch: what is idle is opened.
LEMMA OpenAllFacts ==
  ASSUME strategy \in Strategies, NEW b, IsBatch(b), Lists(b), NEW bar \in Bars, NEW n \in Nat,
         NEW side \in {1, -1}
  PROVE  LET r == OpenAll(b, bar, n, side)
         IN  /\ IsBatch(r) /\ Lists(r) /\ r.prev = b.prev /\ r.done = b.done /\ r.books = b.books
             /\ \A i \in Ids :
                  /\ b.pos[i] # Flat => r.pos[i] = b.pos[i] /\ r.best[i] = b.best[i]
                  /\ b.pos[i] = Flat => /\ r.pos[i] = BatchOpened(i, bar, n, side)
                                        /\ r.best[i] = Entry(bar, side) + BatchCost(bar)
<1> DEFINE price == Entry(bar, side) + BatchCost(bar)
           active == b.active \o b.idle
           none == <<>>
           pos == [i \in Ids |-> IF i \in Range(b.idle) THEN BatchOpened(i, bar, n, side) ELSE b.pos[i]]
           best == [i \in Ids |-> IF i \in Range(b.idle) THEN price ELSE b.best[i]]
           r == [b EXCEPT !.active = active, !.idle = none, !.pos = pos, !.best = best]
<1>1. OpenAll(b, bar, n, side) = r
  BY DEF OpenAll
<1>2. /\ DOMAIN b = BatFields /\ Parted(b.active, b.idle)
      /\ Range(b.active) = {i \in Ids : b.pos[i] # Flat}
      /\ \A i \in Ids : b.pos[i] \in Positions /\ b.best[i] \in Int
      /\ b.books \in [Ids -> Books]
  BY DEF IsBatch, Lists
<1>3. \A i \in Ids : i \in Range(b.idle) <=> b.pos[i] = Flat
  BY <1>2 DEF Parted
<1>4. price \in Int
  BY BarFacts, BatchCostFacts
<1> HIDE DEF price
<1>5. ASSUME NEW i \in Ids
      PROVE  /\ b.pos[i] # Flat => pos[i] = b.pos[i] /\ best[i] = b.best[i]
             /\ b.pos[i] = Flat => pos[i] = BatchOpened(i, bar, n, side) /\ best[i] = price
             /\ pos[i] # Flat /\ pos[i] \in Positions /\ best[i] \in Int
  <2>1. BatchOpened(i, bar, n, side) \in Positions /\ BatchOpened(i, bar, n, side) # Flat
    BY BatchOpenedFacts DEF Positions
  <2>2. QED BY <1>2, <1>3, <1>4, <2>1
<1>6. pos \in [Ids -> Positions] /\ best \in [Ids -> Int]
  <2>1. pos = [i \in Ids |-> pos[i]] /\ best = [i \in Ids |-> best[i]]
    OBVIOUS
  <2> HIDE DEF pos, best
  <2>2. QED BY <1>5, <2>1
<1>7. active \in Seq(Ids) /\ Once(active) /\ Range(active) = Ids
  <2>1. /\ b.active \in Seq(Ids) /\ b.idle \in Seq(Ids) /\ Once(b.active) /\ Once(b.idle)
        /\ Range(b.active) \cap Range(b.idle) = {} /\ Range(b.active) \cup Range(b.idle) = Ids
    BY <1>2 DEF Parted
  <2>2. QED BY <2>1, JoinedFacts
<1>8. none \in Seq(Ids) /\ Once(none) /\ Range(none) = {}
  BY DEF Once, Range
<1> HIDE DEF pos, best, active, none
<1>9. Parted(active, none)
  BY <1>7, <1>8 DEF Parted
<1>10. /\ DOMAIN r = BatFields /\ r.active = active /\ r.idle = none /\ r.pos = pos /\ r.best = best
       /\ r.prev = b.prev /\ r.done = b.done /\ r.books = b.books
  BY <1>2 DEF BatFields
<1> HIDE DEF r
<1>11. IsBatch(r)
  BY <1>2, <1>6, <1>10 DEF IsBatch
<1>12. Lists(r)
  BY <1>5, <1>7, <1>9, <1>10 DEF Lists
<1>13. QED BY <1>1, <1>5, <1>10, <1>11, <1>12 DEF price

\* What the batch holds of candidate i after bar, and whether it was opened by it.
LEMMA BatchBarFacts ==
  ASSUME strategy \in Strategies, NEW b, IsBatch(b), Lists(b), NEW bar \in Bars, NEW n \in Nat
  PROVE  LET c == ProcessBar(b, bar, n)
             r == BatchBar(b, bar, n)
             side == IF bar.quarantined THEN 0 ELSE BatchSignal(b.prev, bar)
         IN  /\ IsBatch(r) /\ Lists(r) /\ r.done = b.done /\ side \in {0, 1, -1}
             /\ r.prev = IF bar.quarantined THEN b.prev
                         ELSE [k \in Directional |-> bar.col[Column(k)]]
             /\ \A i \in Ids :
                  /\ Went(b, c, i, bar, n) /\ r.books[i] = c.books[i]
                  /\ c.pos[i] # Flat \/ side = 0 => r.pos[i] = c.pos[i] /\ r.best[i] = c.best[i]
                  /\ c.pos[i] = Flat /\ side # 0 =>
                       /\ r.pos[i] = BatchOpened(i, bar, n, side)
                       /\ r.best[i] = Entry(bar, side) + BatchCost(bar)
<1> DEFINE c == ProcessBar(b, bar, n)
           r == BatchBar(b, bar, n)
           signal == BatchSignal(b.prev, bar)
           side == IF bar.quarantined THEN 0 ELSE signal
           opened == IF signal = 0 THEN c ELSE OpenAll(c, bar, n, signal)
           prev == [k \in Directional |-> bar.col[Column(k)]]
           e == [opened EXCEPT !.prev = prev]
<1>1. /\ IsBatch(c) /\ Lists(c) /\ c.prev = b.prev /\ c.done = b.done
      /\ \A i \in Ids : Went(b, c, i, bar, n)
  BY ProcessBarFacts
<1>2. signal \in {0, 1, -1}
  <2>1. \A firing : Fired(firing) \in {0, 1, -1}
    BY DEF Fired
  <2>2. QED BY <2>1 DEF BatchSignal
<1>3. r = IF bar.quarantined THEN c ELSE e
  BY <1>1 DEF BatchBar
<1> HIDE DEF c, signal
<1>4. CASE bar.quarantined
  <2>1. r = c /\ side = 0
    BY <1>3, <1>4
  <2> HIDE DEF r, side
  <2>2. QED BY <1>1, <1>4, <2>1 DEF c, r, side, signal
<1>5. CASE ~bar.quarantined
  <2>1. /\ IsBatch(opened) /\ Lists(opened) /\ opened.done = b.done /\ opened.books = c.books
        /\ \A i \in Ids :
             /\ c.pos[i] # Flat \/ signal = 0 => opened.pos[i] = c.pos[i] /\ opened.best[i] = c.best[i]
             /\ c.pos[i] = Flat /\ signal # 0 =>
                  /\ opened.pos[i] = BatchOpened(i, bar, n, signal)
                  /\ opened.best[i] = Entry(bar, signal) + BatchCost(bar)
    <3>1. CASE signal = 0
      BY <1>1, <3>1
    <3>2. CASE signal # 0
      <4>1. signal \in {1, -1}
        BY <1>2, <3>2
      <4> DEFINE o == OpenAll(c, bar, n, signal)
      <4>2. /\ IsBatch(o) /\ Lists(o) /\ o.done = c.done /\ o.books = c.books
            /\ \A i \in Ids :
                 /\ c.pos[i] # Flat => o.pos[i] = c.pos[i] /\ o.best[i] = c.best[i]
                 /\ c.pos[i] = Flat => /\ o.pos[i] = BatchOpened(i, bar, n, signal)
                                       /\ o.best[i] = Entry(bar, signal) + BatchCost(bar)
        BY <1>1, <4>1, OpenAllFacts
      <4> HIDE DEF o
      <4>3. opened = o
        BY <3>2 DEF o
      <4> HIDE DEF opened
      <4>4. QED BY <1>1, <3>2, <4>2, <4>3
    <3>3. QED BY <3>1, <3>2
  <2> HIDE DEF opened, prev
  <2>2. /\ DOMAIN e = BatFields /\ e.prev = prev /\ e.pos = opened.pos /\ e.best = opened.best
        /\ e.books = opened.books /\ e.done = opened.done /\ e.active = opened.active
        /\ e.idle = opened.idle
    BY <2>1 DEF IsBatch, BatFields
  <2>3. r = e /\ side = signal
    BY <1>3, <1>5
  <2> HIDE DEF e, r, side
  <2>4. IsBatch(e) /\ Lists(e)
    BY <2>1, <2>2 DEF IsBatch, Lists
  <2>5. QED BY <1>1, <1>2, <1>5, <2>1, <2>2, <2>3, <2>4 DEF c, r, side, signal, prev
<1>6. QED BY <1>4, <1>5 DEF c, signal

----------------------------------------------------------------------------
(* The end of the data; the peak and the drawdown of a book.               *)

\* Every open position is closed at the end of the data.
LEMMA CloseAllFacts ==
  ASSUME NEW b, IsBatch(b), Lists(b), NEW bar \in Bars, NEW n \in Nat
  PROVE  LET r == CloseAllEod(b, bar, n)
         IN  /\ IsBatch(r) /\ Lists(r) /\ r.prev = b.prev
             /\ \A i \in Ids :
                  /\ r.pos[i] = Flat
                  /\ b.pos[i] = Flat => r.books[i] = b.books[i]
                  /\ b.pos[i] # Flat =>
                       Booked(b.books[i], r.books[i], b.pos[i], bar, n, "EndOfData")
<1> DEFINE hit == Range(b.active)
           books == [i \in Ids |-> IF i \notin hit THEN b.books[i] ELSE
                       Closed(b, i, bar, n, "EndOfData", Current(bar, b.pos[i].dir))]
           c == [b EXCEPT !.books = books]
           r == Deactivate(c, hit)
<1>1. CloseAllEod(b, bar, n) = r
  BY DEF CloseAllEod
<1>2. /\ DOMAIN b = BatFields /\ Parted(b.active, b.idle)
      /\ hit = {i \in Ids : b.pos[i] # Flat}
      /\ \A i \in Ids : b.pos[i] \in Positions /\ b.best[i] \in Int /\ b.books[i] \in Books
      /\ b.best \in [Ids -> Int]
  BY DEF IsBatch, Lists
<1> HIDE DEF hit
<1>3. ASSUME NEW i \in Ids
      PROVE  /\ books[i] \in Books
             /\ b.pos[i] = Flat => books[i] = b.books[i]
             /\ b.pos[i] # Flat =>
                  Booked(b.books[i], books[i], b.pos[i], bar, n, "EndOfData")
  <2>1. CASE b.pos[i] = Flat
    <3>1. books[i] = b.books[i]
      BY <1>2, <2>1
    <3>2. QED BY <1>2, <2>1, <3>1
  <2>2. CASE b.pos[i] # Flat
    <3>1. b.pos[i] \in Position
      BY <1>2, <2>2 DEF Positions
    <3>2. Current(bar, b.pos[i].dir) \in Int
      BY <3>1, BarFacts, PositionFacts
    <3>3. books[i] = Closed(b, i, bar, n, "EndOfData", Current(bar, b.pos[i].dir))
      BY <1>2, <2>2
    <3> HIDE DEF books
    <3>4. QED BY <2>2, <3>1, <3>2, <3>3, ClosedFacts
  <2>3. QED BY <2>1, <2>2
<1>4. books \in [Ids -> Books]
  <2>1. books = [i \in Ids |-> books[i]]
    OBVIOUS
  <2> HIDE DEF books
  <2>2. QED BY <1>3, <2>1
<1> HIDE DEF books
<1>5. /\ DOMAIN c = BatFields /\ c.active = b.active /\ c.idle = b.idle
      /\ c.books = books /\ c.pos = b.pos /\ c.best = b.best /\ c.prev = b.prev
  BY <1>2 DEF BatFields
<1> HIDE DEF c
<1>6. /\ DOMAIN r = BatFields /\ Parted(r.active, r.idle)
      /\ Range(r.active) = Range(b.active) \ hit
      /\ r.pos = [i \in Ids |-> IF i \in hit THEN Flat ELSE b.pos[i]]
      /\ r.best = b.best /\ r.prev = b.prev /\ r.books = books
  BY <1>2, <1>5, DeactivateFacts
<1> HIDE DEF r
<1>7. \A i \in Ids : r.pos[i] = Flat
  BY <1>2, <1>6
<1>8. r.pos = [i \in Ids |-> Flat]
  <2>1. r.pos = [i \in Ids |-> r.pos[i]]
    BY <1>6
  <2>2. QED BY <1>7, <2>1
<1>9. r.pos \in [Ids -> Positions]
  BY <1>8 DEF Positions
<1>10. IsBatch(r)
  BY <1>2, <1>4, <1>6, <1>9 DEF IsBatch
<1>11. Lists(r)
  BY <1>2, <1>6, <1>7 DEF Lists, hit
<1>12. QED BY <1>1, <1>3, <1>6, <1>7, <1>10, <1>11

----------------------------------------------------------------------------
(* Books.                                                                  *)

\* The running sums of a book.
LEMMA CumulatedFacts ==
  ASSUME NEW s \in Seq(Trades)
  PROVE  /\ DOMAIN Cumulated(s) = 1 .. Len(s) + 1
         /\ \A k \in 1 .. Len(s) + 1 : Cumulated(s)[k] \in Int
         /\ Cumulated(s)[Len(s) + 1] = Sum(s)
<1> DEFINE n == Len(s)
<1>1. n \in Nat /\ n + 1 \in 1 .. n + 1 /\ (n + 1) - 1 = n /\ SubSeq(s, 1, n) = s
  OBVIOUS
<1>2. ASSUME NEW k \in 1 .. n + 1 
      PROVE  Cumulated(s)[k] = Sum(SubSeq(s, 1, k - 1)) /\ Cumulated(s)[k] \in Int
  <2>1. Cumulated(s)[k] = Sum(SubSeq(s, 1, k - 1))
    BY DEF Cumulated
  <2>2. SubSeq(s, 1, k - 1) \in Seq(Trades)
    BY <1>1
  <2>3. \E t : t \in Trades
    <3>1. [dir |-> 1, entry |-> 0, exit |-> 0, reason |-> "StopLoss", pnl |-> 0] \in Trades
      BY DEF Trades
    <3>2. QED BY <3>1
  <2>4. QED BY <2>1, <2>2, <2>3, SumFacts
<1>3. QED BY <1>1, <1>2 DEF Cumulated

\* One more trade is one more sum.
LEMMA CumulatedMore ==
  ASSUME NEW s \in Seq(Trades), NEW t \in Trades
  PROVE  /\ \A k \in 1 .. Len(s) + 1 : Cumulated(Append(s, t))[k] = Cumulated(s)[k]
         /\ Cumulated(Append(s, t))[Len(s) + 2] = Sum(s) + t.pnl
<1> DEFINE n == Len(s)
           u == Append(s, t)
<1>1. u \in Seq(Trades) /\ Len(u) = n + 1 /\ n \in Nat
  OBVIOUS
<1>2. \A k \in 1 .. n + 1 : SubSeq(u, 1, k - 1) = SubSeq(s, 1, k - 1)
  OBVIOUS
<1>3. Sum(u) = Sum(s) + t.pnl
  BY SumFacts
<1> HIDE DEF u
<1>4. \A k \in 1 .. n + 1 : k \in 1 .. Len(u) + 1
  BY <1>1
<1>5. ASSUME NEW k \in 1 .. n + 1 PROVE Cumulated(u)[k] = Cumulated(s)[k]
  BY <1>1, <1>2, <1>4 DEF Cumulated
<1>6. Len(u) + 1 = n + 2
  BY <1>1
<1>7. QED BY <1>1, <1>3, <1>5, <1>6, CumulatedFacts DEF u

\* The book of no trade.
LEMMA EmptyBookRight == NoBook \in Books /\ BookRight(NoBook)
<1> DEFINE c == Cumulated(<<>>)
<1>1. /\ NoBook.trades = <<>> /\ NoBook.cum = 0 /\ NoBook.peak = 0 /\ NoBook.maxdd = 0
      /\ <<>> \in Seq(Trades) /\ Len(<<>>) = 0
  BY DEF NoBook
<1>2. NoBook \in Books
  BY <1>1 DEF NoBook, Books
<1>3. DOMAIN c = 1 .. 0 + 1 /\ c[0 + 1] = 0
  BY <1>1, EmptySum, CumulatedFacts
<1> HIDE DEF c
<1>4. \A k : k \in 1 .. 0 + 1 <=> k = 1
  OBVIOUS
<1>5. DOMAIN c = 1 .. 1 /\ c[1] = 0
  BY <1>3
<1>6. IsDeepest(0, c)
  <2>1. \E k \in DOMAIN c : \E j \in 1 .. k : 0 = c[j] - c[k]
    <3>1. 1 \in DOMAIN c /\ 1 \in 1 .. 1 /\ 0 = c[1] - c[1]
      BY <1>5
    <3>2. QED BY <3>1
  <2>2. \A k \in DOMAIN c : \A j \in 1 .. k : 0 >= c[j] - c[k]
    BY <1>5
  <2>3. QED BY <2>1, <2>2 DEF IsDeepest
<1>7. BookRight(NoBook)
  <2>1. NoBook.cum = Sum(NoBook.trades) /\ Cumulated(NoBook.trades) = c
    BY <1>1, EmptySum DEF c
  <2>2. Tops(0, c)
    BY <1>5 DEF Tops
  <2>4. QED BY <1>1, <1>6, <2>1, <2>2 DEF BookRight
<1>8. QED BY <1>2, <1>7

\* e is c and one more sum.
Extends(c, e, n) ==
  /\ n \in Nat /\ n > 0 /\ DOMAIN c = 1 .. n /\ DOMAIN e = 1 .. n + 1 /\ e[n + 1] \in Int
  /\ \A k \in 1 .. n : c[k] \in Int /\ e[k] = c[k]
Higher(x, y) == IF x > y THEN x ELSE y

\* One value more after the greatest of those before it and their deepest fall.
LEMMA DeepestMore ==
  ASSUME NEW n, NEW c, NEW e, Extends(c, e, n), NEW peak \in Int, NEW fall \in Int,
         Tops(peak, c), IsDeepest(fall, c)
  PROVE  /\ Tops(Higher(e[n + 1], peak), e)
         /\ IsDeepest(Higher(Higher(e[n + 1], peak) - e[n + 1], fall), e)
<1> DEFINE x == e[n + 1]
           top == IF x > peak THEN x ELSE peak
           deep == IF top - x > fall THEN top - x ELSE fall
<1>a. /\ n \in Nat /\ n > 0 /\ DOMAIN c = 1 .. n /\ DOMAIN e = 1 .. n + 1 /\ x \in Int
      /\ \A k \in 1 .. n : c[k] \in Int /\ e[k] = c[k]
  BY DEF Extends
<1>b. top \in Int
  BY <1>a
<1>c. deep \in Int
  BY <1>a, <1>b
<1>d. top = Higher(x, peak) /\ deep = Higher(Higher(x, peak) - x, fall)
  BY DEF Higher
<1> HIDE DEF x
<1>0. (\A k \in 1 .. n : c[k] <= peak) /\ \E k \in 1 .. n : c[k] = peak
  BY <1>a DEF Tops
<1>1. \A k \in 1 .. n + 1 : k \in 1 .. n \/ k = n + 1
  BY <1>a
<1>2. \A k \in 1 .. n : k \in 1 .. n + 1
  BY <1>a
<1>3. n + 1 \in 1 .. n + 1
  BY <1>a
<1>4. \A k \in 1 .. n + 1 : e[k] \in Int /\ e[k] <= top
  BY <1>0, <1>1, <1>a, <1>b DEF x
<1>5. PICK p \in 1 .. n + 1 : e[p] = top
  <2>1. CASE x > peak
    BY <1>3, <2>1 DEF x
  <2>2. CASE ~(x > peak)
    BY <1>0, <1>2, <1>a, <2>2
  <2>3. QED BY <2>1, <2>2
<1>6. deep \in Int /\ deep >= fall /\ deep >= top - x
  BY <1>a, <1>b
<1>7. \A k \in 1 .. n + 1 : \A j \in 1 .. k : deep >= e[j] - e[k]
  <2>1. SUFFICES ASSUME NEW k \in 1 .. n + 1, NEW j \in 1 .. k PROVE deep >= e[j] - e[k]
    OBVIOUS
  <2>2. CASE k \in 1 .. n
    <3>1. j \in 1 .. n
      BY <1>a, <2>2
    <3>2. fall >= c[j] - c[k]
      BY <1>a, <2>2 DEF IsDeepest
    <3>3. QED BY <1>6, <1>a, <2>2, <3>1, <3>2
  <2>3. CASE k = n + 1
    <3>1. j \in 1 .. n + 1
      BY <2>3
    <3>2. QED BY <1>4, <1>6, <1>a, <2>3, <3>1 DEF x
  <2>4. QED BY <1>1, <2>2, <2>3
<1>8. \E k \in 1 .. n + 1 : \E j \in 1 .. k : deep = e[j] - e[k]
  <2>1. CASE top - x > fall
    <3>1. p \in 1 .. n + 1 /\ deep = e[p] - e[n + 1]
      BY <1>5, <2>1 DEF x
    <3>2. QED BY <1>3, <3>1
  <2>2. CASE ~(top - x > fall)
    <3>1. PICK k \in 1 .. n : \E j \in 1 .. k : fall = c[j] - c[k]
      BY <1>a DEF IsDeepest
    <3>2. PICK j \in 1 .. k : fall = c[j] - c[k]
      BY <3>1
    <3>3. j \in 1 .. n /\ k \in 1 .. n + 1
      BY <1>a
    <3>4. deep = e[j] - e[k]
      BY <1>a, <2>2, <3>2, <3>3
    <3>5. QED BY <3>3, <3>4
  <2>3. QED BY <2>1, <2>2
<1>9. IsDeepest(deep, e)
  BY <1>a, <1>7, <1>8 DEF IsDeepest
<1>10. Tops(top, e)
  BY <1>a, <1>4, <1>5 DEF Tops
<1> HIDE DEF top, deep
<1>11. QED BY <1>9, <1>10, <1>d DEF x

\* record_pnl finds peak and drawdown of one trade more.
LEMMA RecordKeepsRight ==
  ASSUME NEW book \in Books, BookRight(book), NEW t \in Trades
  PROVE  BookRight(RecordPnl(book, t))
<1> DEFINE s == book.trades
           c == Cumulated(s)
           e == Cumulated(Append(s, t))
           cum == book.cum + t.pnl
           peak == IF cum > book.peak THEN cum ELSE book.peak
           r == RecordPnl(book, t)
           n == Len(s) + 1
<1>1. /\ s \in Seq(Trades) /\ book.cum \in Int /\ book.peak \in Int /\ book.maxdd \in Int
      /\ t.pnl \in Int /\ Append(s, t) \in Seq(Trades) /\ Len(Append(s, t)) = Len(s) + 1
  BY DEF Books, Trades
<1>2. /\ r.trades = Append(s, t) /\ r.cum = cum /\ r.peak = peak
      /\ r.maxdd = IF peak - cum > book.maxdd THEN peak - cum ELSE book.maxdd
  BY RecordFacts
<1>3. n \in Nat /\ n > 0 /\ DOMAIN c = 1 .. n /\ \A k \in 1 .. n : c[k] \in Int
  BY <1>1, CumulatedFacts
<1>4. DOMAIN e = 1 .. n + 1 /\ e[n + 1] = Sum(s) + t.pnl /\ \A k \in 1 .. n : e[k] = c[k]
  <2>1. DOMAIN e = 1 .. (Len(s) + 1) + 1
    BY <1>1, CumulatedFacts
  <2>2. (Len(s) + 1) + 1 = Len(s) + 2
    BY <1>1
  <2> HIDE DEF c, e
  <2>3. /\ \A k \in 1 .. Len(s) + 1 : e[k] = c[k]
        /\ e[Len(s) + 2] = Sum(s) + t.pnl
    BY <1>1, CumulatedMore DEF c, e
  <2>4. QED BY <2>1, <2>2, <2>3
<1>5. /\ book.cum = Sum(s) /\ Tops(book.peak, c)
      /\ IsDeepest(book.maxdd, c)
  BY <1>3 DEF BookRight
<1>6. cum \in Int /\ e[n + 1] = cum
  BY <1>1, <1>4, <1>5
<1>7. peak \in Int
  BY <1>1, <1>6
<1> HIDE DEF c, e, cum, n, r
<1> DEFINE high == book.peak
           fall == book.maxdd
           deep == IF peak - cum > fall THEN peak - cum ELSE fall
<1>8. peak = Higher(cum, high) /\ deep = Higher(Higher(cum, high) - cum, fall)
  BY DEF Higher
<1> HIDE DEF peak, deep
<1>12. Tops(peak, e) /\ IsDeepest(deep, e)
  <2>1. Extends(c, e, n)
    BY <1>3, <1>4, <1>6 DEF Extends
  <2>2. high \in Int /\ fall \in Int /\ Tops(high, c) /\ IsDeepest(fall, c)
    BY <1>1, <1>5
  <2> HIDE DEF high, fall
  <2>3. /\ Tops(Higher(e[n + 1], high), e)
        /\ IsDeepest(Higher(Higher(e[n + 1], high) - e[n + 1], fall), e)
    BY <2>1, <2>2, DeepestMore
  <2>4. QED BY <1>6, <1>8, <2>3
<1>9. Sum(r.trades) = cum /\ Cumulated(r.trades) = e
  <2>1. Sum(Append(s, t)) = Sum(s) + t.pnl
    BY <1>1, SumFacts
  <2>2. QED BY <1>2, <1>5, <2>1 DEF cum, e
<1>10. BookRight(r)
  BY <1>2, <1>9, <1>12 DEF BookRight, deep
<1>11. QED BY <1>10 DEF r

----------------------------------------------------------------------------
(* The drawdown of the metrics: the walk over the points.                  *)

\* What the pass over the points keeps.
Walks == [peak : Int, start : Int, falling : BOOLEAN, pips : Int, duration : Int]
StartOfWalk(points) ==
  [peak |-> points[1][2], start |-> points[1][1], falling |-> FALSE, pips |-> 0, duration |-> 0]
EndOfWalk(points, w) ==
  <<w.pips, IF w.falling /\ Last(points)[1] - w.start > w.duration
            THEN Last(points)[1] - w.start ELSE w.duration>>
WalkOf(points, g) ==
  [k \in 0 .. Len(points) |-> IF k = 0 THEN StartOfWalk(points) ELSE Fallen(g[k - 1], points[k])]

\* One point more.
LEMMA FallenFacts ==
  ASSUME NEW w \in Walks, NEW p, p[1] \in Int, p[2] \in Int
  PROVE  LET r == Fallen(w, p)
         IN  /\ r \in Walks
             /\ p[2] >= w.peak =>
                  /\ r.peak = p[2] /\ r.start = p[1] /\ r.falling = FALSE /\ r.pips = w.pips
                  /\ r.duration = IF w.falling /\ p[1] - w.start > w.duration
                                  THEN p[1] - w.start ELSE w.duration
             /\ ~(p[2] >= w.peak) =>
                  /\ r.peak = w.peak /\ r.start = w.start /\ r.falling = TRUE
                  /\ r.pips = (IF w.peak - p[2] > w.pips THEN w.peak - p[2] ELSE w.pips)
                  /\ r.duration = w.duration
<1> DEFINE t == p[1]
           v == p[2]
           span == t - w.start
           fall == w.peak - v
           long == IF w.falling /\ span > w.duration THEN span ELSE w.duration
           deep == IF fall > w.pips THEN fall ELSE w.pips
           r == Fallen(w, p)
<1>1. /\ w.peak \in Int /\ w.start \in Int /\ w.falling \in BOOLEAN /\ w.pips \in Int
      /\ w.duration \in Int
  BY DEF Walks
<1>2. span \in Int /\ fall \in Int
  BY <1>1
<1>3. long \in Int /\ deep \in Int
  BY <1>1, <1>2
<1> DEFINE up == [peak |-> v, start |-> t, falling |-> FALSE, pips |-> w.pips, duration |-> long]
           down == [peak |-> w.peak, start |-> w.start, falling |-> TRUE, pips |-> deep,
                    duration |-> w.duration]
<1>4. r = IF v >= w.peak THEN up ELSE down
  BY DEF Fallen
<1> HIDE DEF span, fall, long, deep, t, v
<1>5. t \in Int /\ v \in Int
  BY DEF t, v
<1>6. /\ up \in Walks /\ up.peak = v /\ up.start = t /\ up.falling = FALSE /\ up.pips = w.pips
      /\ up.duration = long
  BY <1>1, <1>3, <1>5 DEF Walks
<1>7. /\ down \in Walks /\ down.peak = w.peak /\ down.start = w.start /\ down.falling = TRUE
      /\ down.pips = deep /\ down.duration = w.duration
  BY <1>1, <1>3 DEF Walks
<1> HIDE DEF r, up, down
<1>8. CASE v >= w.peak
  <2>1. r = up
    BY <1>4, <1>8
  <2>2. QED BY <1>6, <1>8, <2>1 DEF r, v, t, long, span
<1>9. CASE ~(v >= w.peak)
  <2>1. r = down
    BY <1>4, <1>9
  <2>2. QED BY <1>7, <1>9, <2>1 DEF r, v, deep, fall
<1>10. QED BY <1>8, <1>9

\* Drawdown is where the pass over the points ends.
LEMMA DrawdownIs ==
  ASSUME NEW points \in Seq(Nat \X Int), Len(points) > 0
  PROVE  \E g : /\ g[0] = StartOfWalk(points)
                /\ \A k \in 1 .. Len(points) : g[k] = Fallen(g[k - 1], points[k])
                /\ Drawdown(points) = EndOfWalk(points, g[Len(points)])
<1> DEFINE n == Len(points)
           b == StartOfWalk(points)
           step == [q \in (1 .. n) \X Walks |-> Fallen(q[2], points[q[1]])]
           g == CHOOSE h : h = WalkOf(points, h)
<1>1. n \in Nat /\ 1 \in 1 .. n /\ \A k \in 1 .. n : points[k] \in Nat \X Int
  OBVIOUS
<1>2. \A k \in 1 .. n : points[k][1] \in Int /\ points[k][2] \in Int
  BY <1>1
<1>3. b \in Walks
  BY <1>1, <1>2 DEF StartOfWalk, Walks
<1>4. step \in [(1 .. n) \X Walks -> Walks]
  <2>1. ASSUME NEW q \in (1 .. n) \X Walks PROVE Fallen(q[2], points[q[1]]) \in Walks
    <3>1. q[1] \in 1 .. n /\ q[2] \in Walks
      OBVIOUS
    <3>2. points[q[1]][1] \in Int /\ points[q[1]][2] \in Int
      BY <1>2, <3>1
    <3>3. QED BY <3>1, <3>2, FallenFacts
  <2>2. QED BY <2>1
<1>5. PICK f \in [0 .. n -> Walks] : Follows(f, b, step, n)
  <2> HIDE DEF b, step
  <2>1. QED BY <1>1, <1>3, <1>4, RecursionExists
<1>6. \A k \in 1 .. n : f[k] = Fallen(f[k - 1], points[k])
  <2>1. SUFFICES ASSUME NEW k \in 1 .. n PROVE f[k] = Fallen(f[k - 1], points[k])
    OBVIOUS
  <2>2. f[k] = step[<<k, f[k - 1]>>]
    BY <1>5 DEF Follows
  <2>3. k - 1 \in 0 .. n
    BY <1>1
  <2>4. f[k - 1] \in Walks
    BY <1>5, <2>3
  <2>5. QED BY <2>2, <2>4
<1>7. f = WalkOf(points, f)
  <2>1. \A k \in 0 .. n : k # 0 => k \in 1 .. n
    BY <1>1
  <2>2. f[0] = b
    BY <1>5 DEF Follows
  <2> HIDE DEF b, step
  <2>3. \A k \in 0 .. n : f[k] = IF k = 0 THEN b ELSE Fallen(f[k - 1], points[k])
    BY <1>6, <2>1, <2>2
  <2>4. QED BY <1>5, <2>3 DEF WalkOf, b
<1>8. g = WalkOf(points, g)
  BY <1>7
<1>9. Drawdown(points) = EndOfWalk(points, g[n])
  BY DEF Drawdown, EndOfWalk, WalkOf, StartOfWalk
<1> HIDE DEF g
<1>10. g[0] = b
  BY <1>1, <1>8 DEF WalkOf
<1>11. \A k \in 1 .. n : g[k] = Fallen(g[k - 1], points[k])
  <2>1. \A k \in 1 .. n : k \in 0 .. n /\ k # 0
    BY <1>1
  <2>2. QED BY <1>8, <2>1 DEF WalkOf
<1>12. QED BY <1>9, <1>10, <1>11

----------------------------------------------------------------------------
(* The walk knows its last peak, its deepest fall and its longest span.    *)

\* The walk w over the first k points has its peak at j.
PeakAt(points, k, w, j) ==
  /\ j \in 1 .. k /\ w \in Walks
  /\ w.peak = points[j][2] /\ w.start = points[j][1] /\ (w.falling <=> j < k)
  /\ \A i \in 1 .. k : points[i][2] <= points[j][2]
  /\ \A i \in j + 1 .. k : points[i][2] < points[j][2]

\* The deepest fall among them.
FallsTo(points, k, x) ==
  /\ \E m \in 1 .. k : \E l \in 1 .. m : x = points[l][2] - points[m][2]
  /\ \A m \in 1 .. k : \A l \in 1 .. m : x >= points[l][2] - points[m][2]

\* The longest span from a peak before j.
SpansTo(points, j, x) ==
  /\ x \in Spans(points) \cup {0}
  /\ \A i \in 1 .. j - 1 : \A m \in i + 1 .. Len(points) :
       FromPeak(points, i, m) => points[m][1] - points[i][1] <= x

\* Points are numbers, and rise in time.
LEMMA PointFacts ==
  ASSUME NEW points, Rising(points)
  PROVE  /\ Len(points) \in Nat /\ DOMAIN points = 1 .. Len(points)
         /\ \A k \in 1 .. Len(points) : points[k][1] \in Int /\ points[k][2] \in Int
         /\ \A j, k \in 1 .. Len(points) : j <= k => points[j][1] <= points[k][1]
<1>1. points \in Seq(Nat \X Int)
  BY DEF Rising
<1>2. \A k \in 1 .. Len(points) : points[k] \in Nat \X Int
  BY <1>1
<1>3. QED BY <1>1, <1>2 DEF Rising

\* What is a span.
LEMMA SpansFacts ==
  ASSUME NEW points, Rising(points)
  PROVE  /\ \A j \in 1 .. Len(points) : \A k \in j + 1 .. Len(points) :
              FromPeak(points, j, k) => points[k][1] - points[j][1] \in Spans(points)
         /\ \A x \in Spans(points) : \E j \in 1 .. Len(points) : \E k \in j + 1 .. Len(points) :
              FromPeak(points, j, k) /\ x = points[k][1] - points[j][1]
<1> DEFINE From(j) == {i \in j + 1 .. Len(points) : FromPeak(points, j, i)}
           Of(j) == {points[k][1] - points[j][1] : k \in From(j)}
<1>1. Spans(points) = UNION {Of(j) : j \in 1 .. Len(points)}
  BY PointFacts DEF Spans
<1>2. \A j \in 1 .. Len(points) : \A x \in Of(j) : \E k \in j + 1 .. Len(points) :
        FromPeak(points, j, k) /\ x = points[k][1] - points[j][1]
  OBVIOUS
<1>3. \A j \in 1 .. Len(points) : \A k \in j + 1 .. Len(points) :
        FromPeak(points, j, k) => points[k][1] - points[j][1] \in Of(j)
  OBVIOUS
<1> HIDE DEF Of
<1>4. \A x : x \in Spans(points) <=> \E j \in 1 .. Len(points) : x \in Of(j)
  BY ONLY <1>1
<1>5. \A j \in 1 .. Len(points) : \A k \in j + 1 .. Len(points) :
           FromPeak(points, j, k) => points[k][1] - points[j][1] \in Spans(points)
  BY ONLY <1>3, <1>4
<1>6. QED BY ONLY <1>2, <1>4, <1>5

\* The first point is a peak.
LEMMA WalkBegins ==
  ASSUME NEW points, Rising(points), Len(points) > 0
  PROVE  LET w == Fallen(StartOfWalk(points), points[1])
         IN  PeakAt(points, 1, w, 1) /\ FallsTo(points, 1, w.pips) /\ SpansTo(points, 1, w.duration)
<1> DEFINE w == Fallen(StartOfWalk(points), points[1])
           t == points[1][1]
           v == points[1][2]
<1>1. t \in Int /\ v \in Int /\ 1 \in 1 .. Len(points)
  BY PointFacts
<1> DEFINE s == StartOfWalk(points)
<1>2. /\ s \in Walks /\ s.peak = v /\ s.start = t /\ s.falling = FALSE /\ s.pips = 0
      /\ s.duration = 0
  BY <1>1 DEF StartOfWalk, Walks
<1>3. /\ w \in Walks /\ w.peak = v /\ w.start = t /\ w.falling = FALSE /\ w.pips = 0
      /\ w.duration = 0
  <2>1. v >= v
    BY <1>1
  <2> DEFINE r == Fallen(s, points[1])
  <2>2. /\ r \in Walks /\ r.peak = v /\ r.start = t /\ r.falling = FALSE /\ r.pips = s.pips
        /\ r.duration = IF s.falling /\ t - s.start > s.duration THEN t - s.start ELSE s.duration
    <3> HIDE DEF s
    <3>1. QED BY <1>1, <1>2, <2>1, FallenFacts
  <2>3. w = r
    OBVIOUS
  <2> HIDE DEF s, r, w
  <2>4. QED BY <1>2, <2>2, <2>3
<1> HIDE DEF w
<1>4. PeakAt(points, 1, w, 1)
  BY <1>1, <1>3 DEF PeakAt
<1>5. FallsTo(points, 1, w.pips)
  <2>1. \A m \in 1 .. 1 : m = 1
    OBVIOUS
  <2>2. 1 \in 1 .. 1 /\ 0 = v - v
    BY <1>1
  <2>3. QED BY <1>3, <2>1, <2>2 DEF FallsTo
<1>6. SpansTo(points, 1, w.duration)
  BY <1>3 DEF SpansTo
<1>7. QED BY <1>4, <1>5, <1>6 DEF w

\* One point more.
LEMMA FallsMore ==
  ASSUME NEW points, Rising(points), NEW k \in 1 .. Len(points) - 1, NEW w, NEW j,
         PeakAt(points, k, w, j), FallsTo(points, k, w.pips)
  PROVE  FallsTo(points, k + 1, Fallen(w, points[k + 1]).pips)
<1> DEFINE p == points[k + 1]
           r == Fallen(w, p)
           V(i) == points[i][2]
           n == Len(points)
           deep == IF w.peak - p[2] > w.pips THEN w.peak - p[2] ELSE w.pips
<1>1. /\ n \in Nat /\ k + 1 \in 1 .. n /\ \A i \in 1 .. n : points[i][1] \in Int /\ V(i) \in Int
      /\ j \in 1 .. n /\ j \in 1 .. k + 1 /\ k + 1 \in 1 .. k + 1
  BY PointFacts DEF PeakAt
<1>2. /\ w \in Walks /\ j \in 1 .. k /\ w.peak = V(j) /\ \A i \in 1 .. k : V(i) <= V(j)
      /\ w.pips \in Int
  BY DEF PeakAt, Walks
<1>3. /\ p[2] >= w.peak => r.pips = w.pips
      /\ ~(p[2] >= w.peak) => r.pips = deep
  BY <1>1, <1>2, FallenFacts
<1>4. \A i \in 1 .. k : i \in 1 .. n /\ i \in 1 .. k + 1 /\ V(i) \in Int
  BY <1>1
<1>5. \A m \in 1 .. k + 1 : m \in 1 .. k \/ m = k + 1
  OBVIOUS
<1>6. r.pips \in Int /\ r.pips >= w.pips /\ r.pips >= w.peak - p[2] /\ w.pips >= 0
  <2>1. w.pips >= V(j) - V(j)
    BY <1>2 DEF FallsTo
  <2>2. w.pips >= 0
    BY <1>1, <1>2, <2>1
  <2>3. QED BY <1>1, <1>2, <1>3, <2>2
<1>7. \A m \in 1 .. k + 1 : \A l \in 1 .. m : r.pips >= V(l) - V(m)
  <2>1. SUFFICES ASSUME NEW m \in 1 .. k + 1, NEW l \in 1 .. m PROVE r.pips >= V(l) - V(m)
    OBVIOUS
  <2>2. CASE m \in 1 .. k
    <3>1. w.pips >= V(l) - V(m) /\ l \in 1 .. k
      BY <2>2 DEF FallsTo
    <3>2. V(l) \in Int /\ V(m) \in Int
      BY <1>4, <2>2, <3>1
    <3> HIDE DEF V, r
    <3>3. QED BY <1>2, <1>6, <3>1, <3>2
  <2>3. CASE m = k + 1
    <3>1. CASE l = k + 1
      <4>1. V(l) - V(m) = 0
        BY <1>1, <2>3, <3>1
      <4> HIDE DEF V, r
      <4>2. QED BY <1>2, <1>6, <4>1
    <3>2. CASE l \in 1 .. k
      <4>1. V(l) <= w.peak /\ V(l) \in Int /\ w.peak \in Int /\ V(m) = p[2] /\ p[2] \in Int
        BY <1>1, <1>2, <1>4, <2>3, <3>2
      <4> HIDE DEF V, r, p
      <4>2. QED BY <1>6, <4>1
    <3>3. QED BY <1>5, <2>3, <3>1, <3>2
  <2>4. QED BY <1>5, <2>2, <2>3
<1>8. \E m \in 1 .. k + 1 : \E l \in 1 .. m : r.pips = V(l) - V(m)
  <2>1. CASE r.pips = w.pips
    <3>1. PICK m \in 1 .. k : \E l \in 1 .. m : w.pips = V(l) - V(m)
      BY DEF FallsTo
    <3> HIDE DEF V, r
    <3>2. QED BY <1>4, <2>1, <3>1
  <2>2. CASE r.pips = w.peak - p[2]
    <3>1. r.pips = V(j) - V(k + 1)
      BY <1>2, <2>2
    <3> HIDE DEF V, r
    <3>2. QED BY <1>1, <3>1
  <2>3. QED BY <1>3, <2>1, <2>2
<1>9. QED BY <1>7, <1>8 DEF FallsTo

\* A point ends the span of the last peak, or goes on with it.
LEMMA SpansMore ==
  ASSUME NEW points, Rising(points), NEW k \in 1 .. Len(points) - 1, NEW w, NEW j,
         PeakAt(points, k, w, j), SpansTo(points, j, w.duration)
  PROVE  LET r == Fallen(w, points[k + 1])
         IN  \E i \in {j, k + 1} : PeakAt(points, k + 1, r, i) /\ SpansTo(points, i, r.duration)
<1> DEFINE p == points[k + 1]
           r == Fallen(w, p)
           V(i) == points[i][2]
           T(i) == points[i][1]
           n == Len(points)
<1>1. /\ n \in Nat /\ k + 1 \in 1 .. n /\ k \in Nat
      /\ \A i \in 1 .. n : T(i) \in Int /\ V(i) \in Int
      /\ \A i, m \in 1 .. n : i <= m => T(i) <= T(m)
  BY PointFacts
<1>2. /\ w \in Walks /\ j \in 1 .. k /\ w.peak = V(j) /\ w.start = T(j) /\ (w.falling <=> j < k)
      /\ \A i \in 1 .. k : V(i) <= V(j)
      /\ \A i \in j + 1 .. k : V(i) < V(j)
      /\ w.duration \in Int
  BY DEF PeakAt, Walks
<1>3. /\ r \in Walks
      /\ p[2] >= w.peak =>
           /\ r.peak = p[2] /\ r.start = p[1] /\ r.falling = FALSE
           /\ r.duration = IF w.falling /\ p[1] - w.start > w.duration
                           THEN p[1] - w.start ELSE w.duration
      /\ ~(p[2] >= w.peak) =>
           r.peak = w.peak /\ r.start = w.start /\ r.falling = TRUE /\ r.duration = w.duration
  BY <1>1, <1>2, FallenFacts
<1>4. \A i \in 1 .. k + 1 : i \in 1 .. k \/ i = k + 1
  BY <1>1
<1>5. /\ j \in 1 .. n /\ j <= k /\ j \in 1 .. k + 1 /\ k + 1 \in 1 .. k + 1
      /\ \A i \in 1 .. k : i \in 1 .. n
  BY <1>1, <1>2
<1>6. CASE ~(V(k + 1) >= V(j))
  <2>1. \A i \in 1 .. k + 1 : V(i) <= V(j)
    BY <1>1, <1>2, <1>4, <1>5, <1>6
  <2>2. \A i \in j + 1 .. k + 1 : V(i) < V(j)
    <3>1. \A i \in j + 1 .. k + 1 : i \in j + 1 .. k \/ i = k + 1
      BY <1>1
    <3>2. V(k + 1) < V(j)
      BY <1>1, <1>5, <1>6
    <3> HIDE DEF V
    <3>3. QED BY <1>2, <3>1, <3>2
  <2>3. r.peak = V(j) /\ r.start = T(j) /\ r.falling = TRUE /\ r.duration = w.duration
    BY <1>2, <1>3, <1>6
  <2>4. j < k + 1
    BY <1>1, <1>5
  <2>5. PeakAt(points, k + 1, r, j)
    <3> HIDE DEF r
    <3>1. QED BY <1>3, <1>5, <2>1, <2>2, <2>3, <2>4 DEF PeakAt
  <2>6. QED BY <2>3, <2>5
<1>7. CASE V(k + 1) >= V(j)
  <2>1. \A i \in 1 .. k + 1 : V(i) <= V(k + 1)
    <3>1. SUFFICES ASSUME NEW i \in 1 .. k + 1 PROVE V(i) <= V(k + 1)
      OBVIOUS
    <3>2. CASE i = k + 1
      BY <1>1, <3>2
    <3>3. CASE i \in 1 .. k
      <4>1. V(i) <= V(j) /\ V(i) \in Int /\ V(j) \in Int /\ V(k + 1) \in Int
        BY <1>1, <1>2, <1>5, <3>3
      <4> HIDE DEF V
      <4>2. QED BY <1>7, <4>1
    <3>4. QED BY <1>4, <3>2, <3>3
  <2>2. r.peak = V(k + 1) /\ r.start = T(k + 1) /\ r.falling = FALSE
    BY <1>2, <1>3, <1>7
  <2>3. ~(k + 1 < k + 1) /\ \A i : i \notin (k + 1) + 1 .. k + 1
    BY <1>1
  <2>4. PeakAt(points, k + 1, r, k + 1)
    <3> HIDE DEF r
    <3>1. QED BY <1>3, <1>5, <2>1, <2>2, <2>3 DEF PeakAt
  <2> DEFINE span == T(k + 1) - T(j)
  <2>5. span \in Int /\ r.duration = IF j < k /\ span > w.duration THEN span ELSE w.duration
    BY <1>1, <1>2, <1>3, <1>5, <1>7
  <2>6. r.duration \in Int /\ r.duration >= w.duration /\ (j < k => r.duration >= span)
    <3> HIDE DEF span, r
    <3>1. QED BY <1>2, <2>5
  <2>7. r.duration \in Spans(points) \cup {0}
    <3>1. CASE r.duration = w.duration
      BY <3>1 DEF SpansTo
    <3>2. CASE j < k /\ r.duration = span
      <4>1. FromPeak(points, j, k + 1)
        <5>1. k + 1 > j + 1 /\ (k + 1) - 1 = k
          BY <1>1, <1>5, <3>2
        <5>2. \A i \in 1 .. j : i \in 1 .. k
          BY <1>1, <1>5
        <5>3. QED BY <1>2, <5>1, <5>2 DEF FromPeak
      <4>2. k + 1 \in j + 1 .. n
        BY <1>1, <1>5
      <4>3. span \in Spans(points)
        BY <1>5, <4>1, <4>2, SpansFacts
      <4>4. QED BY <3>2, <4>3
    <3>3. QED BY <2>5, <3>1, <3>2
  <2>8. ASSUME NEW i \in 1 .. (k + 1) - 1, NEW m \in i + 1 .. n, FromPeak(points, i, m)
        PROVE  T(m) - T(i) <= r.duration
    <3>1. /\ \A l \in 1 .. i : V(l) <= V(i)
          /\ \A l \in i + 1 .. m - 1 : V(l) < V(i)
          /\ V(m) < V(i) \/ m > i + 1
      BY <2>8 DEF FromPeak
    <3>2. i \in 1 .. k /\ i \in 1 .. n /\ m \in 1 .. n /\ T(i) \in Int /\ T(m) \in Int
      BY <1>1
    <3>3. CASE i < j
      <4>1. i \in 1 .. j - 1
        BY <1>5, <3>2, <3>3
      <4>2. T(m) - T(i) <= w.duration
        BY <2>8, <4>1 DEF SpansTo
      <4> HIDE DEF T, r
      <4>3. QED BY <1>2, <2>6, <3>2, <4>2
    <3>4. CASE i > j
      <4>1. i \in j + 1 .. k /\ j \in 1 .. i
        BY <1>1, <1>5, <3>2, <3>4
      <4>2. V(i) < V(j) /\ V(j) <= V(i) /\ V(i) \in Int /\ V(j) \in Int
        BY <1>1, <1>2, <1>5, <3>1, <3>2, <4>1
      <4> HIDE DEF V
      <4>3. QED BY <4>2
    <3>5. CASE i = j
      <4>1. m <= k + 1
        <5>1. SUFFICES ASSUME m > k + 1 PROVE FALSE
          BY <1>1, <3>2
        <5>2. k + 1 \in i + 1 .. m - 1
          BY <1>1, <3>2, <5>1
        <5>3. V(k + 1) < V(j) /\ V(j) \in Int /\ V(k + 1) \in Int
          BY <1>1, <1>5, <3>1, <3>5, <5>2
        <5> HIDE DEF V
        <5>4. QED BY <1>7, <5>3
      <4>2. j < k
        <5>1. SUFFICES ASSUME j = k PROVE FALSE
          BY <1>1, <1>5
        <5>2. m = k + 1 /\ ~(m > i + 1)
          BY <1>1, <3>2, <3>5, <4>1, <5>1
        <5>3. V(k + 1) < V(j) /\ V(j) \in Int /\ V(k + 1) \in Int
          BY <1>1, <1>5, <3>1, <3>5, <5>2
        <5> HIDE DEF V
        <5>4. QED BY <1>7, <5>3
      <4>3. T(m) <= T(k + 1) /\ T(k + 1) \in Int /\ T(j) \in Int
        BY <1>1, <1>5, <3>2, <4>1
      <4>4. r.duration >= span
        BY <2>6, <4>2
      <4> HIDE DEF T, r
      <4>5. QED BY <2>6, <3>2, <3>5, <4>3, <4>4
    <3>6. QED BY <1>5, <3>2, <3>3, <3>4, <3>5
  <2>9. SpansTo(points, k + 1, r.duration)
    <3> HIDE DEF r
    <3>1. QED BY <2>7, <2>8 DEF SpansTo
  <2>10. QED BY <2>4, <2>9
<1>8. QED BY <1>6, <1>7

----------------------------------------------------------------------------
(* What the walk ends with.                                                *)

\* The walk w stands after the first k points.
Walked(points, k, w) ==
  \E j \in 1 .. Len(points) :
    PeakAt(points, k, w, j) /\ FallsTo(points, k, w.pips) /\ SpansTo(points, j, w.duration)

\* The walk over all points.
LEMMA WalkedTo ==
  ASSUME NEW points, Rising(points), Len(points) > 0, NEW g, g[0] = StartOfWalk(points),
         \A k \in 1 .. Len(points) : g[k] = Fallen(g[k - 1], points[k])
  PROVE  Walked(points, Len(points), g[Len(points)])
<1> DEFINE n == Len(points)
           G == {k \in 0 .. n : k # 0 => Walked(points, k, g[k])}
<1>1. n \in Nat /\ n \in 0 .. n /\ 0 \in G /\ 1 \in 1 .. n
  BY PointFacts
<1>2. \A k \in 1 .. n : k - 1 \in G => k \in G
  <2>1. SUFFICES ASSUME NEW k \in 1 .. n, k - 1 \in G PROVE Walked(points, k, g[k])
    BY <1>1
  <2>2. CASE k = 1
    <3>1. g[1] = Fallen(StartOfWalk(points), points[1])
      <4>1. 1 - 1 = 0
        OBVIOUS
      <4>2. QED BY <1>1, <4>1
    <3>2. /\ PeakAt(points, 1, g[1], 1) /\ FallsTo(points, 1, g[1].pips)
          /\ SpansTo(points, 1, g[1].duration)
      BY <3>1, WalkBegins
    <3>3. QED BY <1>1, <2>2, <3>2 DEF Walked
  <2>3. CASE k # 1
    <3> DEFINE l == k - 1
               w == g[l]
    <3>1. l \in 1 .. n - 1 /\ l # 0 /\ l + 1 = k
      BY <1>1, <2>3
    <3>2. Walked(points, l, w)
      BY <2>1, <3>1
    <3>3. PICK j : /\ PeakAt(points, l, w, j) /\ FallsTo(points, l, w.pips)
                   /\ SpansTo(points, j, w.duration)
      BY <3>2 DEF Walked
    <3>4. g[k] = Fallen(w, points[k])
      OBVIOUS
    <3> HIDE DEF l, w
    <3>5. FallsTo(points, k, g[k].pips)
      BY <3>1, <3>3, <3>4, FallsMore
    <3>6. \E i \in {j, k} : PeakAt(points, k, g[k], i) /\ SpansTo(points, i, g[k].duration)
      BY <3>1, <3>3, <3>4, SpansMore
    <3>7. PICK i : PeakAt(points, k, g[k], i) /\ SpansTo(points, i, g[k].duration)
      BY <3>6
    <3>8. i \in 1 .. n
      BY <1>1, <3>7 DEF PeakAt
    <3>9. QED BY <3>5, <3>7, <3>8 DEF Walked
  <2>4. QED BY <2>2, <2>3
<1> HIDE DEF G
<1>3. \A k \in 0 .. n : k \in G
  BY <1>1, <1>2, Upwards
<1>4. n \in G /\ n # 0
  BY <1>1, <1>3
<1>5. QED BY <1>4 DEF G

\* The drawdown of the metrics over points whose bars rise.
Deepest(points, d) ==
  /\ IsDeepest(d[1], [k \in DOMAIN points |-> points[k][2]])
  /\ d[2] \in Spans(points) \cup {0}
  /\ \A span \in Spans(points) : span <= d[2]

\* The one-pass drawdown is the deepest fall and the longest span.
LEMMA DrawdownDeepest ==
  ASSUME NEW points, Rising(points), points # <<>>
  PROVE  Deepest(points, Drawdown(points))
<1> DEFINE n == Len(points)
           V(i) == points[i][2]
           T(i) == points[i][1]
<1>1. points \in Seq(Nat \X Int)
  BY DEF Rising
<1>2. n > 0
  BY <1>1
<1>3. /\ n \in Nat /\ n \in 1 .. n /\ DOMAIN points = 1 .. n
      /\ \A i \in 1 .. n : T(i) \in Int /\ V(i) \in Int
      /\ \A i, m \in 1 .. n : i <= m => T(i) <= T(m)
  BY <1>2, PointFacts
<1>4. PICK g : /\ g[0] = StartOfWalk(points)
               /\ \A k \in 1 .. n : g[k] = Fallen(g[k - 1], points[k])
               /\ Drawdown(points) = EndOfWalk(points, g[n])
  BY <1>1, <1>2, DrawdownIs
<1>5. Walked(points, n, g[n])
  BY <1>2, <1>4, WalkedTo
<1>6. PICK w : w = g[n]
  OBVIOUS
<1>7. PICK j : /\ PeakAt(points, n, w, j) /\ FallsTo(points, n, w.pips)
               /\ SpansTo(points, j, w.duration)
  BY <1>5, <1>6 DEF Walked
<1> DEFINE span == T(n) - T(j)
           end == IF w.falling /\ span > w.duration THEN span ELSE w.duration
           d == Drawdown(points)
<1>8. /\ w \in Walks /\ j \in 1 .. n /\ w.peak = V(j) /\ w.start = T(j) /\ (w.falling <=> j < n)
      /\ \A i \in 1 .. n : V(i) <= V(j)
      /\ \A i \in j + 1 .. n : V(i) < V(j)
      /\ w.duration \in Int /\ w.pips \in Int /\ w.falling \in BOOLEAN
  BY <1>7 DEF PeakAt, Walks
<1>9. d[1] = w.pips /\ d[2] = end
  <2>1. Last(points) = points[n]
    BY <1>1 DEF Last
  <2>2. d = <<w.pips, IF w.falling /\ T(n) - w.start > w.duration THEN T(n) - w.start ELSE w.duration>>
    BY <1>4, <1>6, <2>1 DEF EndOfWalk
  <2> HIDE DEF d
  <2>3. QED BY <1>8, <2>2
<1>10. span \in Int /\ end \in Int /\ end >= w.duration /\ (j < n => end >= span)
  <2>1. span \in Int
    BY <1>3, <1>8
  <2> HIDE DEF span
  <2>2. QED BY <1>8, <2>1
<1>11. IsDeepest(w.pips, [k \in DOMAIN points |-> points[k][2]])
  <2> DEFINE eq == [k \in DOMAIN points |-> points[k][2]]
  <2>1. DOMAIN eq = 1 .. n /\ \A k \in 1 .. n : eq[k] = V(k)
    BY <1>3
  <2>2. \A m \in 1 .. n : \A l \in 1 .. m : l \in 1 .. n
    BY <1>3
  <2>3. PICK m \in 1 .. n : \E l \in 1 .. m : w.pips = V(l) - V(m)
    BY <1>7 DEF FallsTo
  <2>4. PICK l \in 1 .. m : w.pips = V(l) - V(m)
    BY <2>3
  <2>5. \A k \in 1 .. n : \A i \in 1 .. k : w.pips >= V(i) - V(k)
    BY <1>7 DEF FallsTo
  <2> HIDE DEF eq, V
  <2>6. w.pips = eq[l] - eq[m]
    BY <2>1, <2>2, <2>4
  <2>7. \A k \in 1 .. n : \A i \in 1 .. k : w.pips >= eq[i] - eq[k]
    BY <2>1, <2>2, <2>5
  <2>8. IsDeepest(w.pips, eq)
    BY <2>1, <2>6, <2>7 DEF IsDeepest
  <2>9. QED BY <2>8 DEF eq
<1>12. end \in Spans(points) \cup {0}
  <2>1. CASE end = w.duration
    BY <1>7, <2>1 DEF SpansTo
  <2>2. CASE j < n /\ end = span
    <3>1. n \in j + 1 .. n /\ V(n) < V(j)
      BY <1>3, <1>8, <2>2
    <3>2. FromPeak(points, j, n)
      <4>1. \A i \in 1 .. j : i \in 1 .. n
        BY <1>3, <1>8
      <4>2. \A i \in j + 1 .. n - 1 : i \in j + 1 .. n
        BY <1>3, <1>8
      <4>3. QED BY <1>8, <3>1, <4>1, <4>2 DEF FromPeak
    <3>3. QED BY <1>8, <2>2, <3>1, <3>2, SpansFacts
  <2>3. QED BY <1>8, <2>1, <2>2
<1>13. ASSUME NEW x \in Spans(points) PROVE x <= end
  <2>1. PICK i \in 1 .. n : \E k \in i + 1 .. n : FromPeak(points, i, k) /\ x = T(k) - T(i)
    BY SpansFacts
  <2>2. PICK k \in i + 1 .. n : FromPeak(points, i, k) /\ x = T(k) - T(i)
    BY <2>1
  <2>3. i \in Int /\ k \in 1 .. n /\ T(i) \in Int /\ T(k) \in Int
    BY <1>3
  <2>4. CASE i < j
    <3>1. i \in 1 .. j - 1
      BY <1>8, <2>3, <2>4
    <3>2. x <= w.duration
      BY <1>7, <2>2, <3>1 DEF SpansTo
    <3>3. x \in Int
      BY <2>2, <2>3
    <3> HIDE DEF end
    <3>4. QED BY <1>8, <1>10, <3>2, <3>3
  <2>5. CASE i > j
    <3>1. i \in j + 1 .. n /\ j \in 1 .. i
      BY <1>3, <1>8, <2>3, <2>5
    <3>2. V(i) < V(j) /\ V(j) <= V(i) /\ V(i) \in Int /\ V(j) \in Int
      BY <1>3, <1>8, <2>2, <3>1 DEF FromPeak
    <3> HIDE DEF V
    <3>3. QED BY <3>2
  <2>6. CASE i = j
    <3>1. j < n /\ k <= n
      BY <1>3, <1>8, <2>3, <2>6
    <3>2. T(k) <= T(n) /\ T(n) \in Int
      BY <1>3, <2>3
    <3>3. end >= T(n) - T(i) /\ x = T(k) - T(i)
      BY <1>10, <2>2, <2>6, <3>1
    <3> HIDE DEF end, T
    <3>4. QED BY <1>10, <2>3, <3>2, <3>3
  <2>7. QED BY <1>8, <2>3, <2>4, <2>5, <2>6
<1> HIDE DEF end, d
<1>14. QED BY <1>9, <1>11, <1>12, <1>13 DEF Deepest, d

----------------------------------------------------------------------------
(* An opening, and the exit that follows from it.                          *)

\* A position with its trailing stop at x.
LEMMA AtFacts ==
  ASSUME NEW o \in Position, NEW x \in Int
  PROVE  /\ At(o, x) \in Position /\ At(o, x).at = o.at /\ At(o, x).dir = o.dir
         /\ At(o, x).distance = o.distance /\ At(o, x).trail = x
         /\ At(o, o.trail) = o /\ \A y \in Int : At(At(o, x), y) = At(o, y)
BY DEF At, Position

\* The bars of a position are those of the data after the one it was opened on.
LEMMA BarsOf ==
  ASSUME NEW d \in Seq(Bars), NEW o \in Position, NEW n \in Int, n < Len(d)
  PROVE  \A m \in o.at + 1 .. n : /\ m \in Nat /\ m + 1 \in 1 .. Len(d) /\ d[m + 1] \in Bars
                                  /\ Best(d[m + 1], o.dir) \in Int
<1>1. o.at \in Nat /\ o.dir \in {1, -1} /\ Len(d) \in Nat
  BY PositionFacts
<1>2. SUFFICES ASSUME NEW m \in o.at + 1 .. n
               PROVE  /\ m \in Nat /\ m + 1 \in 1 .. Len(d) /\ d[m + 1] \in Bars
                      /\ Best(d[m + 1], o.dir) \in Int
  OBVIOUS
<1>3. m \in Nat /\ m + 1 \in 1 .. Len(d)
  BY <1>1
<1>4. d[m + 1] \in Bars
  BY <1>3
<1>5. QED BY <1>1, <1>3, <1>4, BarFacts

\* There is one level.
LEMMA TrailUnique ==
  ASSUME NEW d \in Seq(Bars), NEW o \in Position, NEW n \in Int, n < Len(d),
         NEW x \in Int, NEW y \in Int, TrailIs(d, o, n, x), TrailIs(d, o, n, y)
  PROVE  x = y
<1> DEFINE L(m) == Best(d[m + 1], o.dir) - o.distance
           M == o.at + 1 .. n
<1>1. o.distance \in Nat /\ o.trail \in Int
  BY PositionFacts
<1>2. \A m \in M : L(m) \in Int
  BY <1>1, BarsOf
<1>3. CASE o.distance = 0
  BY <1>3 DEF TrailIs
<1>4. CASE o.distance # 0
  <2>1. /\ x >= o.trail /\ \A m \in M : x >= L(m)
        /\ x = o.trail \/ \E m \in M : x = L(m)
    BY <1>4 DEF TrailIs
  <2>2. /\ y >= o.trail /\ \A m \in M : y >= L(m)
        /\ y = o.trail \/ \E m \in M : y = L(m)
    BY <1>4 DEF TrailIs
  <2> HIDE DEF L, M
  <2>3. x >= y
    BY <1>1, <1>2, <2>1, <2>2
  <2>4. y >= x
    BY <1>1, <1>2, <2>1, <2>2
  <2>5. QED BY <2>3, <2>4
<1>5. QED BY <1>3, <1>4

\* The level after one bar more.
LEMMA TrailGoesOn ==
  ASSUME NEW d \in Seq(Bars), NEW o \in Position, NEW n \in Nat, n > o.at, n < Len(d),
         NEW x \in Int, TrailIs(d, o, n - 1, x)
  PROVE  LET level == Best(d[n + 1], o.dir) - o.distance
         IN  TrailIs(d, o, n, IF o.distance # 0 /\ level > x THEN level ELSE x)
<1> DEFINE L(m) == Best(d[m + 1], o.dir) - o.distance
           level == L(n)
           y == IF o.distance # 0 /\ level > x THEN level ELSE x
           M == o.at + 1 .. n
           K == o.at + 1 .. n - 1
<1>1. o.distance \in Nat /\ o.trail \in Int /\ o.at \in Nat
  BY PositionFacts
<1>2. \A m \in M : L(m) \in Int
  BY <1>1, BarsOf
<1>3. n \in M /\ \A m \in M : m \in K \/ m = n
  BY <1>1
<1>4. \A m \in K : m \in M
  BY <1>1
<1>5. CASE o.distance = 0
  BY <1>5 DEF TrailIs
<1>6. CASE o.distance # 0
  <2>1. /\ x >= o.trail /\ \A m \in K : x >= L(m)
        /\ x = o.trail \/ \E m \in K : x = L(m)
    BY <1>6 DEF TrailIs
  <2>2. level \in Int
    BY <1>2, <1>3
  <2>3. y \in Int /\ y >= x /\ y >= level /\ (y = x \/ y = level)
    <3> HIDE DEF L
    <3>1. QED BY <1>6, <2>2
  <2> HIDE DEF y
  <2>4. y >= o.trail /\ \A m \in M : y >= L(m)
    <3> HIDE DEF L, M, K
    <3>1. QED BY <1>1, <1>2, <1>3, <1>4, <2>1, <2>3
  <2>5. y = o.trail \/ \E m \in M : y = L(m)
    <3> HIDE DEF L, M, K
    <3>1. QED BY <1>3, <1>4, <2>1, <2>3
  <2>6. QED BY <1>6, <2>4, <2>5 DEF TrailIs, y
<1>7. QED BY <1>5, <1>6

\* What is opened is right.
LEMMA RightOpens ==
  ASSUME NEW d, NEW o \in Position
  PROVE  Right(d, o, o, o.at)
<1>1. o.at \in Nat /\ o.trail \in Int /\ o = At(o, o.trail)
  BY PositionFacts, AtFacts
<1>2. \A m : m \notin o.at + 1 .. o.at
  BY <1>1
<1>3. TrailIs(d, o, o.at, o.trail)
  BY <1>1, <1>2 DEF TrailIs
<1>4. NoExit(d, o, o.at)
  BY <1>2 DEF NoExit
<1>5. QED BY <1>1, <1>3, <1>4 DEF Right

\* The reason of a bar is the one of the position that is right.
LEMMA RightReason ==
  ASSUME NEW d, NEW o, NEW pos, NEW n, Right(d, o, pos, n - 1)
  PROVE  ReasonIs(d, o, n, ExitReason(pos, d[n + 1]))
BY DEF Right, ReasonIs

\* A bar that does not close the position.
LEMMA RightGoesOn ==
  ASSUME NEW d \in Seq(Bars), NEW o \in Position, NEW n \in Nat, n > o.at, n < Len(d),
         NEW pos, Right(d, o, pos, n - 1), ExitReason(pos, d[n + 1]) = "none"
  PROVE  Right(d, o, Trailed(pos, d[n + 1]), n) /\ pos \in Position /\ pos.at = o.at
         /\ pos.dir = o.dir /\ pos.distance = o.distance
<1>1. PICK x \in Int : pos = At(o, x) /\ TrailIs(d, o, n - 1, x) /\ NoExit(d, o, n - 1)
  BY DEF Right
<1> DEFINE bar == d[n + 1]
           level == Best(bar, o.dir) - o.distance
           y == IF o.distance # 0 /\ level > x THEN level ELSE x
<1>2. /\ pos \in Position /\ pos.at = o.at /\ pos.dir = o.dir /\ pos.distance = o.distance
      /\ pos.trail = x /\ pos # Flat /\ \A z \in Int : At(pos, z) = At(o, z)
  BY <1>1, AtFacts, PositionFacts
<1>3. /\ n \in o.at + 1 .. n /\ level \in Int /\ o.at \in Nat
      /\ \A m \in o.at + 1 .. n : m \in o.at + 1 .. n - 1 \/ m = n
  <2>1. o.at \in Nat /\ o.distance \in Nat
    BY PositionFacts
  <2>2. n \in o.at + 1 .. n
    BY <2>1
  <2>3. Best(bar, o.dir) \in Int
    BY <2>2, BarsOf
  <2>4. QED BY <2>1, <2>2, <2>3
<1>4. TrailIs(d, o, n, y)
  BY <1>1, TrailGoesOn
<1>5. Trailed(pos, bar) = At(o, y) /\ y \in Int
  <2>1. CASE o.distance # 0 /\ level > x
    <3>1. Trailed(pos, bar) = [pos EXCEPT !.trail = level]
      BY <1>2, <2>1 DEF Trailed
    <3>2. At(pos, level) = [pos EXCEPT !.trail = level]
      BY DEF At
    <3>3. QED BY <1>2, <1>3, <2>1, <3>1, <3>2
  <2>2. CASE ~(o.distance # 0 /\ level > x)
    <3>1. Trailed(pos, bar) = pos
      BY <1>2, <2>2 DEF Trailed
    <3>2. QED BY <1>1, <2>2, <3>1
  <2>3. QED BY <2>1, <2>2
<1>6. ReasonIs(d, o, n, "none")
  BY RightReason
<1>7. NoExit(d, o, n)
  BY <1>1, <1>3, <1>6 DEF NoExit
<1>8. QED BY <1>2, <1>4, <1>5, <1>7 DEF Right

\* A trade is made of a position that was right before its bar.
LEMMA RightCloses ==
  ASSUME NEW d, NEW o, NEW n, n > o.at, NEW pos, Right(d, o, pos, n - 1), NEW t,
         t.reason = ExitReason(pos, d[n + 1]), t.exit = n,
         t.reason \in {"StopLoss", "TakeProfit", "TrailingStop"}
  PROVE  TradeRight(d, o, t)
<1>1. ReasonIs(d, o, n, t.reason)
  BY RightReason
<1>2. NoExit(d, o, n - 1)
  BY DEF Right
<1>3. QED BY <1>1, <1>2 DEF TradeRight

\* The end of the data.
LEMMA RightEnds ==
  ASSUME NEW d, NEW o, NEW pos, Right(d, o, pos, Length - 1), NEW t,
         t.reason = "EndOfData", t.exit = Length - 1
  PROVE  TradeRight(d, o, t)
BY DEF Right, TradeRight

\* There is one exit.
LEMMA OneReason ==
  ASSUME NEW d \in Seq(Bars), NEW o \in Position, NEW m \in Int, m <= Len(d),
         NEW r, NEW s, ReasonIs(d, o, m, r), ReasonIs(d, o, m, s)
  PROVE  r = s
<1>1. PICK x \in Int : TrailIs(d, o, m - 1, x) /\ r = ExitReason(At(o, x), d[m + 1])
  BY DEF ReasonIs
<1>2. PICK y \in Int : TrailIs(d, o, m - 1, y) /\ s = ExitReason(At(o, y), d[m + 1])
  BY DEF ReasonIs
<1>3. m - 1 \in Int /\ m - 1 < Len(d)
  OBVIOUS
<1>4. x = y
  BY <1>1, <1>2, <1>3, TrailUnique
<1>5. QED BY <1>1, <1>2, <1>4

\* Two trades of one opening have one exit.
LEMMA OneExit ==
  ASSUME NEW d \in Seq(Bars), Len(d) <= Length, NEW o \in Position, NEW t, NEW u,
         t.exit \in Nat, t.exit < Len(d), u.exit \in Nat, u.exit < Len(d),
         TradeRight(d, o, t), TradeRight(d, o, u)
  PROVE  t.exit = u.exit /\ t.reason = u.reason
<1> DEFINE Early(v) == /\ v.reason \in {"StopLoss", "TakeProfit", "TrailingStop"}
                       /\ v.exit > o.at /\ ReasonIs(d, o, v.exit, v.reason)
                       /\ NoExit(d, o, v.exit - 1)
           Late(v) == v.reason = "EndOfData" /\ v.exit = Length - 1 /\ NoExit(d, o, v.exit)
<1>1. (Late(t) \/ Early(t)) /\ (Late(u) \/ Early(u))
  BY DEF TradeRight
<1>2. o.at \in Nat /\ Length \in Nat /\ Len(d) \in Nat
  BY PositionFacts, BoundsOfRunAssumption
<1>3. ASSUME NEW v, Early(v), v.exit \in Nat, v.exit < Len(d), NEW n, n \in Nat, v.exit <= n,
             NoExit(d, o, n)
      PROVE  FALSE
  <2>1. v.exit \in o.at + 1 .. n
    BY <1>2, <1>3
  <2>2. ReasonIs(d, o, v.exit, "none")
    BY <1>3, <2>1 DEF NoExit
  <2>3. v.reason = "none"
    BY <1>2, <1>3, <2>2, OneReason
  <2>4. QED BY <1>3, <2>3
<1>4. CASE Late(t) /\ Late(u)
  BY <1>4
<1>5. CASE Late(t) /\ Early(u)
  <2>1. u.exit <= t.exit
    BY <1>2, <1>5
  <2>2. QED BY <1>3, <1>5, <2>1
<1>6. CASE Early(t) /\ Late(u)
  <2>1. t.exit <= u.exit
    BY <1>2, <1>6
  <2>2. QED BY <1>3, <1>6, <2>1
<1>7. CASE Early(t) /\ Early(u)
  <2>1. CASE t.exit < u.exit
    <3>1. t.exit <= u.exit - 1 /\ u.exit - 1 \in Nat
      BY <2>1
    <3>2. QED BY <1>3, <1>7, <3>1
  <2>2. CASE u.exit < t.exit
    <3>1. u.exit <= t.exit - 1 /\ t.exit - 1 \in Nat
      BY <2>2
    <3>2. QED BY <1>3, <1>7, <3>1
  <2>3. CASE t.exit = u.exit
    <3>1. t.reason = u.reason
      BY <1>2, <1>7, <2>3, OneReason
    <3>2. QED BY <2>3, <3>1
  <2>4. QED BY <2>1, <2>2, <2>3
<1>8. QED BY <1>1, <1>4, <1>5, <1>6, <1>7

----------------------------------------------------------------------------
(* What follows from bars does not change when more are read.              *)

\* The bars e begin with the bars d.
Grown(d, e) ==
  /\ d \in Seq(Bars) /\ e \in Seq(Bars) /\ Len(d) <= Len(e)
  /\ \A k \in 1 .. Len(d) : e[k] = d[k]

\* A bar more.
LEMMA GrowsBy ==
  ASSUME NEW d \in Seq(Bars), NEW bar \in Bars
  PROVE  /\ Grown(d, Append(d, bar)) /\ Append(d, bar)[Len(d) + 1] = bar
         /\ Len(Append(d, bar)) = Len(d) + 1
<1>1. /\ Append(d, bar) \in Seq(Bars) /\ Len(Append(d, bar)) = Len(d) + 1 /\ Len(d) \in Nat
      /\ Append(d, bar)[Len(d) + 1] = bar /\ \A k \in 1 .. Len(d) : Append(d, bar)[k] = d[k]
  OBVIOUS
<1> DEFINE e == Append(d, bar)
<1> HIDE DEF e
<1>2. Len(d) <= Len(e)
  BY <1>1 DEF e
<1>3. QED BY <1>1, <1>2 DEF Grown, e

\* What was right stays right.
LEMMA TrailGrows ==
  ASSUME NEW d, NEW e, Grown(d, e), NEW o \in Position, NEW n \in Int, n < Len(d),
         NEW x, TrailIs(d, o, n, x)
  PROVE  TrailIs(e, o, n, x)
<1>1. \A m \in o.at + 1 .. n : e[m + 1] = d[m + 1]
  <2>1. \A m \in o.at + 1 .. n : m + 1 \in 1 .. Len(d)
    BY BarsOf DEF Grown
  <2>2. QED BY <2>1 DEF Grown
<1>2. QED BY <1>1 DEF TrailIs

\* So are the reasons and the trades.
LEMMA ReasonGrows ==
  ASSUME NEW d, NEW e, Grown(d, e), NEW o \in Position, NEW m \in Nat, m < Len(d),
         NEW r, ReasonIs(d, o, m, r)
  PROVE  ReasonIs(e, o, m, r)
<1>1. PICK x \in Int : TrailIs(d, o, m - 1, x) /\ r = ExitReason(At(o, x), d[m + 1])
  BY DEF ReasonIs
<1>2. m - 1 \in Int /\ m - 1 < Len(d) /\ m + 1 \in 1 .. Len(d)
  BY DEF Grown
<1>3. TrailIs(e, o, m - 1, x)
  BY <1>1, <1>2, TrailGrows
<1>4. e[m + 1] = d[m + 1]
  BY <1>2 DEF Grown
<1>5. QED BY <1>1, <1>3, <1>4 DEF ReasonIs

LEMMA NoExitGrows ==
  ASSUME NEW d, NEW e, Grown(d, e), NEW o \in Position, NEW n \in Int, n < Len(d), NoExit(d, o, n)
  PROVE  NoExit(e, o, n)
<1>1. o.at \in Nat
  BY PositionFacts
<1>2. \A m \in o.at + 1 .. n : m \in Nat /\ m < Len(d)
  BY <1>1 DEF Grown
<1>3. QED BY <1>2, ReasonGrows DEF NoExit

LEMMA RightGrows ==
  ASSUME NEW d, NEW e, Grown(d, e), NEW o \in Position, NEW n \in Int, n < Len(d),
         NEW pos, Right(d, o, pos, n)
  PROVE  Right(e, o, pos, n)
BY TrailGrows, NoExitGrows DEF Right

LEMMA TradeGrows ==
  ASSUME NEW d, NEW e, Grown(d, e), NEW o \in Position, NEW t, t.exit \in Nat, t.exit < Len(d),
         TradeRight(d, o, t)
  PROVE  TradeRight(e, o, t)
<1>1. CASE t.reason = "EndOfData" /\ t.exit = Length - 1 /\ NoExit(d, o, t.exit)
  <2>1. NoExit(e, o, t.exit)
    BY <1>1, NoExitGrows
  <2>2. QED BY <1>1, <2>1 DEF TradeRight
<1>2. CASE /\ t.reason \in {"StopLoss", "TakeProfit", "TrailingStop"}
           /\ t.exit > o.at /\ ReasonIs(d, o, t.exit, t.reason) /\ NoExit(d, o, t.exit - 1)
  <2>1. t.exit - 1 \in Int /\ t.exit - 1 < Len(d)
    BY DEF Grown
  <2>2. NoExit(e, o, t.exit - 1)
    BY <1>2, <2>1, NoExitGrows
  <2>3. ReasonIs(e, o, t.exit, t.reason)
    BY <1>2, ReasonGrows
  <2>4. QED BY <1>2, <2>2, <2>3 DEF TradeRight
<1>3. QED BY <1>1, <1>2 DEF TradeRight

\* The trailing stop of the batch is that of the engine.
LEMMA SameTrailing ==
  ASSUME NEW pos \in Position, NEW best \in Int, NEW bar \in Bars,
         pos.distance > 0 => pos.trail >= best - pos.distance
  PROVE  LET p == Trailed(pos, bar)
         IN  /\ BatchTrailed(pos, best, bar) = p
             /\ p.distance > 0 => p.trail >= BatchBest(pos, best, bar) - p.distance
<1> DEFINE high == Best(bar, pos.dir)
           level == high - pos.distance
           moved == [pos EXCEPT !.trail = level]
<1>1. /\ pos # Flat /\ pos.distance \in Nat /\ pos.trail \in Int /\ high \in Int /\ level \in Int
  BY PositionFacts, BarFacts
<1>2. /\ BatchBest(pos, best, bar) = IF high > best THEN high ELSE best
      /\ BatchTrailed(pos, best, bar) = IF high > best /\ pos.distance > 0 /\ level > pos.trail
                                        THEN moved ELSE pos
      /\ Trailed(pos, bar) = IF pos.distance = 0 THEN pos
                             ELSE IF level > pos.trail THEN moved ELSE pos
  BY <1>1 DEF BatchBest, BatchTrailed, Trailed
<1>3. moved.trail = level /\ moved.distance = pos.distance
  BY <1>1 DEF Position
<1>4. level = high - pos.distance
  OBVIOUS
<1> HIDE DEF moved, high, level
<1>5. CASE pos.distance = 0
  BY <1>1, <1>2, <1>5
<1>6. CASE pos.distance > 0 /\ level > pos.trail
  <2>1. high > best
    BY <1>1, <1>4, <1>6
  <2>2. BatchTrailed(pos, best, bar) = moved /\ Trailed(pos, bar) = moved
        /\ BatchBest(pos, best, bar) = high
    BY <1>1, <1>2, <1>6, <2>1
  <2>3. QED BY <1>1, <1>3, <1>4, <2>2
<1>7. CASE pos.distance > 0 /\ ~(level > pos.trail)
  <2>1. BatchTrailed(pos, best, bar) = pos /\ Trailed(pos, bar) = pos
    BY <1>1, <1>2, <1>7
  <2>2. CASE high > best
    BY <1>1, <1>2, <1>4, <1>7, <2>1, <2>2
  <2>3. CASE ~(high > best)
    BY <1>1, <1>2, <1>4, <1>7, <2>1, <2>3
  <2>4. QED BY <2>2, <2>3
<1>8. QED BY <1>1, <1>5, <1>6, <1>7

\* The best price of what the batch opens is its price.
LEMMA OpensAtBest ==
  ASSUME strategy \in Strategies, NEW i \in Ids, NEW bar \in Bars, NEW n \in Nat,
         NEW side \in {1, -1}
  PROVE  LET p == BatchOpened(i, bar, n, side)
             price == Entry(bar, side) + BatchCost(bar)
         IN  p.distance > 0 => p.trail >= price - p.distance
<1> DEFINE price == Entry(bar, side) + BatchCost(bar)
           p == BatchOpened(i, bar, n, side)
<1>1. p.trail = (IF p.distance = 0 THEN -Far ELSE price - p.distance)
  BY DEF BatchOpened, Opened
<1>2. price \in Int /\ p.distance \in Nat /\ p.trail \in Int
  BY BarFacts, BatchCostFacts, BatchOpenedFacts, PositionFacts
<1> HIDE DEF price, p
<1>3. p.distance > 0 => p.trail >= price - p.distance
  BY <1>1, <1>2
<1>4. QED BY <1>3 DEF price, p

\* The specification opens what its candidate opens.
LEMMA SameOpening ==
  ASSUME strategy \in Strategies, Comparable, NEW i \in SpecCandidates,
         NEW bar \in Bars, Costed(bar), NEW n, NEW side
  PROVE  BatchOpened(i, bar, n, side) = OpenedBy(bar, n, side)
<1> DEFINE c == Candidates[i]
           stop == StopDistance(bar, c.sl)
           reward == stop * c.rr
           fixed == strategy.tp.value
           offer == CASE strategy.tp.type = "none" -> 0
                      [] strategy.tp.type = "risk_reward" -> reward
                      [] strategy.tp.type = "atr_multiple" /\ bar.atr > 0 -> reward
                      [] OTHER -> fixed
           take == IF offer > 0 THEN offer ELSE Far
           far == bar.atr * c.trail
           trail == IF bar.atr > 0 THEN far ELSE 0
           price == Entry(bar, side) + BatchCost(bar)
<1>1. /\ c.sl = strategy.sl.value /\ c.trail = strategy.trailing.value /\ i \in Ids
      /\ strategy.tp.type = "risk_reward" => c.rr = fixed
      /\ strategy.tp.type # "atr_multiple" /\ strategy.trailing.type = "chandelier"
  BY DEF SpecCandidates, Comparable
<1>2. /\ c.sl \in Nat /\ c.sl > 0 /\ bar.atr \in Nat /\ fixed \in Nat /\ c.rr \in Nat
      /\ strategy.tp.type # "none" => fixed > 0
  BY <1>1, IdsFacts, StrategiesAssumption, BarsAssumption
<1>3. price = Entry(bar, side) + Cost(bar)
  BY DEF BatchCost
<1>4. stop \in Nat /\ stop > 0
  <2> DEFINE product == bar.atr * c.sl
  <2>1. product \in Nat /\ (bar.atr > 0 => product > 0)
    BY <1>2
  <2>2. stop = product \/ stop = strategy.sl.value
    BY DEF StopDistance
  <2>3. stop = product => bar.atr > 0 \/ stop = strategy.sl.value
    BY DEF StopDistance
  <2> HIDE DEF product, stop
  <2>4. QED BY <1>1, <1>2, <2>1, <2>2, <2>3
<1>5. trail = TrailingDistance(bar)
  BY <1>1 DEF TrailingDistance
<1>6. take = TakeDistance(bar, stop)
  <2>1. CASE strategy.tp.type = "none"
    <3>1. take = Far
      BY <2>1
    <3>2. QED BY <2>1, <3>1 DEF TakeDistance
  <2>2. CASE strategy.tp.type = "risk_reward"
    <3>1. offer = reward /\ c.rr = fixed /\ fixed > 0
      BY <1>1, <1>2, <2>2
    <3>2. reward > 0
      <4> HIDE DEF stop, c
      <4>1. QED BY <1>2, <1>4, <3>1
    <3>3. take = reward
      <4> HIDE DEF reward
      <4>1. QED BY <3>1, <3>2
    <3>4. TakeDistance(bar, stop) = stop * fixed
      BY <2>2 DEF TakeDistance
    <3>5. QED BY <3>1, <3>3, <3>4
  <2>3. CASE strategy.tp.type \notin {"none", "risk_reward"}
    <3>1. offer = fixed /\ fixed > 0
      BY <1>1, <1>2, <2>3
    <3>2. TakeDistance(bar, stop) = fixed
      BY <1>1, <2>3 DEF TakeDistance
    <3> HIDE DEF fixed, offer
    <3>3. QED BY <3>1, <3>2
  <2>4. QED BY <2>1, <2>2, <2>3
<1>7. BatchOpened(i, bar, n, side) = Opened(bar, n, side, price, stop, take, trail)
  BY DEF BatchOpened
<1>8. OpenedBy(bar, n, side)
        = Opened(bar, n, side, Entry(bar, side) + Cost(bar), stop, TakeDistance(bar, stop),
                 TrailingDistance(bar))
  <2>1. stop = StopDistance(bar, strategy.sl.value)
    BY <1>1
  <2>2. QED BY <2>1 DEF OpenedBy
<1> HIDE DEF price, stop, take, trail
<1>9. QED BY <1>3, <1>5, <1>6, <1>7, <1>8

\* What the engine opens is a position at its bar.
LEMMA OpenedByFacts ==
  ASSUME strategy \in Strategies, NEW bar \in Bars, Costed(bar), NEW n \in Nat, NEW side \in {1, -1}
  PROVE  LET p == OpenedBy(bar, n, side)
         IN  p \in Position /\ p # Flat /\ p.at = n /\ p.dir = side
<1> DEFINE stop == StopDistance(bar, strategy.sl.value)
           price == Entry(bar, side) + Cost(bar)
           take == TakeDistance(bar, stop)
           trail == TrailingDistance(bar)
<1>1. stop \in Nat /\ take \in Nat /\ trail \in Nat
  BY DistanceFacts
<1>2. price \in Int
  BY BarFacts
<1>3. OpenedBy(bar, n, side) = Opened(bar, n, side, price, stop, take, trail)
  BY DEF OpenedBy
<1> HIDE DEF stop, price, take, trail
<1>4. /\ Opened(bar, n, side, price, stop, take, trail) \in Position
      /\ Opened(bar, n, side, price, stop, take, trail).at = n
  BY <1>1, <1>2, OpenedFacts
<1>5. Opened(bar, n, side, price, stop, take, trail).dir = side
  BY DEF Opened
<1>6. QED BY <1>3, <1>4, <1>5, PositionFacts

----------------------------------------------------------------------------
(* The positions and trades of the batch are those of their openings.      *)

\* The parts of BatchExits.
HoldRight(b, d, i) ==
  b.pos[i] # Flat =>
    LET p == b.pos[i]
    IN  /\ p.at < Len(d) /\ (p.distance > 0 => p.trail >= b.best[i] - p.distance)
        /\ Right(d, BatchOpened(i, d[p.at + 1], p.at, p.dir), p, Len(d) - 1)
MadeRight(d, i, t) ==
  /\ t.entry <= t.exit /\ t.exit < Len(d)
  /\ TradeRight(d, BatchOpened(i, d[t.entry + 1], t.entry, t.dir), t)

\* Candidate by candidate.
LEMMA BatchExitsParts ==
  ASSUME NEW b, NEW d
  PROVE  BatchExits(b, d) <=>
           \A i \in Ids : HoldRight(b, d, i) /\ \A t \in Range(b.books[i].trades) : MadeRight(d, i, t)
BY DEF BatchExits, HoldRight, MadeRight

\* The bar of a position, and what was opened on it.
LEMMA OpenerFacts ==
  ASSUME strategy \in Strategies, NEW i \in Ids, NEW d \in Seq(Bars), NEW at \in Nat, at < Len(d),
         NEW side \in {1, -1}
  PROVE  /\ BatchOpened(i, d[at + 1], at, side) \in Position
         /\ BatchOpened(i, d[at + 1], at, side).at = at
         /\ BatchOpened(i, d[at + 1], at, side).dir = side
<1>1. at + 1 \in 1 .. Len(d)
  OBVIOUS
<1>2. d[at + 1] \in Bars
  BY <1>1
<1>3. QED BY <1>2, BatchOpenedFacts

\* A trade stays what its opening leads to.
LEMMA MadeGrows ==
  ASSUME strategy \in Strategies, NEW d, NEW e, Grown(d, e), NEW i \in Ids, NEW t \in Trades,
         MadeRight(d, i, t)
  PROVE  MadeRight(e, i, t)
<1> DEFINE o == BatchOpened(i, d[t.entry + 1], t.entry, t.dir)
<1>1. /\ t.entry <= t.exit /\ t.exit < Len(d) /\ TradeRight(d, o, t)
      /\ t.entry \in Nat /\ t.exit \in Nat /\ t.dir \in {1, -1}
  BY DEF MadeRight, Trades
<1>2. d \in Seq(Bars) /\ Len(d) <= Len(e) /\ Len(d) \in Nat /\ Len(e) \in Nat
      /\ t.entry < Len(d) /\ t.entry + 1 \in 1 .. Len(d)
  BY <1>1 DEF Grown
<1>3. e[t.entry + 1] = d[t.entry + 1] /\ t.exit < Len(e)
  BY <1>1, <1>2 DEF Grown
<1>4. o \in Position
  BY <1>1, <1>2, OpenerFacts
<1> HIDE DEF o
<1>5. TradeRight(e, o, t)
  BY <1>1, <1>4, TradeGrows
<1>6. QED BY <1>1, <1>3, <1>5 DEF MadeRight, o

\* The trade a book has more.
Adds(old, new, pos, n, reason) ==
  \E t \in Trades : /\ t.entry = pos.at /\ t.exit = n /\ t.dir = pos.dir /\ t.reason = reason
                    /\ new = RecordPnl(old, t)
                    /\ new.trades = Append(old.trades, t)
                    /\ Range(new.trades) = Range(old.trades) \cup {t}

\* What is booked is one more trade.
LEMMA BookedFacts ==
  ASSUME NEW old \in Books, NEW new, NEW pos \in Position, NEW bar, NEW n \in Nat,
         NEW reason \in {"StopLoss", "TakeProfit", "TrailingStop", "EndOfData"},
         Booked(old, new, pos, bar, n, reason)
  PROVE  Adds(old, new, pos, n, reason)
<1>1. PICK price \in Int : /\ Trade(pos, bar, n, reason, price) \in Trades
                           /\ new = RecordPnl(old, Trade(pos, bar, n, reason, price))
  BY DEF Booked
<1> DEFINE t == Trade(pos, bar, n, reason, price)
           s == old.trades
<1>2. t \in Trades /\ t.entry = pos.at /\ t.exit = n /\ t.dir = pos.dir /\ t.reason = reason
  BY <1>1, MadeFacts
<1> HIDE DEF t
<1>3. s \in Seq(Trades)
  BY DEF Books
<1>4. new = RecordPnl(old, t) /\ new.trades = Append(s, t)
  BY <1>1, <1>2, RecordFacts DEF t
<1>5. Range(Append(s, t)) = Range(s) \cup {t}
  <2>1. /\ Append(s, t) \in Seq(Trades) /\ DOMAIN s = 1 .. Len(s) /\ Len(s) \in Nat
        /\ DOMAIN Append(s, t) = 1 .. Len(s) + 1 /\ Append(s, t)[Len(s) + 1] = t
        /\ \A k \in 1 .. Len(s) : Append(s, t)[k] = s[k]
    BY <1>2, <1>3
  <2> DEFINE u == Append(s, t)
             m == Len(s)
  <2> HIDE DEF u, m, s
  <2>2. \A k \in 1 .. m + 1 : k \in 1 .. m \/ k = m + 1
    BY <2>1 DEF m
  <2>3. m + 1 \in 1 .. m + 1 /\ \A k \in 1 .. m : k \in 1 .. m + 1
    BY <2>1 DEF m
  <2>4. DOMAIN s = 1 .. m /\ DOMAIN u = 1 .. m + 1 /\ u[m + 1] = t /\ \A k \in 1 .. m : u[k] = s[k]
    BY <2>1 DEF m, u
  <2>5. \A x \in Range(u) : x \in Range(s) \cup {t}
    BY <2>2, <2>4 DEF Range
  <2>6. \A x \in Range(s) \cup {t} : x \in Range(u)
    BY <2>3, <2>4 DEF Range
  <2>7. QED BY <2>5, <2>6 DEF u
<1>6. QED BY <1>2, <1>4, <1>5 DEF Adds

\* A bar keeps what the batch holds and what it made.
LEMMA BatchExitsStep ==
  ASSUME strategy \in Strategies, NEW b, IsBatch(b), Lists(b), NEW d \in Seq(Bars),
         BatchExits(b, d), NEW bar \in Bars
  PROVE  BatchExits(BatchBar(b, bar, Len(d)), Append(d, bar))
<1> DEFINE n == Len(d)
           e == Append(d, bar)
           c == ProcessBar(b, bar, n)
           r == BatchBar(b, bar, n)
           side == IF bar.quarantined THEN 0 ELSE BatchSignal(b.prev, bar)
<1>1. /\ Grown(d, e) /\ e[n + 1] = bar /\ Len(e) = n + 1 /\ n \in Nat /\ e \in Seq(Bars)
  BY GrowsBy DEF Grown
<1>2. /\ IsBatch(r) /\ side \in {0, 1, -1}
      /\ \A i \in Ids :
           /\ Went(b, c, i, bar, n) /\ r.books[i] = c.books[i]
           /\ c.pos[i] # Flat \/ side = 0 => r.pos[i] = c.pos[i] /\ r.best[i] = c.best[i]
           /\ c.pos[i] = Flat /\ side # 0 =>
                /\ r.pos[i] = BatchOpened(i, bar, n, side)
                /\ r.best[i] = Entry(bar, side) + BatchCost(bar)
  BY <1>1, BatchBarFacts
<1> HIDE DEF e, c, r, side, n
<1>3. SUFFICES ASSUME NEW i \in Ids
               PROVE  /\ HoldRight(r, e, i)
                      /\ \A t \in Range(r.books[i].trades) : MadeRight(e, i, t)
  BY BatchExitsParts DEF r, e, n
<1> DEFINE p == b.pos[i]
           reason == ExitReason(p, bar)
           o == BatchOpened(i, d[p.at + 1], p.at, p.dir)
<1>4. /\ HoldRight(b, d, i) /\ \A t \in Range(b.books[i].trades) : MadeRight(d, i, t)
      /\ p \in Positions /\ b.best[i] \in Int /\ b.books[i] \in Books
  BY BatchExitsParts DEF IsBatch
<1>5. \A t \in Range(b.books[i].trades) : t \in Trades
  <2>1. b.books[i].trades \in Seq(Trades)
    BY <1>4 DEF Books
  <2>2. QED BY <2>1 DEF Range
<1>6. \A t \in Range(b.books[i].trades) : MadeRight(e, i, t)
  BY <1>1, <1>4, <1>5, MadeGrows
<1>7. p # Flat =>
        /\ p \in Position /\ p.at < n /\ o \in Position /\ o.at = p.at /\ o.dir = p.dir
        /\ n > o.at /\ n < Len(e) /\ Right(e, o, p, n - 1) /\ e[p.at + 1] = d[p.at + 1]
        /\ p.distance > 0 => p.trail >= b.best[i] - p.distance
  <2>1. SUFFICES ASSUME p # Flat
                 PROVE  /\ p \in Position /\ p.at < n /\ o \in Position /\ o.at = p.at /\ o.dir = p.dir
                        /\ n > o.at /\ n < Len(e) /\ Right(e, o, p, n - 1) /\ e[p.at + 1] = d[p.at + 1]
                        /\ p.distance > 0 => p.trail >= b.best[i] - p.distance
    OBVIOUS
  <2>2. p \in Position /\ p.at \in Nat /\ p.dir \in {1, -1}
    BY <1>4, <2>1, PositionFacts DEF Positions
  <2>3. p.at < n /\ (p.distance > 0 => p.trail >= b.best[i] - p.distance) /\ Right(d, o, p, n - 1)
    BY <1>4, <2>1 DEF HoldRight, n
  <2>4. o \in Position /\ o.at = p.at /\ o.dir = p.dir
    BY <2>2, <2>3, OpenerFacts DEF n
  <2> HIDE DEF o, p
  <2>5. Right(e, o, p, n - 1)
    BY <1>1, <2>3, <2>4, RightGrows DEF n
  <2>6. p.at + 1 \in 1 .. n /\ n < n + 1
    BY <1>1, <2>2, <2>3
  <2>7. e[p.at + 1] = d[p.at + 1]
    BY <1>1, <2>6 DEF Grown, n
  <2>8. QED BY <1>1, <2>2, <2>3, <2>4, <2>5, <2>6, <2>7
<1>8. \A t \in Range(r.books[i].trades) : MadeRight(e, i, t)
  <2>1. CASE r.books[i] = b.books[i]
    BY <1>6, <2>1
  <2>2. CASE /\ p # Flat /\ reason \in {"StopLoss", "TakeProfit", "TrailingStop"}
             /\ Booked(b.books[i], c.books[i], p, bar, n, reason)
    <3>1. PICK t \in Trades :
            /\ t.entry = p.at /\ t.exit = n /\ t.dir = p.dir /\ t.reason = reason
            /\ Range(c.books[i].trades) = Range(b.books[i].trades) \cup {t}
      <4> HIDE DEF p, reason
      <4>1. p \in Position /\ reason \in {"StopLoss", "TakeProfit", "TrailingStop", "EndOfData"}
        BY <1>7, <2>2
      <4>2. Adds(b.books[i], c.books[i], p, n, reason)
        BY <1>1, <1>4, <2>2, <4>1, BookedFacts
      <4>3. QED BY <4>2 DEF Adds
    <3>2. TradeRight(e, o, t)
      <4> HIDE DEF o, p
      <4>1. t.reason = ExitReason(p, e[n + 1])
        BY <1>1, <3>1
      <4>2. QED BY <1>7, <2>2, <3>1, <4>1, RightCloses
    <3>3. MadeRight(e, i, t)
      <4>1. o = BatchOpened(i, e[t.entry + 1], t.entry, t.dir)
        BY <1>7, <2>2, <3>1
      <4>2. t.entry <= t.exit /\ t.exit < Len(e)
        <5>1. p.at \in Nat /\ p.at < n
          BY <1>7, <2>2, PositionFacts
        <5> HIDE DEF p
        <5>2. QED BY <1>1, <3>1, <5>1
      <4> HIDE DEF o
      <4>3. QED BY <3>2, <4>1, <4>2 DEF MadeRight
    <3>4. QED BY <1>2, <1>6, <3>1, <3>3
  <2>3. QED BY <1>2, <2>1, <2>2 DEF Went
<1>9. HoldRight(r, e, i)
  <2>1. CASE c.pos[i] = Flat /\ side = 0
    <3>1. r.pos[i] = Flat
      BY <1>2, <2>1
    <3>2. QED BY <3>1 DEF HoldRight
  <2>2. CASE c.pos[i] = Flat /\ side # 0
    <3> DEFINE q == BatchOpened(i, bar, n, side)
    <3>1. side \in {1, -1}
      BY <1>2, <2>2
    <3>2. /\ r.pos[i] = q /\ r.best[i] = Entry(bar, side) + BatchCost(bar)
          /\ q \in Position /\ q.at = n /\ q.dir = side
      BY <1>1, <1>2, <2>2, <3>1, BatchOpenedFacts
    <3>3. q.distance > 0 => q.trail >= r.best[i] - q.distance
      <4> DEFINE price == Entry(bar, side) + BatchCost(bar)
      <4>1. q.distance > 0 => q.trail >= price - q.distance
        BY <1>1, <3>1, OpensAtBest
      <4>2. r.best[i] = price
        BY <3>2
      <4> HIDE DEF q, price
      <4>3. QED BY <4>1, <4>2
    <3>4. q = BatchOpened(i, e[q.at + 1], q.at, q.dir)
      BY <1>1, <3>2
    <3> HIDE DEF q
    <3>5. Right(e, q, q, n)
      BY <3>2, RightOpens
    <3>6. Len(e) - 1 = n /\ q.at < Len(e)
      BY <1>1, <3>2
    <3>7. QED BY <3>2, <3>3, <3>4, <3>5, <3>6 DEF HoldRight
  <2>3. CASE c.pos[i] # Flat
    <3>1. /\ p # Flat /\ reason = "none" /\ r.pos[i] = BatchTrailed(p, b.best[i], bar)
          /\ r.best[i] = BatchBest(p, b.best[i], bar)
      BY <1>2, <2>3 DEF Went
    <3> DEFINE q == Trailed(p, bar)
    <3>2. /\ r.pos[i] = q /\ (q.distance > 0 => q.trail >= r.best[i] - q.distance)
      BY <1>4, <1>7, <3>1, SameTrailing
    <3>3. q.at = p.at /\ q.dir = p.dir
      BY <1>7, <3>1, TrailedFacts
    <3>4. Right(e, o, q, n)
      <4>1. ExitReason(p, e[n + 1]) = "none" /\ q = Trailed(p, e[n + 1])
        BY <1>1, <3>1
      <4> HIDE DEF o, q, p
      <4>2. QED BY <1>1, <1>7, <3>1, <4>1, RightGoesOn
    <3>5. o = BatchOpened(i, e[q.at + 1], q.at, q.dir)
      BY <1>7, <3>1, <3>3
    <3>6. Len(e) - 1 = n /\ q.at < Len(e)
      <4>1. p.at \in Nat /\ p.at < n
        BY <1>7, <3>1, PositionFacts
      <4> HIDE DEF p, q
      <4>2. QED BY <1>1, <3>3, <4>1
    <3> HIDE DEF o, q
    <3>7. QED BY <3>2, <3>4, <3>5, <3>6 DEF HoldRight
  <2>4. QED BY <2>1, <2>2, <2>3
<1>10. QED BY <1>8, <1>9

\* So does the end of the data.
LEMMA BatchExitsEnd ==
  ASSUME strategy \in Strategies, NEW b, IsBatch(b), Lists(b), NEW d \in Seq(Bars),
         BatchExits(b, d), Len(d) = Length, NEW bar \in Bars
  PROVE  BatchExits(CloseAllEod(b, bar, Length - 1), d)
<1> DEFINE n == Length - 1
           r == CloseAllEod(b, bar, n)
<1>1. n \in Nat /\ n < Len(d)
  BY BoundsOfRunAssumption
<1>2. \A i \in Ids :
        /\ r.pos[i] = Flat
        /\ b.pos[i] = Flat => r.books[i] = b.books[i]
        /\ b.pos[i] # Flat => Booked(b.books[i], r.books[i], b.pos[i], bar, n, "EndOfData")
  BY <1>1, CloseAllFacts
<1> HIDE DEF r, n
<1>3. SUFFICES ASSUME NEW i \in Ids
               PROVE  /\ HoldRight(r, d, i)
                      /\ \A t \in Range(r.books[i].trades) : MadeRight(d, i, t)
  BY BatchExitsParts DEF r, n
<1> DEFINE p == b.pos[i]
           o == BatchOpened(i, d[p.at + 1], p.at, p.dir)
<1>4. /\ HoldRight(b, d, i) /\ \A t \in Range(b.books[i].trades) : MadeRight(d, i, t)
      /\ p \in Positions /\ b.books[i] \in Books
  BY BatchExitsParts DEF IsBatch
<1>5. HoldRight(r, d, i)
  BY <1>2 DEF HoldRight
<1>6. CASE p = Flat
  BY <1>2, <1>4, <1>5, <1>6
<1>7. CASE p # Flat
  <2>1. p \in Position /\ p.at \in Nat /\ p.dir \in {1, -1}
    BY <1>4, <1>7, PositionFacts DEF Positions
  <2>2. p.at < Len(d) /\ Right(d, o, p, n)
    BY <1>4, <1>7 DEF HoldRight, n
  <2>3. Booked(b.books[i], r.books[i], p, bar, n, "EndOfData")
    BY <1>2, <1>7
  <2> HIDE DEF o, p
  <2>4. PICK t \in Trades :
          /\ t.entry = p.at /\ t.exit = n /\ t.dir = p.dir /\ t.reason = "EndOfData"
          /\ Range(r.books[i].trades) = Range(b.books[i].trades) \cup {t}
    <3>1. Adds(b.books[i], r.books[i], p, n, "EndOfData")
      BY <1>1, <1>4, <2>1, <2>3, BookedFacts
    <3>2. QED BY <3>1 DEF Adds
  <2>5. TradeRight(d, o, t)
    BY <2>2, <2>4, RightEnds DEF n
  <2>6. t.entry <= t.exit
    BY <1>1, <2>1, <2>2, <2>4 DEF n
  <2>7. MadeRight(d, i, t)
    BY <1>1, <2>4, <2>5, <2>6 DEF MadeRight, o
  <2>8. QED BY <1>4, <1>5, <2>4, <2>7
<1>8. QED BY <1>6, <1>7

----------------------------------------------------------------------------
(* Its books stay right; first entries.                                    *)

\* The books stay right.
LEMMA BookStaysRight ==
  ASSUME NEW old \in Books, BookRight(old), NEW new, NEW pos \in Position, NEW bar, NEW n \in Nat,
         NEW reason \in {"StopLoss", "TakeProfit", "TrailingStop", "EndOfData"},
         Booked(old, new, pos, bar, n, reason)
  PROVE  BookRight(new)
<1>1. Adds(old, new, pos, n, reason)
  BY BookedFacts
<1>2. PICK t \in Trades : new = RecordPnl(old, t)
  BY <1>1 DEF Adds
<1>3. QED BY <1>2, RecordKeepsRight

\* A bar, and the end of the data, keep the books right.
LEMMA BooksStayRight ==
  ASSUME strategy \in Strategies, NEW b, IsBatch(b), Lists(b), NEW bar \in Bars, NEW n \in Nat,
         \A i \in Ids : BookRight(b.books[i])
  PROVE  /\ \A i \in Ids : BookRight(BatchBar(b, bar, n).books[i])
         /\ \A i \in Ids : BookRight(CloseAllEod(b, bar, n).books[i])
<1> DEFINE c == ProcessBar(b, bar, n)
           r == BatchBar(b, bar, n)
           z == CloseAllEod(b, bar, n)
           side == IF bar.quarantined THEN 0 ELSE BatchSignal(b.prev, bar)
<1>1. \A i \in Ids :
        /\ Went(b, c, i, bar, n) /\ r.books[i] = c.books[i]
        /\ c.pos[i] # Flat \/ side = 0 => r.pos[i] = c.pos[i] /\ r.best[i] = c.best[i]
        /\ c.pos[i] = Flat /\ side # 0 =>
             /\ r.pos[i] = BatchOpened(i, bar, n, side)
             /\ r.best[i] = Entry(bar, side) + BatchCost(bar)
  BY BatchBarFacts
<1>2. \A i \in Ids :
        /\ b.pos[i] = Flat => z.books[i] = b.books[i]
        /\ b.pos[i] # Flat => Booked(b.books[i], z.books[i], b.pos[i], bar, n, "EndOfData")
  BY CloseAllFacts
<1>3. \A i \in Ids : b.pos[i] \in Positions /\ b.books[i] \in Books
  BY DEF IsBatch
<1> HIDE DEF c, r, z
<1>4. SUFFICES ASSUME NEW i \in Ids PROVE BookRight(r.books[i]) /\ BookRight(z.books[i])
  BY DEF r, z
<1>5. b.pos[i] # Flat => b.pos[i] \in Position
  BY <1>3 DEF Positions
<1>6. BookRight(z.books[i])
  <2>1. CASE b.pos[i] = Flat
    BY <1>2, <2>1
  <2>2. CASE b.pos[i] # Flat
    BY <1>2, <1>3, <1>5, <2>2, BookStaysRight
  <2>3. QED BY <2>1, <2>2
<1>7. BookRight(r.books[i])
  <2> DEFINE reason == ExitReason(b.pos[i], bar)
  <2>1. \/ c.books[i] = b.books[i]
        \/ /\ b.pos[i] # Flat /\ reason \in {"StopLoss", "TakeProfit", "TrailingStop"}
           /\ Booked(b.books[i], c.books[i], b.pos[i], bar, n, reason)
    BY <1>1 DEF Went
  <2> HIDE DEF reason
  <2>2. CASE c.books[i] = b.books[i]
    BY <1>1, <2>2
  <2>3. CASE /\ b.pos[i] # Flat /\ reason \in {"StopLoss", "TakeProfit", "TrailingStop"}
             /\ Booked(b.books[i], c.books[i], b.pos[i], bar, n, reason)
    <3>1. reason \in {"StopLoss", "TakeProfit", "TrailingStop", "EndOfData"}
      BY <2>3
    <3>2. BookRight(c.books[i])
      BY <1>3, <1>5, <2>3, <3>1, BookStaysRight
    <3>3. QED BY <1>1, <3>2
  <2>4. QED BY <2>1, <2>2, <2>3
<1>8. QED BY <1>6, <1>7

----------------------------------------------------------------------------
(* First entries.                                                          *)

\* A bounded set of numbers has a greatest one.
LEMMA GreatestElement ==
  ASSUME NEW n \in Nat, NEW S \in SUBSET (0 .. n), S # {}
  PROVE  \E m \in S : \A j \in S : j <= m
<1> DEFINE T == {k \in Nat : n - k \in S}
<1>1. PICK s \in S : TRUE
  OBVIOUS
<1>2. n - s \in Nat /\ n - (n - s) = s
  BY <1>1
<1>3. n - s \in T
  BY <1>1, <1>2
<1>4. PICK k \in T : \A l \in T : k <= l
  BY <1>3, LeastElement
<1>5. n - k \in S /\ k \in Nat
  OBVIOUS
<1>6. ASSUME NEW j \in S PROVE j <= n - k
  <2>1. n - j \in Nat /\ n - (n - j) = j /\ j \in Nat
    OBVIOUS
  <2>2. n - j \in T
    BY <2>1
  <2>3. k <= n - j
    BY <1>4, <2>2
  <2>4. QED BY <1>5, <2>1, <2>3
<1>7. QED BY <1>5, <1>6

\* The last of a set of bars.
LEMMA LastOfFacts ==
  ASSUME NEW n \in Nat, NEW S \in SUBSET (0 .. n), S # {}
  PROVE  /\ LastOf(S) \in S /\ \A j \in S : j <= LastOf(S)
         /\ n \in S => LastOf(S) = n
<1>1. LastOf(S) \in S /\ \A j \in S : j <= LastOf(S)
  BY GreatestElement DEF LastOf
<1>2. LastOf(S) \in 0 .. n
  BY <1>1
<1>3. n \in S => n <= LastOf(S)
  BY <1>1
<1>4. QED BY <1>1, <1>2, <1>3

\* The open bars among the first n are of those bars.
LEMMA OpenBarsGrow ==
  ASSUME NEW d, NEW e, Grown(d, e), NEW n \in 0 .. Len(d)
  PROVE  /\ OpenBars(e, n) = OpenBars(d, n)
         /\ \A c : PrevOf(e, n, c) = PrevOf(d, n, c)
<1>1. d \in Seq(Bars) /\ Len(d) \in Nat /\ n \in Nat
  BY DEF Grown
<1>2. \A m \in 0 .. n - 1 : m + 1 \in 1 .. Len(d)
  BY <1>1
<1>3. \A m \in 0 .. n - 1 : e[m + 1] = d[m + 1]
  BY <1>2 DEF Grown
<1>4. OpenBars(e, n) = OpenBars(d, n)
  BY <1>3 DEF OpenBars
<1> DEFINE S == OpenBars(d, n)
<1>5. S \subseteq 0 .. n - 1 /\ S \in SUBSET (0 .. n)
  BY <1>1 DEF OpenBars
<1> HIDE DEF S
<1>6. S # {} => e[LastOf(S) + 1] = d[LastOf(S) + 1]
  <2>1. S # {} => LastOf(S) \in S
    BY <1>1, <1>5, LastOfFacts
  <2>2. QED BY <1>3, <1>5, <2>1
<1>7. QED BY <1>4, <1>6 DEF PrevOf, S

\* The previous values after a bar.
LEMMA PrevGoesOn ==
  ASSUME NEW d \in Seq(Bars), NEW n \in Nat, n < Len(d), NEW c
  PROVE  PrevOf(d, n + 1, c) = IF d[n + 1].quarantined THEN PrevOf(d, n, c) ELSE d[n + 1].col[c]
<1> DEFINE S == OpenBars(d, n + 1)
<1>1. \A m \in 0 .. (n + 1) - 1 : m \in 0 .. n - 1 \/ m = n
  OBVIOUS
<1>2. n \in 0 .. (n + 1) - 1 /\ \A m \in 0 .. n - 1 : m \in 0 .. (n + 1) - 1
  OBVIOUS
<1>3. CASE d[n + 1].quarantined
  <2>1. S = OpenBars(d, n)
    BY <1>1, <1>2, <1>3 DEF OpenBars
  <2>2. QED BY <1>3, <2>1 DEF PrevOf
<1>4. CASE ~d[n + 1].quarantined
  <2>1. n \in S /\ S \in SUBSET (0 .. n)
    BY <1>2, <1>4 DEF OpenBars
  <2> HIDE DEF S
  <2>2. LastOf(S) = n /\ S # {}
    BY <2>1, LastOfFacts
  <2>3. QED BY <1>4, <2>2 DEF PrevOf, S
<1>5. QED BY <1>3, <1>4

\* Directions of earlier bars do not change.
LEMMA DirsFacts ==
  ASSUME NEW d, NEW e, Grown(d, e)
  PROVE  /\ \A m \in 0 .. Len(d) - 1 : Dirs(d)[m] = DirAt(d, m)
         /\ \A m \in 0 .. Len(d) - 1 : Dirs(e)[m] = Dirs(d)[m]
         /\ \A m \in 0 .. Len(d) : PrevsOf(e, m) = PrevsOf(d, m)
<1>1. d \in Seq(Bars) /\ Len(d) \in Nat /\ Len(e) \in Nat /\ Len(d) <= Len(e)
  BY DEF Grown
<1>2. \A m \in 0 .. Len(d) - 1 : m \in 0 .. Len(e) - 1 /\ m \in 0 .. Len(d) /\ m + 1 \in 1 .. Len(d)
  BY <1>1
<1>3. \A m \in 0 .. Len(d) : PrevsOf(e, m) = PrevsOf(d, m)
  BY OpenBarsGrow DEF PrevsOf
<1>4. \A m \in 0 .. Len(d) - 1 : DirAt(e, m) = DirAt(d, m)
  BY <1>2, <1>3 DEF DirAt, Grown
<1>5. QED BY <1>2, <1>3, <1>4 DEF Dirs

\* Nor does the first entry.
LEMMA FirstGrows ==
  ASSUME NEW d, NEW e, Grown(d, e), NEW n \in 0 .. Len(d), NEW x, FirstIs(Dirs(d), n, x)
  PROVE  FirstIs(Dirs(e), n, x)
<1>1. \A m \in 0 .. n - 1 : m \in 0 .. Len(d) - 1 /\ \A j \in 0 .. m - 1 : j \in 0 .. Len(d) - 1
  BY DEF Grown
<1>2. \A m \in 0 .. Len(d) - 1 : Dirs(e)[m] = Dirs(d)[m]
  BY DirsFacts
<1> DEFINE f == Dirs(d)
           g == Dirs(e)
<1> HIDE DEF f, g
<1>3. \A m \in 0 .. Len(d) - 1 : g[m] = f[m]
  BY <1>2 DEF f, g
<1>4. FirstIs(f, n, x)
  BY DEF f
<1>5. FirstIs(g, n, x)
  BY <1>1, <1>3, <1>4 DEF FirstIs
<1>6. QED BY <1>5 DEF g

\* The first entry after one bar more.
LEMMA FirstGoesOn ==
  ASSUME NEW ds, NEW n \in Nat, NEW x, NEW y, FirstIs(ds, n, x),
         x = <<>> => y = IF ds[n] = 0 THEN <<>> ELSE <<n, ds[n]>>,
         x # <<>> => y = x
  PROVE  FirstIs(ds, n + 1, y)
<1>1. /\ \A m \in 0 .. (n + 1) - 1 : m \in 0 .. n - 1 \/ m = n
      /\ n \in 0 .. (n + 1) - 1 /\ \A m \in 0 .. n - 1 : m \in 0 .. (n + 1) - 1
  OBVIOUS
<1>2. CASE x = <<>> /\ \A m \in 0 .. n - 1 : ds[m] = 0
  BY <1>1, <1>2 DEF FirstIs
<1>3. CASE \E m \in 0 .. n - 1 : x = <<m, ds[m]>> /\ ds[m] # 0 /\ \A j \in 0 .. m - 1 : ds[j] = 0
  <2>1. PICK m \in 0 .. n - 1 : x = <<m, ds[m]>> /\ ds[m] # 0 /\ \A j \in 0 .. m - 1 : ds[j] = 0
    BY <1>3
  <2>2. x # <<>>
    BY <2>1
  <2>3. QED BY <1>1, <2>1, <2>2 DEF FirstIs
<1>4. QED BY <1>2, <1>3 DEF FirstIs

\* There is one first entry.
LEMMA OneFirst ==
  ASSUME NEW ds, NEW n \in Nat, NEW x, NEW y, FirstIs(ds, n, x), FirstIs(ds, n, y)
  PROVE  x = y
<1>1. CASE x = <<>> /\ \A m \in 0 .. n - 1 : ds[m] = 0
  BY <1>1 DEF FirstIs
<1>2. CASE y = <<>> /\ \A m \in 0 .. n - 1 : ds[m] = 0
  BY <1>2 DEF FirstIs
<1>3. CASE /\ \E m \in 0 .. n - 1 : x = <<m, ds[m]>> /\ ds[m] # 0 /\ \A j \in 0 .. m - 1 : ds[j] = 0
           /\ \E m \in 0 .. n - 1 : y = <<m, ds[m]>> /\ ds[m] # 0 /\ \A j \in 0 .. m - 1 : ds[j] = 0
  <2>1. PICK m \in 0 .. n - 1 : x = <<m, ds[m]>> /\ ds[m] # 0 /\ \A j \in 0 .. m - 1 : ds[j] = 0
    BY <1>3
  <2>2. PICK k \in 0 .. n - 1 : y = <<k, ds[k]>> /\ ds[k] # 0 /\ \A j \in 0 .. k - 1 : ds[j] = 0
    BY <1>3
  <2>3. ~(m < k) /\ ~(k < m)
    <3>1. m < k => m \in 0 .. k - 1
      OBVIOUS
    <3>2. k < m => k \in 0 .. m - 1
      OBVIOUS
    <3>3. QED BY <2>1, <2>2, <3>1, <3>2
  <2>4. QED BY <2>1, <2>2, <2>3
<1>4. QED BY <1>1, <1>2, <1>3 DEF FirstIs

----------------------------------------------------------------------------
(* The first entry of the batch.                                           *)

\* The first entry of a list of trades and a position.
LEMMA EntryFacts ==
  ASSUME NEW s, NEW p
  PROVE  /\ FirstEntryOf(s, p) = <<>> <=> s = <<>> /\ p = Flat
         /\ s # <<>> => \A q : FirstEntryOf(s, q) = FirstEntryOf(s, p)
         /\ p # Flat => \A q : q # Flat /\ q.at = p.at /\ q.dir = p.dir =>
                                 FirstEntryOf(s, q) = FirstEntryOf(s, p)
         /\ s = <<>> /\ p # Flat => FirstEntryOf(s, p) = <<p.at, p.dir>>
<1>1. \A x, y : <<x, y>> # <<>>
  OBVIOUS
<1>2. QED BY <1>1 DEF FirstEntryOf

\* The entry of a position becomes that of its trade.
LEMMA EntryBooked ==
  ASSUME NEW s \in Seq(Trades), NEW p, p # Flat, NEW t \in Trades, t.entry = p.at, t.dir = p.dir,
         NEW q
  PROVE  FirstEntryOf(Append(s, t), q) = FirstEntryOf(s, p)
<1>1. Append(s, t) # <<>> /\ (s = <<>> => Append(s, t)[1] = t)
      /\ (s # <<>> => Append(s, t)[1] = s[1])
  OBVIOUS
<1>2. QED BY <1>1 DEF FirstEntryOf

\* A bar keeps the first entries of the batch, and its previous values.
LEMMA BatchFirstStep ==
  ASSUME strategy \in Strategies, NEW b, IsBatch(b), Lists(b), NEW d \in Seq(Bars),
         BatchFirst(b, d), NEW bar \in Bars
  PROVE  BatchFirst(BatchBar(b, bar, Len(d)), Append(d, bar))
<1> DEFINE n == Len(d)
           e == Append(d, bar)
           c == ProcessBar(b, bar, n)
           r == BatchBar(b, bar, n)
           side == IF bar.quarantined THEN 0 ELSE BatchSignal(b.prev, bar)
<1>1. /\ Grown(d, e) /\ e[n + 1] = bar /\ Len(e) = n + 1 /\ n \in Nat /\ e \in Seq(Bars)
      /\ n < Len(e) /\ n \in 0 .. Len(d)
  <2>1. Grown(d, e) /\ e[n + 1] = bar /\ Len(e) = n + 1 /\ n \in Nat
    BY GrowsBy
  <2>2. e \in Seq(Bars)
    BY <2>1 DEF Grown
  <2> HIDE DEF e
  <2>3. QED BY <2>1, <2>2
<1>2. /\ side \in {0, 1, -1}
      /\ r.prev = IF bar.quarantined THEN b.prev ELSE [k \in Directional |-> bar.col[Column(k)]]
      /\ \A i \in Ids :
           /\ Went(b, c, i, bar, n) /\ r.books[i] = c.books[i]
           /\ c.pos[i] # Flat \/ side = 0 => r.pos[i] = c.pos[i] /\ r.best[i] = c.best[i]
           /\ c.pos[i] = Flat /\ side # 0 =>
                /\ r.pos[i] = BatchOpened(i, bar, n, side)
                /\ r.best[i] = Entry(bar, side) + BatchCost(bar)
  BY <1>1, BatchBarFacts
<1>3. /\ b.prev = PrevsOf(d, n)
      /\ \A i \in Ids : FirstIs(Dirs(d), n, FirstEntryOf(b.books[i].trades, b.pos[i]))
  BY DEF BatchFirst
<1> HIDE DEF e, c, r
<1>4. DirAt(e, n) = side /\ Dirs(e)[n] = side
  <2>1. PrevsOf(e, n) = b.prev
    BY <1>1, <1>3, DirsFacts
  <2>2. DirAt(e, n) = side
    BY <1>1, <2>1 DEF DirAt
  <2>3. n \in 0 .. Len(e) - 1
    BY <1>1
  <2>4. Dirs(e)[n] = DirAt(e, n)
    BY <2>3 DEF Dirs
  <2>5. QED BY <2>2, <2>4
<1>5. r.prev = PrevsOf(e, n + 1)
  <2>1. \A x : PrevOf(e, n + 1, x) = IF bar.quarantined THEN PrevOf(d, n, x) ELSE bar.col[x]
    <3>1. \A x : PrevOf(e, n + 1, x) = IF bar.quarantined THEN PrevOf(e, n, x) ELSE bar.col[x]
      BY <1>1, PrevGoesOn
    <3>2. \A x : PrevOf(e, n, x) = PrevOf(d, n, x)
      BY <1>1, OpenBarsGrow
    <3>3. QED BY <3>1, <3>2
  <2>2. CASE bar.quarantined
    BY <1>2, <1>3, <2>1, <2>2 DEF PrevsOf
  <2>3. CASE ~bar.quarantined
    BY <1>2, <2>1, <2>3 DEF PrevsOf
  <2>4. QED BY <2>2, <2>3
<1> HIDE DEF side, n
<1>6. ASSUME NEW i \in Ids
      PROVE  FirstIs(Dirs(e), n + 1, FirstEntryOf(r.books[i].trades, r.pos[i]))
  <2> DEFINE s == b.books[i].trades
             p == b.pos[i]
             x == FirstEntryOf(s, p)
             y == FirstEntryOf(r.books[i].trades, r.pos[i])
             reason == ExitReason(p, bar)
  <2>0. p \in Positions /\ b.books[i] \in Books /\ s \in Seq(Trades)
    BY DEF IsBatch, Books
  <2>1. Went(b, c, i, bar, n) /\ r.books[i] = c.books[i]
    BY <1>2
  <2>2. side # 0 => /\ BatchOpened(i, bar, n, side) # Flat /\ BatchOpened(i, bar, n, side).at = n
                    /\ BatchOpened(i, bar, n, side).dir = side
    <3>1. side # 0 => side \in {1, -1}
      BY <1>2
    <3>2. QED BY <1>1, <3>1, BatchOpenedFacts
  <2>3. x = <<>> => y = IF side = 0 THEN <<>> ELSE <<n, side>>
    <3>1. SUFFICES ASSUME x = <<>> PROVE y = IF side = 0 THEN <<>> ELSE <<n, side>>
      OBVIOUS
    <3>2. s = <<>> /\ p = Flat
      BY <3>1, EntryFacts
    <3>3. c.pos[i] = Flat /\ c.books[i] = b.books[i]
      BY <2>1, <3>2 DEF Went
    <3>4. CASE side = 0
      BY <1>2, <2>1, <3>2, <3>3, <3>4, EntryFacts
    <3>5. CASE side # 0
      <4> DEFINE q == BatchOpened(i, bar, n, side)
      <4>1. r.pos[i] = q /\ q # Flat /\ q.at = n /\ q.dir = side /\ r.books[i].trades = <<>>
        BY <1>2, <2>1, <2>2, <3>2, <3>3, <3>5
      <4> HIDE DEF q
      <4>2. y = <<q.at, q.dir>>
        BY <4>1, EntryFacts
      <4>3. QED BY <3>5, <4>1, <4>2
    <3>6. QED BY <3>4, <3>5
  <2>4. x # <<>> => y = x
    <3>1. SUFFICES ASSUME x # <<>> PROVE y = x
      OBVIOUS
    <3>2. s # <<>> \/ p # Flat
      BY <3>1, EntryFacts
    <3>3. CASE p = Flat
      <4>1. r.books[i].trades = s /\ s # <<>>
        BY <2>1, <3>2, <3>3 DEF Went
      <4>2. QED BY <4>1, EntryFacts
    <3>4. CASE p # Flat /\ reason = "none" /\ c.pos[i] = BatchTrailed(p, b.best[i], bar)
                /\ c.books[i] = b.books[i]
      <4> DEFINE q == BatchTrailed(p, b.best[i], bar)
      <4>1. p \in Position /\ b.best[i] \in Int
        BY <2>0, <3>4 DEF Positions, IsBatch
      <4>2. q # Flat /\ q.at = p.at /\ q.dir = p.dir
        BY <4>1, BatchTrailedFacts
      <4>3. r.pos[i] = q /\ r.books[i].trades = s
        BY <1>2, <2>1, <3>4, <4>2
      <4> HIDE DEF q, p, s
      <4>4. QED BY <3>4, <4>2, <4>3, EntryFacts DEF x, y
    <3>5. CASE p # Flat /\ reason \in {"StopLoss", "TakeProfit", "TrailingStop"}
                /\ Booked(b.books[i], c.books[i], p, bar, n, reason)
      <4> DEFINE q == r.pos[i]
      <4> HIDE DEF p, reason
      <4>1. p \in Position /\ reason \in {"StopLoss", "TakeProfit", "TrailingStop", "EndOfData"}
        BY <2>0, <3>5 DEF Positions
      <4>2. Adds(b.books[i], c.books[i], p, n, reason)
        BY <1>1, <2>0, <3>5, <4>1, BookedFacts
      <4>3. PICK t \in Trades : t.entry = p.at /\ t.dir = p.dir /\ c.books[i].trades = Append(s, t)
        BY <4>2 DEF Adds
      <4> HIDE DEF s
      <4>4. FirstEntryOf(Append(s, t), q) = FirstEntryOf(s, p)
        BY <2>0, <3>5, <4>3, EntryBooked
      <4>5. r.books[i].trades = Append(s, t)
        BY <2>1, <4>3
      <4>6. QED BY <4>4, <4>5
    <3>6. QED BY <2>1, <3>3, <3>4, <3>5 DEF Went
  <2>5. FirstIs(Dirs(d), n, x)
    BY <1>3
  <2> HIDE DEF x, y
  <2>6. FirstIs(Dirs(e), n, x)
    BY <1>1, <2>5, FirstGrows
  <2>7. FirstIs(Dirs(e), n + 1, y)
    BY <1>1, <1>4, <2>3, <2>4, <2>6, FirstGoesOn
  <2>8. QED BY <2>7 DEF y
<1>7. BatchFirst(r, e)
  BY <1>1, <1>5, <1>6 DEF BatchFirst
<1>8. QED BY <1>7 DEF r, e, n

\* The end of the data keeps the first entries.
LEMMA BatchFirstEnd ==
  ASSUME strategy \in Strategies, NEW b, IsBatch(b), Lists(b), NEW d, BatchFirst(b, d),
         NEW bar \in Bars, NEW n \in Nat
  PROVE  BatchFirst(CloseAllEod(b, bar, n), d)
<1> DEFINE r == CloseAllEod(b, bar, n)
<1>1. /\ r.prev = b.prev
      /\ \A i \in Ids :
           /\ r.pos[i] = Flat
           /\ b.pos[i] = Flat => r.books[i] = b.books[i]
           /\ b.pos[i] # Flat => Booked(b.books[i], r.books[i], b.pos[i], bar, n, "EndOfData")
  BY CloseAllFacts
<1> HIDE DEF r
<1>2. ASSUME NEW i \in Ids
      PROVE  FirstEntryOf(r.books[i].trades, r.pos[i]) = FirstEntryOf(b.books[i].trades, b.pos[i])
  <2>1. b.pos[i] \in Positions /\ b.books[i] \in Books /\ b.books[i].trades \in Seq(Trades)
    BY DEF IsBatch, Books
  <2>2. CASE b.pos[i] = Flat
    BY <1>1, <2>2
  <2>3. CASE b.pos[i] # Flat
    <3>1. b.pos[i] \in Position
      BY <2>1, <2>3 DEF Positions
    <3>2. Adds(b.books[i], r.books[i], b.pos[i], n, "EndOfData")
      BY <1>1, <2>1, <2>3, <3>1, BookedFacts
    <3>3. PICK t \in Trades : /\ t.entry = b.pos[i].at /\ t.dir = b.pos[i].dir
                              /\ r.books[i].trades = Append(b.books[i].trades, t)
      BY <3>2 DEF Adds
    <3>4. QED BY <2>1, <2>3, <3>3, EntryBooked
  <2>4. QED BY <2>2, <2>3
<1>3. BatchFirst(r, d)
  BY <1>1, <1>2 DEF BatchFirst
<1>4. QED BY <1>3 DEF r

----------------------------------------------------------------------------
(* What depends on the specification stays while it does.                  *)

\* What depends on the specification stays while it does.
LEMMA DistancesStay ==
  ASSUME strategy' = strategy
  PROVE  /\ \A bar, sl : StopDistance(bar, sl)' = StopDistance(bar, sl)
         /\ \A bar, stop : TakeDistance(bar, stop)' = TakeDistance(bar, stop)
         /\ \A bar : TrailingDistance(bar)' = TrailingDistance(bar)
<1>1. \A bar, sl : StopDistance(bar, sl)' = StopDistance(bar, sl)
  BY DEF StopDistance
<1>2. \A bar, stop : TakeDistance(bar, stop)' = TakeDistance(bar, stop)
  BY DEF TakeDistance
<1>3. \A bar : TrailingDistance(bar)' = TrailingDistance(bar)
  BY DEF TrailingDistance
<1>4. QED BY <1>1, <1>2, <1>3

\* What is opened,
LEMMA OpeningStays ==
  ASSUME strategy' = strategy
  PROVE  /\ \A i, bar, n, side : BatchOpened(i, bar, n, side)' = BatchOpened(i, bar, n, side)
         /\ \A bar, n, side : OpenedBy(bar, n, side)' = OpenedBy(bar, n, side)
<1>1. ASSUME NEW i, NEW bar, NEW n, NEW side
      PROVE  BatchOpened(i, bar, n, side)' = BatchOpened(i, bar, n, side)
  <2>1. \A sl : StopDistance(bar, sl)' = StopDistance(bar, sl)
    BY DistancesStay
  <2>2. QED BY <2>1 DEF BatchOpened
<1>2. ASSUME NEW bar, NEW n, NEW side
      PROVE  OpenedBy(bar, n, side)' = OpenedBy(bar, n, side)
  <2>1. StopDistance(bar, strategy.sl.value)' = StopDistance(bar, strategy.sl.value)
    BY DEF StopDistance
  <2>2. \A stop : TakeDistance(bar, stop)' = TakeDistance(bar, stop)
    BY DistancesStay
  <2>3. TrailingDistance(bar)' = TrailingDistance(bar)
    BY DistancesStay
  <2>4. QED BY <2>1, <2>2, <2>3 DEF OpenedBy
<1>3. QED BY <1>1, <1>2

\* and the signal.
LEMMA SignalStays ==
  ASSUME strategy' = strategy
  PROVE  /\ Directional' = Directional /\ Filters' = Filters
         /\ AllowedSessions' = AllowedSessions
         /\ \A k : Column(k)' = Column(k)
         /\ \A prev, bar : BatchSignal(prev, bar)' = BatchSignal(prev, bar)
<1>1. Directional' = Directional
  BY DEF Directional
<1>2. Filters' = Filters
  BY <1>1 DEF Filters
<1>3. \A k : Column(k)' = Column(k)
  BY DEF Column
<1>4. AllowedSessions' = AllowedSessions
  BY DEF AllowedSessions
<1>5. \A bar : FiltersPass(bar)' <=> FiltersPass(bar)
  <2>1. \A k, bar : FilterPasses(k, bar)' <=> FilterPasses(k, bar)
    BY <1>3 DEF FilterPasses
  <2>2. QED BY <1>2, <2>1 DEF FiltersPass
<1>6. \A firing : Fired(firing)' = Fired(firing)
  BY <1>1, <1>2 DEF Fired
<1>7. ASSUME NEW prev, NEW bar PROVE BatchSignal(prev, bar)' = BatchSignal(prev, bar)
  <2> DEFINE F == {k \in Directional :
                     Crosses(strategy.conditions[k], prev[k], bar.col[Column(k)])}
  <2>1. F' = F
    BY <1>1, <1>3
  <2>2. PICK g : g = F
    OBVIOUS
  <2>3. BatchSignal(prev, bar) =
          IF FiltersPass(bar) /\ (AllowedSessions = {} \/ bar.session \in AllowedSessions)
          THEN Fired(g) ELSE 0
    BY <2>2 DEF BatchSignal
  <2>4. Fired(F)' = Fired(g)'
    <3>1. F' = g
      BY <2>1, <2>2
    <3> HIDE DEF F
    <3>2. QED BY <3>1 DEF Fired
  <2>5. BatchSignal(prev, bar)' =
          IF FiltersPass(bar)' /\ (AllowedSessions' = {} \/ bar.session \in AllowedSessions')
          THEN Fired(F)' ELSE 0
    BY DEF BatchSignal
  <2>6. Fired(g)' = Fired(g)
    BY <1>6
  <2> HIDE DEF F
  <2>7. QED BY <1>4, <1>5, <2>3, <2>4, <2>5, <2>6
<1>8. QED BY <1>1, <1>2, <1>3, <1>4, <1>7

----------------------------------------------------------------------------
(* The invariant of the batch evaluator.                                   *)

\* What is right of rigid books and bars stays so while the specification does.
LEMMA BatchStays ==
  ASSUME strategy' = strategy, NEW b, NEW d
  PROVE  /\ BatchExits(b, d)' <=> BatchExits(b, d)
         /\ BatchFirst(b, d)' <=> BatchFirst(b, d)
<1>1. BatchExits(b, d)' <=> BatchExits(b, d)
  BY OpeningStays DEF BatchExits
<1>2. \A n : PrevsOf(d, n)' = PrevsOf(d, n)
  BY SignalStays DEF PrevsOf, PrevOf, OpenBars
<1>3. \A n : DirAt(d, n)' = DirAt(d, n)
  BY <1>2, SignalStays DEF DirAt
<1>4. Dirs(d)' = Dirs(d)
  BY <1>3 DEF Dirs
<1>5. BatchFirst(b, d)' <=> BatchFirst(b, d)
  BY <1>2, <1>4 DEF BatchFirst, FirstIs
<1>6. QED BY <1>1, <1>5

\* What is shown of the evaluator and the bars after a step is the invariant after it.
LEMMA BatchInvNext ==
  ASSUME strategy' = strategy, NEW b, NEW d, bat' = b, data' = d,
         IsBatch(b), Lists(b), \A i \in Ids : BookRight(b.books[i]),
         BatchExits(b, d), BatchFirst(b, d)
  PROVE  BatchInv'
<1>1. BatchExits(b, d)' /\ BatchFirst(b, d)'
  BY BatchStays
<1>2. BatchExits(bat, data)' /\ BatchFirst(bat, data)'
  BY <1>1
<1>3. IsBatch(bat)' /\ Lists(bat)' /\ (\A i \in Ids : BookRight(bat.books[i]))'
  <2>1. IsBatch(b)' /\ Lists(b)' /\ (\A i \in Ids : BookRight(b.books[i]))'
    OBVIOUS
  <2>2. QED BY <2>1
<1>4. QED BY <1>2, <1>3 DEF BatchInv

\* The evaluator begins with no positions and empty books.
LEMMA BatchInit0 == ASSUME EngineInit PROVE BatchInv
<1>1. /\ strategy \in Strategies /\ data = <<>>
      /\ bat = [pos |-> [i \in Ids |-> Flat], best |-> [i \in Ids |-> 0],
                active |-> <<>>, idle |-> [i \in Ids |-> i],
                prev |-> [k \in Directional |-> NoValue], books |-> [i \in Ids |-> NoBook],
                done |-> FALSE]
  BY DEF EngineInit
<1>2. /\ DOMAIN bat = BatFields /\ bat.pos = [i \in Ids |-> Flat] /\ bat.best = [i \in Ids |-> 0]
      /\ bat.active = <<>> /\ bat.idle = [i \in Ids |-> i]
      /\ bat.prev = [k \in Directional |-> NoValue] /\ bat.books = [i \in Ids |-> NoBook]
  BY <1>1 DEF BatFields
<1>3. IsBatch(bat)
  BY <1>2, EmptyBookRight DEF IsBatch, Positions
<1>4. Lists(bat)
  <2>1. bat.active \in Seq(Ids) /\ Range(bat.active) = {} /\ DOMAIN bat.active = {}
    BY <1>2 DEF Range
  <2>2. bat.idle \in Seq(Ids) /\ Range(bat.idle) = Ids /\ Once(bat.idle)
    <3>1. Ids = 1 .. Len(Candidates) /\ Len(Candidates) \in Nat
      BY IdsFacts
    <3>2. bat.idle \in [1 .. Len(Candidates) -> Ids]
      BY <1>2, <3>1
    <3>3. QED BY <1>2, <3>1, <3>2 DEF Range, Once
  <2>3. Range(bat.active) = {i \in Ids : bat.pos[i] # Flat}
    BY <1>2, <2>1
  <2>4. QED BY <2>1, <2>2, <2>3 DEF Lists, Parted, Once
<1>5. \A i \in Ids : BookRight(bat.books[i])
  BY <1>2, EmptyBookRight
<1>6. \A i \in Ids : bat.pos[i] = Flat /\ bat.books[i].trades = <<>>
  BY <1>2 DEF NoBook
<1>7. BatchExits(bat, data)
  <2>1. Range(<<>>) = {}
    BY DEF Range
  <2>2. QED BY <1>6, <2>1 DEF BatchExits
<1>8. BatchFirst(bat, data)
  <2>1. Len(data) = 0 /\ 0 .. 0 - 1 = {}
    BY <1>1
  <2>2. bat.prev = PrevsOf(data, Len(data))
    BY <1>2, <2>1 DEF PrevsOf, PrevOf, OpenBars
  <2>3. \A i \in Ids : FirstEntryOf(bat.books[i].trades, bat.pos[i]) = <<>>
    BY <1>6, EntryFacts
  <2>4. QED BY <2>1, <2>2, <2>3 DEF BatchFirst, FirstIs
<1>9. QED BY <1>3, <1>4, <1>5, <1>7, <1>8 DEF BatchInv

\* The batch evaluator reads a bar.
LEMMA NewBarBatch ==
  ASSUME EngineTyped, BatchInv, NEW bar \in Bars, NewBar(bar)
  PROVE  BatchInv'
<1>1. /\ strategy' = strategy /\ data' = Append(data, bar) /\ bat' = BatchBar(bat, bar, Len(data))
      /\ strategy \in Strategies /\ data \in Seq(Bars) /\ Len(data) \in Nat
  BY DEF NewBar, EngineTyped
<1>2. PICK b : b = bat
  OBVIOUS
<1>3. PICK d : d = data
  OBVIOUS
<1>4. /\ IsBatch(b) /\ Lists(b) /\ \A i \in Ids : BookRight(b.books[i])
      /\ BatchExits(b, d) /\ BatchFirst(b, d)
  BY <1>2, <1>3 DEF BatchInv
<1>5. PICK r : r = BatchBar(b, bar, Len(d))
  OBVIOUS
<1>6. PICK e : e = Append(d, bar)
  OBVIOUS
<1>7. bat' = r /\ data' = e
  BY <1>1, <1>2, <1>3, <1>5, <1>6
<1>8. IsBatch(r) /\ Lists(r)
  BY <1>1, <1>3, <1>4, <1>5, BatchBarFacts
<1>9. \A i \in Ids : BookRight(r.books[i])
  BY <1>1, <1>3, <1>4, <1>5, BooksStayRight
<1>10. BatchExits(r, e) /\ BatchFirst(r, e)
  BY <1>1, <1>3, <1>4, <1>5, <1>6, BatchExitsStep, BatchFirstStep
<1>11. QED BY <1>1, <1>7, <1>8, <1>9, <1>10, BatchInvNext

\* It closes what is open at the end.
LEMMA EndBatchKeeps ==
  ASSUME EngineTyped, BatchInv, EndBatch
  PROVE  BatchInv'
<1> DEFINE bar == Last(data)
<1>1. /\ strategy' = strategy /\ data' = data /\ Len(data) = Length
      /\ bat' = [CloseAllEod(bat, bar, Length - 1) EXCEPT !.done = TRUE]
      /\ strategy \in Strategies /\ data \in Seq(Bars) /\ Length \in Nat \ {0}
  BY BoundsOfRunAssumption DEF EndBatch, EngineTyped
<1>2. bar \in Bars /\ Length - 1 \in Nat
  BY <1>1 DEF Last
<1> HIDE DEF bar
<1>3. PICK b : b = bat
  OBVIOUS
<1>4. PICK d : d = data
  OBVIOUS
<1>5. /\ IsBatch(b) /\ Lists(b) /\ \A i \in Ids : BookRight(b.books[i])
      /\ BatchExits(b, d) /\ BatchFirst(b, d)
  BY <1>3, <1>4 DEF BatchInv
<1>6. PICK c : c = CloseAllEod(b, bar, Length - 1)
  OBVIOUS
<1>7. PICK r : r = [c EXCEPT !.done = TRUE]
  OBVIOUS
<1>8. bat' = r /\ data' = d
  BY <1>1, <1>3, <1>4, <1>6, <1>7
<1>9. IsBatch(c) /\ Lists(c)
  BY <1>2, <1>5, <1>6, CloseAllFacts
<1>10. \A i \in Ids : BookRight(c.books[i])
  BY <1>1, <1>2, <1>5, <1>6, BooksStayRight
<1>11. BatchExits(c, d) /\ BatchFirst(c, d)
  BY <1>1, <1>2, <1>4, <1>5, <1>6, BatchExitsEnd, BatchFirstEnd
<1>12. /\ DOMAIN r = DOMAIN c /\ r.pos = c.pos /\ r.best = c.best /\ r.active = c.active
       /\ r.idle = c.idle /\ r.prev = c.prev /\ r.books = c.books
  BY <1>7, <1>9 DEF IsBatch, BatFields
<1>13. IsBatch(r) /\ Lists(r)
  BY <1>9, <1>12 DEF IsBatch, Lists
<1>14. BatchExits(r, d) /\ BatchFirst(r, d) /\ \A i \in Ids : BookRight(r.books[i])
  BY <1>10, <1>11, <1>12 DEF BatchExits, BatchFirst
<1>15. QED BY <1>1, <1>8, <1>13, <1>14, BatchInvNext

\* No other step concerns it.
LEMMA BatchUnmoved ==
  ASSUME BatchInv, UNCHANGED <<strategy, data, bat>>
  PROVE  BatchInv'
<1>1. PICK b : b = bat
  OBVIOUS
<1>2. PICK d : d = data
  OBVIOUS
<1>3. /\ IsBatch(b) /\ Lists(b) /\ \A i \in Ids : BookRight(b.books[i])
      /\ BatchExits(b, d) /\ BatchFirst(b, d) /\ bat' = b /\ data' = d
  BY <1>1, <1>2 DEF BatchInv
<1>4. QED BY <1>3, BatchInvNext

\* Every step keeps the invariant of the batch.
LEMMA BatchKeeps ==
  ASSUME EngineTyped, BatchInv, [EngineNext]_engine
  PROVE  BatchInv'
<1>1. CASE UNCHANGED engine
  BY <1>1, BatchUnmoved DEF engine
<1>2. ASSUME NEW bar \in Bars, NewBar(bar) PROVE BatchInv'
  BY <1>2, NewBarBatch
<1>3. CASE EndBatch
  BY <1>3, EndBatchKeeps
<1>4. CASE EngineBar \/ EndEngine \/ Cancel \/ Kill \/ Resume
  <2>1. UNCHANGED <<strategy, data, bat>>
    BY <1>4 DEF EngineBar, EndEngine, Cancel, Kill, Resume
  <2>2. QED BY <2>1, BatchUnmoved
<1>5. QED BY <1>1, <1>2, <1>3, <1>4 DEF EngineNext

----------------------------------------------------------------------------
(* One bar of the engine, in full.                                         *)

\* The position of the engine after a bar, before it may enter.
HeldAfter(bar) ==
  IF eng.pos = Flat \/ ReasonOn(eng, bar) # "none" THEN Flat ELSE Trailed(eng.pos, bar)

\* The direction the engine enters in.
SideOn(bar) == IF MayEnter(bar, eng.next) THEN EngineSignal(eng.prev, bar) ELSE 0

\* What a bar does to the position, to the previous values and to the equity curve.
LEMMA EvaluatedIs ==
  ASSUME EngineTyped, NEW bar \in Bars, ~FillFails(eng, bar, eng.next)
  PROVE  LET e == Evaluated(eng, bar, eng.next)
         IN  /\ HeldAfter(bar) # Flat => e.pos = HeldAfter(bar) /\ e.prev = eng.prev
             /\ HeldAfter(bar) = Flat =>
                  /\ e.pos = IF SideOn(bar) = 0 THEN Flat ELSE OpenedBy(bar, eng.next, SideOn(bar))
                  /\ SideOn(bar) # 0 => Costed(bar)
                  /\ e.prev = IF MayEnter(bar, eng.next) THEN NextPrev(eng.prev, bar)
                              ELSE eng.prev
             /\ e.first = eng.first
             /\ \E x \in Int : e.equity = Append(eng.equity, <<eng.next, x>>)
<1> DEFINE n == eng.next
           reason == ReasonOn(eng, bar)
           x == Exited(eng, bar, n, reason)
           t == [x EXCEPT !.pos = Trailed(@, bar)]
           m == IF MayEnter(bar, n) THEN Entered(t, bar, n) ELSE t
           r == Recorded(m, bar, n)
           e == [r EXCEPT !.next = n + 1]
<1>1. n \in Nat /\ DOMAIN eng = EngineFields /\ eng.pos \in Positions /\ strategy \in Strategies
      /\ eng.closed \in Int
  BY BoundsOfRunAssumption DEF EngineTyped
<1>2. Evaluated(eng, bar, n) = e
  BY DEF Evaluated
<1>3. /\ DOMAIN x = EngineFields /\ x.prev = eng.prev /\ x.first = eng.first
      /\ x.equity = eng.equity
      /\ x.pos = IF reason = "none" THEN eng.pos ELSE Flat
  <2>1. CASE reason = "none"
    BY <1>1, <2>1, ExitedFacts
  <2>2. CASE reason # "none"
    BY <1>1, <2>2 DEF Exited, EngineFields
  <2>3. QED BY <2>1, <2>2
<1>4. reason # "none" => eng.pos \in Position /\ Costed(bar)
  BY <1>1 DEF ReasonOn, Positions, FillFails
<1>5. x.closed \in Int
  <2>1. CASE reason = "none"
    BY <1>1, <2>1, ExitedFacts
  <2>2. CASE reason # "none"
    <3>1. x.closed = eng.closed + Current(bar, eng.pos.dir) - Cost(bar) - eng.pos.price
      BY <1>1, <2>2, ExitedFacts
    <3>2. Current(bar, eng.pos.dir) \in Int /\ Cost(bar) \in Int /\ eng.pos.price \in Int
      BY <1>4, <2>2, PositionFacts, BarFacts
    <3> HIDE DEF x
    <3>3. QED BY <1>1, <3>1, <3>2
  <2>3. QED BY <2>1, <2>2
<1>6. Trailed(Flat, bar) = Flat
  BY DEF Trailed
<1> HIDE DEF x
<1>7. /\ DOMAIN t = EngineFields /\ t.pos = Trailed(x.pos, bar) /\ t.prev = eng.prev
      /\ t.first = eng.first /\ t.equity = eng.equity /\ t.closed = x.closed
  BY <1>3 DEF EngineFields
<1>8. t.pos = HeldAfter(bar)
  BY <1>3, <1>6, <1>7 DEF HeldAfter
<1> HIDE DEF t
<1>9. SideOn(bar) \in {0, 1, -1}
  BY SignalFacts DEF SideOn
<1>10. HeldAfter(bar) = Flat /\ SideOn(bar) # 0 => Costed(bar)
  <2>1. SUFFICES ASSUME HeldAfter(bar) = Flat, SideOn(bar) # 0, ~Costed(bar) PROVE FALSE
    OBVIOUS
  <2>2. reason = "none" /\ MayEnter(bar, n) /\ EngineSignal(eng.prev, bar) # 0
    BY <1>4, <2>1 DEF SideOn
  <2>3. eng.pos = Flat
    <3>1. CASE eng.pos \in Position
      <4>1. Trailed(eng.pos, bar) # Flat
        BY <3>1, TrailedFacts, PositionFacts
      <4>2. QED BY <2>1, <2>2, <4>1 DEF HeldAfter
    <3>2. QED BY <1>1, <3>1 DEF Positions
  <2>4. QED BY <2>1, <2>2, <2>3 DEF FillFails
<1>11. /\ DOMAIN m = EngineFields /\ m.first = eng.first /\ m.equity = eng.equity
       /\ m.closed = x.closed
       /\ HeldAfter(bar) # Flat => m.pos = HeldAfter(bar) /\ m.prev = eng.prev
       /\ HeldAfter(bar) = Flat =>
            /\ m.pos = IF SideOn(bar) = 0 THEN Flat ELSE OpenedBy(bar, n, SideOn(bar))
            /\ m.prev = IF MayEnter(bar, n) THEN NextPrev(eng.prev, bar) ELSE eng.prev
  <2>1. CASE HeldAfter(bar) # Flat
    <3>1. m = t
      BY <1>8, <2>1 DEF Entered
    <3>2. QED BY <1>7, <1>8, <2>1, <3>1
  <2>2. CASE HeldAfter(bar) = Flat /\ ~MayEnter(bar, n)
    <3>1. m = t /\ SideOn(bar) = 0
      BY <2>2 DEF SideOn
    <3> HIDE DEF m
    <3>2. QED BY <1>7, <1>8, <2>2, <3>1
  <2>3. CASE HeldAfter(bar) = Flat /\ MayEnter(bar, n)
    <3> DEFINE pos == IF SideOn(bar) = 0 THEN Flat ELSE OpenedBy(bar, n, SideOn(bar))
               next == NextPrev(eng.prev, bar)
    <3>1. SideOn(bar) = EngineSignal(t.prev, bar)
      BY <1>7, <2>3 DEF SideOn
    <3>2. m = [t EXCEPT !.prev = next, !.pos = pos]
      BY <1>7, <1>8, <2>3, <3>1 DEF Entered, OpenedBy
    <3> HIDE DEF m, pos, next
    <3>3. /\ DOMAIN m = EngineFields /\ m.first = t.first /\ m.equity = t.equity
          /\ m.closed = t.closed /\ m.pos = pos /\ m.prev = next
      BY <1>7, <3>2 DEF EngineFields
    <3>4. QED BY <1>7, <2>3, <3>3 DEF pos, next
  <2>4. QED BY <2>1, <2>2, <2>3
<1> HIDE DEF m
<1>12. /\ r.pos = m.pos /\ r.prev = m.prev /\ r.first = m.first /\ DOMAIN r = EngineFields
       /\ \E y \in Int : r.equity = Append(m.equity, <<n, y>>)
  <2> DEFINE y == m.closed + (IF m.pos = Flat THEN 0 ELSE Current(bar, m.pos.dir) - m.pos.price)
  <2>1. m.pos = Flat \/ m.pos \in Position
    <3>1. CASE HeldAfter(bar) # Flat
      <4>1. HeldAfter(bar) \in Position
        <5>1. eng.pos \in Position /\ HeldAfter(bar) = Trailed(eng.pos, bar)
          BY <1>1, <3>1 DEF HeldAfter, Positions
        <5>2. QED BY <5>1, TrailedFacts
      <4>2. QED BY <1>11, <3>1, <4>1
    <3>2. CASE HeldAfter(bar) = Flat /\ SideOn(bar) # 0
      <4>1. OpenedBy(bar, n, SideOn(bar)) \in Position
        BY <1>1, <1>9, <1>10, <3>2, OpenedByFacts
      <4>2. QED BY <1>11, <3>2, <4>1
    <3>3. QED BY <1>11, <3>1, <3>2
  <2>2. y \in Int
    <3>1. m.closed \in Int
      BY <1>5, <1>11
    <3>2. CASE m.pos = Flat
      BY <3>1, <3>2
    <3>3. CASE m.pos \in Position
      <4>1. Current(bar, m.pos.dir) \in Int /\ m.pos.price \in Int
        BY <3>3, PositionFacts, BarFacts
      <4>2. QED BY <3>1, <4>1
    <3>4. QED BY <2>1, <3>2, <3>3
  <2>3. r.equity = Append(m.equity, <<n, y>>) /\ r.pos = m.pos /\ r.prev = m.prev
        /\ r.first = m.first /\ DOMAIN r = EngineFields
    BY <1>11 DEF Recorded, EngineFields
  <2> HIDE DEF y, r
  <2>4. QED BY <2>2, <2>3
<1> HIDE DEF r
<1>13. e.pos = r.pos /\ e.prev = r.prev /\ e.first = r.first /\ e.equity = r.equity
  BY <1>12 DEF EngineFields
<1> HIDE DEF e
<1>14. \E y \in Int : e.equity = Append(eng.equity, <<n, y>>)
  BY <1>11, <1>12, <1>13
<1>15. /\ e.pos = m.pos /\ e.prev = m.prev /\ e.first = eng.first
  BY <1>11, <1>12, <1>13
<1> HIDE DEF n
<1>16. QED BY <1>2, <1>10, <1>11, <1>14, <1>15 DEF n

----------------------------------------------------------------------------
(* The positions and trades of the engine at the bars it saw.              *)

\* A bar that is read changes nothing of what was evaluated before it.
LEMMA UnbrokenGrows ==
  ASSUME strategy \in Strategies, NEW d, NEW e, Grown(d, e), NEW s,
         NEW pos \in Positions, NEW n \in Int, s \subseteq 0 .. Len(d) - 1, Unbroken(d, s, pos, n)
  PROVE  Unbroken(e, s, pos, n)
<1>1. SUFFICES ASSUME pos # Flat PROVE Unbroken(e, s, pos, n)
  BY DEF Unbroken
<1>2. /\ pos \in Position /\ pos.at \in Nat /\ pos.dir \in {1, -1}
      /\ pos.at < Len(d) /\ pos.at <= n /\ Costed(d[pos.at + 1])
  BY <1>1, PositionFacts DEF Unbroken, Positions
<1>3. /\ pos.at < Len(e) /\ e[pos.at + 1] = d[pos.at + 1] /\ d[pos.at + 1] \in Bars
      /\ Len(d) \in Nat
  BY <1>2 DEF Grown
<1> DEFINE o == OpenedBy(d[pos.at + 1], pos.at, pos.dir)
<1>4. o \in Position
  BY <1>2, <1>3, OpenedByFacts
<1>5. ASSUME pos.at + 1 .. n \subseteq s PROVE Right(e, o, pos, n)
  <2>1. Right(d, o, pos, n)
    BY <1>1, <1>5 DEF Unbroken
  <2>2. n < Len(d)
    <3>1. CASE n = pos.at
      BY <1>2, <3>1
    <3>2. CASE n # pos.at
      <4>1. n \in pos.at + 1 .. n
        BY <1>2, <3>2
      <4>2. n \in 0 .. Len(d) - 1
        BY <1>5, <4>1
      <4>3. QED BY <1>3, <4>2
    <3>3. QED BY <3>1, <3>2
  <2> HIDE DEF o
  <2>3. QED BY <1>4, <2>1, <2>2, RightGrows
<1>6. QED BY <1>2, <1>3, <1>5 DEF Unbroken

LEMMA WitnessedGrows ==
  ASSUME strategy \in Strategies, NEW d, NEW e, Grown(d, e), NEW s,
         NEW t \in Trades, Witnessed(d, s, t)
  PROVE  Witnessed(e, s, t)
<1>1. /\ t.entry \in Nat /\ t.exit \in Nat /\ t.dir \in {1, -1}
      /\ t.entry < Len(d) /\ t.exit < Len(d) /\ Costed(d[t.entry + 1])
  BY DEF Witnessed, Trades
<1>2. /\ t.entry < Len(e) /\ t.exit < Len(e) /\ e[t.entry + 1] = d[t.entry + 1]
      /\ d[t.entry + 1] \in Bars
  BY <1>1 DEF Grown
<1> DEFINE o == OpenedBy(d[t.entry + 1], t.entry, t.dir)
<1>3. o \in Position
  BY <1>1, <1>2, OpenedByFacts
<1>4. ASSUME t.entry + 1 .. t.exit \subseteq s PROVE TradeRight(e, o, t)
  <2>1. TradeRight(d, o, t)
    BY <1>4 DEF Witnessed
  <2> HIDE DEF o
  <2>2. QED BY <1>1, <1>3, <2>1, TradeGrows
<1>5. QED BY <1>1, <1>2, <1>4 DEF Witnessed

\* Nor does it matter what bars are seen after them, or that fewer are.
LEMMA SeenOtherwise ==
  ASSUME NEW d, NEW s, NEW r
  PROVE  /\ \A pos, n : Unbroken(d, s, pos, n) /\ (pos # Flat => (pos.at + 1 .. n) \cap r \subseteq s)
                          => Unbroken(d, r, pos, n)
         /\ \A t : Witnessed(d, s, t) /\ (t.entry + 1 .. t.exit) \cap r \subseteq s
                     => Witnessed(d, r, t)
<1>1. ASSUME NEW pos, NEW n, Unbroken(d, s, pos, n), pos # Flat => (pos.at + 1 .. n) \cap r \subseteq s
      PROVE  Unbroken(d, r, pos, n)
  <2>1. pos # Flat /\ pos.at + 1 .. n \subseteq r => pos.at + 1 .. n \subseteq s
    BY <1>1
  <2>2. QED BY <1>1, <2>1 DEF Unbroken
<1>2. ASSUME NEW t, Witnessed(d, s, t), (t.entry + 1 .. t.exit) \cap r \subseteq s
      PROVE  Witnessed(d, r, t)
  <2>1. t.entry + 1 .. t.exit \subseteq r => t.entry + 1 .. t.exit \subseteq s
    BY <1>2
  <2>2. QED BY <1>2, <2>1 DEF Witnessed
<1>3. QED BY <1>1, <1>2

\* The position at a bar that does not close it.
LEMMA UnbrokenGoesOn ==
  ASSUME strategy \in Strategies, NEW d \in Seq(Bars), NEW s, NEW pos \in Position,
         NEW n \in Nat, n < Len(d), Unbroken(d, s, pos, n - 1), ExitReason(pos, d[n + 1]) = "none"
  PROVE  Unbroken(d, s \cup {n}, Trailed(pos, d[n + 1]), n)
<1> DEFINE bar == d[n + 1]
           p == Trailed(pos, bar)
           o == OpenedBy(d[pos.at + 1], pos.at, pos.dir)
<1>1. /\ pos # Flat /\ pos.at \in Nat /\ pos.dir \in {1, -1}
      /\ pos.at < Len(d) /\ pos.at <= n - 1 /\ Costed(d[pos.at + 1])
  BY PositionFacts DEF Unbroken
<1>2. bar \in Bars /\ d[pos.at + 1] \in Bars
  BY <1>1
<1>3. p.at = pos.at /\ p.dir = pos.dir /\ o \in Position /\ o.at = pos.at
  BY <1>1, <1>2, TrailedFacts, OpenedByFacts
<1>4. ASSUME pos.at + 1 .. n \subseteq s \cup {n} PROVE Right(d, o, p, n)
  <2>1. pos.at + 1 .. n - 1 \subseteq s
    <3>1. SUFFICES ASSUME NEW m \in pos.at + 1 .. n - 1 PROVE m \in s
      OBVIOUS
    <3>2. m \in pos.at + 1 .. n /\ m # n
      BY <1>1
    <3>3. QED BY <1>4, <3>2
  <2>2. Right(d, o, pos, n - 1)
    BY <1>1, <2>1 DEF Unbroken
  <2>3. o.at < n
    BY <1>1, <1>3
  <2> HIDE DEF o
  <2>4. QED BY <1>3, <2>2, <2>3, RightGoesOn
<1> HIDE DEF p
<1>5. p.at < Len(d) /\ p.at <= n /\ Costed(d[p.at + 1])
  BY <1>1, <1>3
<1>6. QED BY <1>3, <1>4, <1>5 DEF Unbroken, p

\* The position that is opened at a bar.
LEMMA UnbrokenOpens ==
  ASSUME strategy \in Strategies, NEW d \in Seq(Bars), NEW s, NEW n \in Nat, n < Len(d),
         NEW side \in {1, -1}, Costed(d[n + 1])
  PROVE  Unbroken(d, s, OpenedBy(d[n + 1], n, side), n)
<1> DEFINE o == OpenedBy(d[n + 1], n, side)
<1>1. o \in Position /\ o # Flat /\ o.at = n /\ o.dir = side
  BY OpenedByFacts
<1>2. OpenedBy(d[o.at + 1], o.at, o.dir) = o
  BY <1>1
<1> HIDE DEF o
<1>3. Right(d, o, o, n)
  BY <1>1, RightOpens
<1>4. Unbroken(d, s, o, n)
  BY <1>1, <1>2, <1>3 DEF Unbroken
<1>5. QED BY <1>4 DEF o

\* The trade that is made at a bar, and the one that is made at the end.
LEMMA UnbrokenCloses ==
  ASSUME NEW d \in Seq(Bars), NEW s, NEW pos \in Position, NEW n \in Nat, n < Len(d),
         strategy \in Strategies, Unbroken(d, s, pos, n - 1),
         NEW t, t.entry = pos.at, t.dir = pos.dir, t.exit = n, t.reason = ExitReason(pos, d[n + 1]),
         t.reason \in {"StopLoss", "TakeProfit", "TrailingStop"}
  PROVE  Witnessed(d, s \cup {n}, t)
<1> DEFINE o == OpenedBy(d[pos.at + 1], pos.at, pos.dir)
<1>1. /\ pos # Flat /\ pos.at \in Nat /\ pos.dir \in {1, -1}
      /\ pos.at < Len(d) /\ pos.at <= n - 1 /\ Costed(d[pos.at + 1])
  BY PositionFacts DEF Unbroken
<1>2. d[pos.at + 1] \in Bars
  BY <1>1
<1>3. o \in Position /\ o.at = pos.at
  BY <1>1, <1>2, OpenedByFacts
<1>4. ASSUME pos.at + 1 .. n \subseteq s \cup {n} PROVE TradeRight(d, o, t)
  <2>1. pos.at + 1 .. n - 1 \subseteq s
    <3>1. SUFFICES ASSUME NEW m \in pos.at + 1 .. n - 1 PROVE m \in s
      OBVIOUS
    <3>2. m \in pos.at + 1 .. n /\ m # n
      BY <1>1
    <3>3. QED BY <1>4, <3>2
  <2>2. Right(d, o, pos, n - 1)
    BY <1>1, <2>1 DEF Unbroken
  <2>3. n > o.at
    BY <1>1, <1>3
  <2> HIDE DEF o
  <2>4. QED BY <2>2, <2>3, RightCloses
<1>5. QED BY <1>1, <1>4 DEF Witnessed

LEMMA UnbrokenEnds ==
  ASSUME NEW d, Len(d) = Length, NEW s, NEW pos \in Position,
         Unbroken(d, s, pos, Length - 1),
         NEW t, t.entry = pos.at, t.dir = pos.dir, t.exit = Length - 1, t.reason = "EndOfData"
  PROVE  Witnessed(d, s, t)
<1> DEFINE o == OpenedBy(d[pos.at + 1], pos.at, pos.dir)
<1>1. pos # Flat /\ pos.at < Len(d) /\ Costed(d[pos.at + 1]) /\ Length \in Nat
  BY PositionFacts, BoundsOfRunAssumption DEF Unbroken
<1>2. ASSUME pos.at + 1 .. Length - 1 \subseteq s PROVE TradeRight(d, o, t)
  <2>1. Right(d, o, pos, Length - 1)
    BY <1>1, <1>2 DEF Unbroken
  <2> HIDE DEF o
  <2>2. QED BY <2>1, RightEnds
<1>3. QED BY <1>1, <1>2 DEF Witnessed

\* Both stay while the specification does.
LEMMA ExitsStay ==
  ASSUME strategy' = strategy, NEW d, NEW s
  PROVE  /\ \A pos, n : Unbroken(d, s, pos, n)' <=> Unbroken(d, s, pos, n)
         /\ \A t : Witnessed(d, s, t)' <=> Witnessed(d, s, t)
<1>1. ASSUME NEW pos, NEW n PROVE Unbroken(d, s, pos, n)' <=> Unbroken(d, s, pos, n)
  BY OpeningStays DEF Unbroken
<1>2. ASSUME NEW t PROVE Witnessed(d, s, t)' <=> Witnessed(d, s, t)
  BY OpeningStays DEF Witnessed
<1>3. QED BY <1>1, <1>2

----------------------------------------------------------------------------
(* Every step of the engine keeps them: bars.                              *)

\* What is shown of the bars, the engine and its trades after a step is the invariant.
LEMMA ExitsNext ==
  ASSUME strategy' = strategy, NEW d, NEW s, NEW pos, NEW n, NEW cp, NEW l,
         data' = d, seen' = s, eng'.pos = pos, eng'.next = n, ckpt' = cp, ledger' = l,
         s \subseteq 0 .. n - 1, s \subseteq 0 .. Len(d) - 1, Unbroken(d, s, pos, n - 1),
         cp # NoCheckpoint => Unbroken(d, s, cp.pos, cp.last),
         \A t \in Range(l) : Witnessed(d, s, t)
  PROVE  EngineExits'
<1>1. /\ Unbroken(d, s, pos, n - 1)'
      /\ cp # NoCheckpoint => Unbroken(d, s, cp.pos, cp.last)'
      /\ \A t \in Range(l) : Witnessed(d, s, t)'
  BY ExitsStay
<1>2. Unbroken(data, seen, eng.pos, eng.next - 1)'
  BY <1>1
<1>3. (ckpt # NoCheckpoint => Unbroken(data, seen, ckpt.pos, ckpt.last))'
  BY <1>1
<1>4. (\A t \in Range(ledger) : Witnessed(data, seen, t))'
  BY <1>1
<1>5. QED BY <1>2, <1>3, <1>4 DEF EngineExits

\* What the books of the engine say of their parts.
LEMMA LedgerFacts ==
  ASSUME EngineInv
  PROVE  /\ EngineTyped /\ eng.next \in Nat /\ data \in Seq(Bars) /\ Len(data) \in Nat
         /\ Len(data) <= Length /\ strategy \in Strategies
         /\ eng.pos = Flat \/ eng.pos \in Position
         /\ \A t \in Range(ledger) : t \in Trades /\ t.exit \in Nat /\ t.exit < eng.next
         /\ ckpt # NoCheckpoint => /\ ckpt.pos \in Positions /\ ckpt.last \in Nat
                                   /\ ckpt.last \in 0 .. Length - 1
<1>1. /\ EngineTyped /\ EngineBooks
  BY DEF EngineInv
<1>2. ASSUME NEW t \in Range(ledger) PROVE t \in Trades /\ t.exit \in Nat /\ t.exit < eng.next
  <2>1. PICK k \in 1 .. Len(ledger) : t = ledger[k]
    BY <1>1 DEF Range, EngineTyped
  <2>2. t \in Trades /\ t.exit < eng.next
    BY <1>1, <2>1 DEF EngineTyped, EngineBooks, BooksOf
  <2>3. QED BY <2>2 DEF Trades
<1>3. QED BY <1>1, <1>2, BoundsOfRunAssumption DEF EngineInv, EngineTyped, Positions, CheckpointBooks

\* A bar is read.
LEMMA ExitsNewBar ==
  ASSUME EngineInv, EngineExits, NEW bar \in Bars, NewBar(bar)
  PROVE  EngineExits'
<1>1. /\ UNCHANGED <<strategy, eng, ckpt, ledger, seen>> /\ data' = Append(data, bar)
  BY DEF NewBar
<1>2. PICK d : d = data
  OBVIOUS
<1>3. PICK e : e = Append(data, bar)
  OBVIOUS
<1>4. PICK s : s = seen
  OBVIOUS
<1>5. Grown(d, e) /\ Len(e) = Len(d) + 1 /\ Len(d) \in Nat
  BY <1>2, <1>3, GrowsBy, LedgerFacts
<1>6. s \subseteq 0 .. eng.next - 1 /\ s \subseteq 0 .. Len(d) - 1 /\ s \subseteq 0 .. Len(e) - 1
  BY <1>2, <1>4, <1>5 DEF EngineExits
<1>7. Unbroken(e, s, eng.pos, eng.next - 1)
  <2>1. Unbroken(d, s, eng.pos, eng.next - 1)
    BY <1>2, <1>4 DEF EngineExits
  <2>2. eng.pos \in Positions /\ eng.next - 1 \in Int
    BY LedgerFacts DEF Positions
  <2>3. QED BY <1>5, <1>6, <2>1, <2>2, LedgerFacts, UnbrokenGrows
<1>8. ASSUME ckpt # NoCheckpoint PROVE Unbroken(e, s, ckpt.pos, ckpt.last)
  <2>1. Unbroken(d, s, ckpt.pos, ckpt.last)
    BY <1>2, <1>4, <1>8 DEF EngineExits
  <2>2. ckpt.pos \in Positions /\ ckpt.last \in Int
    BY <1>8, LedgerFacts
  <2>3. QED BY <1>5, <1>6, <2>1, <2>2, LedgerFacts, UnbrokenGrows
<1>9. ASSUME NEW t \in Range(ledger) PROVE Witnessed(e, s, t)
  <2>1. Witnessed(d, s, t)
    BY <1>2, <1>4 DEF EngineExits
  <2>2. QED BY <1>5, <2>1, LedgerFacts, WitnessedGrows
<1>10. PICK pos : pos = eng.pos
  OBVIOUS
<1>11. PICK n : n = eng.next
  OBVIOUS
<1>12. PICK cp : cp = ckpt
  OBVIOUS
<1>13. PICK l : l = ledger
  OBVIOUS
<1>14. QED BY <1>1, <1>3, <1>4, <1>6, <1>7, <1>8, <1>9, <1>10, <1>11, <1>12, <1>13, ExitsNext

\* A step that leaves bars, engine and trades alone.
LEMMA ExitsUnmoved ==
  ASSUME EngineExits, UNCHANGED <<strategy, data, eng, ckpt, ledger, seen>>
  PROVE  EngineExits'
<1>1. PICK d : d = data
  OBVIOUS
<1>2. PICK s : s = seen
  OBVIOUS
<1>3. PICK pos : pos = eng.pos
  OBVIOUS
<1>4. PICK n : n = eng.next
  OBVIOUS
<1>5. PICK cp : cp = ckpt
  OBVIOUS
<1>6. PICK l : l = ledger
  OBVIOUS
<1>7. /\ data' = d /\ seen' = s /\ eng'.pos = pos /\ eng'.next = n /\ ckpt' = cp /\ ledger' = l
      /\ s \subseteq 0 .. n - 1 /\ s \subseteq 0 .. Len(d) - 1 /\ Unbroken(d, s, pos, n - 1)
      /\ cp # NoCheckpoint => Unbroken(d, s, cp.pos, cp.last)
      /\ \A t \in Range(l) : Witnessed(d, s, t)
  BY <1>1, <1>2, <1>3, <1>4, <1>5, <1>6 DEF EngineExits
<1>8. QED BY <1>7, ExitsNext

\* The engine evaluates a bar: its position goes on, is opened or is closed there.
LEMMA ExitsBar ==
  ASSUME EngineInv, EngineExits, EngineBar
  PROVE  EngineExits'
<1> DEFINE n == eng.next
           bar == data[n + 1]
           reason == ReasonOn(eng, bar)
           trade == Trade(eng.pos, bar, n, reason, Current(bar, eng.pos.dir) - Cost(bar))
<1>1. /\ n \in Nat /\ n < Len(data) /\ UNCHANGED <<strategy, data>> /\ status = "running"
      /\ strategy \in Strategies /\ data \in Seq(Bars) /\ bar \in Bars /\ EngineTyped
  BY LedgerFacts DEF EngineBar
<1>2. CASE FillFails(eng, bar, n)
  <2>1. UNCHANGED <<eng, ckpt, ledger, seen>>
    BY <1>2 DEF EngineBar
  <2>2. QED BY <1>1, <2>1, ExitsUnmoved
<1>3. CASE ~FillFails(eng, bar, n)
  <2>1. /\ eng' = Evaluated(eng, bar, n)
        /\ ckpt' = IF CheckpointDue(eng, bar, n) THEN CheckpointOf(eng', n) ELSE ckpt
        /\ ledger' = IF reason = "none" THEN ledger ELSE Append(ledger, trade)
        /\ seen' = seen \cup {n}
    BY <1>3 DEF EngineBar
  <2>2. /\ HeldAfter(bar) # Flat => eng'.pos = HeldAfter(bar)
        /\ HeldAfter(bar) = Flat =>
             /\ eng'.pos = IF SideOn(bar) = 0 THEN Flat ELSE OpenedBy(bar, n, SideOn(bar))
             /\ SideOn(bar) # 0 => Costed(bar)
    BY <1>1, <1>3, <2>1, EvaluatedIs
  <2>3. eng'.next = n + 1
    BY <1>1, <1>3, <2>1, EvaluatedFacts
  <2>4. PICK s : s = seen
    OBVIOUS
  <2>5. PICK d : d = data
    OBVIOUS
  <2>6. /\ s \subseteq 0 .. n - 1 /\ s \subseteq 0 .. Len(d) - 1
        /\ Unbroken(d, s, eng.pos, n - 1)
        /\ ckpt # NoCheckpoint => Unbroken(d, s, ckpt.pos, ckpt.last)
        /\ \A t \in Range(ledger) : Witnessed(d, s, t)
        /\ bar = d[n + 1] /\ d \in Seq(Bars) /\ n < Len(d) /\ Len(d) \in Nat
    BY <1>1, <2>4, <2>5 DEF EngineExits
  <2> DEFINE r == s \cup {n}
  <2>7. r \subseteq 0 .. n /\ r \subseteq 0 .. Len(d) - 1
    BY <1>1, <2>6
  <2>8. PICK pos : pos = eng'.pos
    OBVIOUS
  <2> HIDE DEF n, bar
  <2>9. Unbroken(d, r, pos, n)
    <3>1. CASE HeldAfter(bar) # Flat
      <4>1. /\ eng.pos # Flat /\ reason = "none" /\ pos = Trailed(eng.pos, bar)
        BY <2>2, <2>8, <3>1 DEF HeldAfter
      <4>2. eng.pos \in Position /\ ExitReason(eng.pos, bar) = "none"
        BY <4>1, LedgerFacts DEF ReasonOn
      <4>3. QED BY <1>1, <2>6, <4>1, <4>2, UnbrokenGoesOn
    <3>2. CASE HeldAfter(bar) = Flat /\ SideOn(bar) = 0
      <4>1. pos = Flat
        BY <2>2, <2>8, <3>2
      <4>2. QED BY <4>1 DEF Unbroken
    <3>3. CASE HeldAfter(bar) = Flat /\ SideOn(bar) # 0
      <4>1. SideOn(bar) \in {1, -1}
        BY <3>3, SignalFacts DEF SideOn
      <4>2. pos = OpenedBy(d[n + 1], n, SideOn(bar)) /\ Costed(d[n + 1])
        BY <2>2, <2>6, <2>8, <3>3
      <4>3. QED BY <1>1, <2>6, <4>1, <4>2, UnbrokenOpens
    <3>4. QED BY <3>1, <3>2, <3>3
  <2>10. PICK cp : cp = ckpt'
    OBVIOUS
  <2>11. ASSUME cp # NoCheckpoint PROVE Unbroken(d, r, cp.pos, cp.last)
    <3>1. CASE CheckpointDue(eng, bar, n)
      <4>1. cp.pos = pos /\ cp.last = n
        BY <2>1, <2>8, <2>10, <3>1 DEF CheckpointOf
      <4>2. QED BY <2>9, <4>1
    <3>2. CASE ~CheckpointDue(eng, bar, n)
      <4>1. cp = ckpt
        BY <2>1, <2>10, <3>2
      <4>2. cp.last < n /\ cp.last \in Nat
        BY <1>1, <2>11, <4>1, LedgerFacts DEF EngineInv, CheckpointBehind, n
      <4>3. Unbroken(d, s, cp.pos, cp.last)
        BY <2>6, <2>11, <4>1
      <4>4. (cp.pos.at + 1 .. cp.last) \cap r \subseteq s
        BY <1>1, <4>2
      <4> HIDE DEF r
      <4>5. QED BY <4>3, <4>4, SeenOtherwise
    <3>3. QED BY <3>1, <3>2
  <2>12. PICK l : l = ledger'
    OBVIOUS
  <2>13. \A t \in Range(ledger) : Witnessed(d, r, t)
    <3>1. SUFFICES ASSUME NEW t \in Range(ledger) PROVE Witnessed(d, r, t)
      OBVIOUS
    <3>2. t.exit < n /\ t.exit \in Nat /\ Witnessed(d, s, t)
      BY <2>6, LedgerFacts DEF n
    <3>3. (t.entry + 1 .. t.exit) \cap r \subseteq s
      BY <1>1, <3>2
    <3> HIDE DEF r
    <3>4. QED BY <3>2, <3>3, SeenOtherwise
  <2>14. \A t \in Range(l) : Witnessed(d, r, t)
    <3>1. CASE reason = "none"
      BY <2>1, <2>12, <2>13, <3>1
    <3>2. CASE reason # "none"
      <4>1. eng.pos \in Position /\ reason = ExitReason(eng.pos, bar)
        BY <3>2, LedgerFacts DEF ReasonOn
      <4>2. reason \in {"StopLoss", "TakeProfit", "TrailingStop"}
        BY <3>2, ReasonFacts
      <4>3. trade.entry = eng.pos.at /\ trade.dir = eng.pos.dir /\ trade.exit = n
            /\ trade.reason = reason
        BY DEF Trade
      <4>4. l = Append(ledger, trade) /\ ledger \in Seq(Trades)
        BY <1>1, <2>1, <2>12, <3>2 DEF EngineTyped
      <4> HIDE DEF trade, reason
      <4>5. Witnessed(d, r, trade)
        BY <1>1, <2>6, <4>1, <4>2, <4>3, UnbrokenCloses
      <4>6. Range(l) = Range(ledger) \cup {trade}
        BY <4>4 DEF Range
      <4>7. QED BY <2>13, <4>5, <4>6
    <3>3. QED BY <3>1, <3>2
  <2>15. PICK m : m = n + 1
    OBVIOUS
  <2>16. m - 1 = n /\ r \subseteq 0 .. m - 1
    BY <1>1, <2>7, <2>15
  <2>17. seen' = r /\ data' = d /\ eng'.next = m
    BY <1>1, <2>1, <2>3, <2>4, <2>5, <2>15
  <2>18. PICK q : q = r
    OBVIOUS
  <2> HIDE DEF r
  <2>19. QED
    BY <1>1, <2>7, <2>8, <2>9, <2>10, <2>11, <2>12, <2>14, <2>16, <2>17, <2>18, ExitsNext
<1>4. QED BY <1>2, <1>3

----------------------------------------------------------------------------
(* Every step of the engine keeps them: the end, cancellation and resumption.*)

\* The engine closes its position at the end of the data.
LEMMA ExitsEnd ==
  ASSUME EngineInv, EngineExits, EndEngine
  PROVE  EngineExits'
<1> DEFINE bar == Last(data)
           trade == Trade(eng.pos, bar, Length - 1, "EndOfData",
                          Current(bar, eng.pos.dir) - Cost(bar))
           x == Exited(eng, bar, Length - 1, "EndOfData")
<1>1. /\ UNCHANGED <<strategy, data, ckpt, seen>> /\ Len(data) = Length /\ eng.next = Length
      /\ Length - 1 \in Nat /\ EngineTyped
  BY LedgerFacts, BoundsOfRunAssumption DEF EndEngine, EngineTyped
<1>2. CASE UNCHANGED <<eng, ledger>>
  BY <1>1, <1>2, ExitsUnmoved
<1>3. CASE ~UNCHANGED <<eng, ledger>>
  <2>1. /\ eng.pos # Flat /\ eng' = Recorded(x, bar, Length - 1)
        /\ ledger' = Append(ledger, trade)
    BY <1>3 DEF EndEngine
  <2>2. DOMAIN x = EngineFields /\ x.pos = Flat /\ x.next = eng.next
    BY <1>1 DEF Exited, EngineTyped, EngineFields
  <2> HIDE DEF x
  <2>3. eng'.pos = Flat /\ eng'.next = eng.next
    BY <1>1, <2>1, <2>2, RecordedFacts
  <2>4. trade.entry = eng.pos.at /\ trade.dir = eng.pos.dir /\ trade.exit = Length - 1
        /\ trade.reason = "EndOfData"
    BY DEF Trade
  <2> HIDE DEF trade, bar
  <2>5. PICK d : d = data
    OBVIOUS
  <2>6. PICK s : s = seen
    OBVIOUS
  <2>7. PICK n : n = eng.next
    OBVIOUS
  <2>8. PICK cp : cp = ckpt
    OBVIOUS
  <2>9. PICK l : l = ledger'
    OBVIOUS
  <2>10. /\ s \subseteq 0 .. n - 1 /\ s \subseteq 0 .. Len(d) - 1
         /\ Unbroken(d, s, eng.pos, Length - 1)
         /\ cp # NoCheckpoint => Unbroken(d, s, cp.pos, cp.last)
         /\ \A t \in Range(ledger) : Witnessed(d, s, t)
    BY <1>1, <2>5, <2>6, <2>7, <2>8 DEF EngineExits
  <2>11. Witnessed(d, s, trade)
    <3>1. eng.pos \in Position /\ Len(d) = Length
      BY <1>1, <2>1, <2>5, LedgerFacts
    <3>2. QED BY <2>4, <2>10, <3>1, UnbrokenEnds
  <2>12. Range(l) = Range(ledger) \cup {trade}
    <3>1. ledger \in Seq(Trades)
      BY <1>1 DEF EngineTyped
    <3>2. l = Append(ledger, trade)
      BY <2>1, <2>9
    <3>3. QED BY <3>1, <3>2 DEF Range
  <2>13. Unbroken(d, s, Flat, n - 1)
    BY DEF Unbroken
  <2>14. \A t \in Range(l) : Witnessed(d, s, t)
    BY <2>10, <2>11, <2>12
  <2>15. PICK pos : pos = Flat
    OBVIOUS
  <2>16. data' = d /\ seen' = s /\ eng'.pos = pos /\ eng'.next = n /\ ckpt' = cp
    BY <1>1, <2>3, <2>5, <2>6, <2>7, <2>8, <2>15
  <2>17. Unbroken(d, s, pos, n - 1)
    BY <2>13, <2>15
  <2>18. QED BY <1>1, <2>9, <2>10, <2>14, <2>16, <2>17, ExitsNext
<1>4. QED BY <1>2, <1>3

\* A checkpoint made by a cancellation names a bar that was not seen.
LEMMA ExitsCancel ==
  ASSUME EngineInv, EngineExits, Cancel
  PROVE  EngineExits'
<1>1. /\ UNCHANGED <<strategy, data, eng, ledger, seen>> /\ eng.next \in Nat
      /\ ckpt' = CheckpointOf(eng, eng.next)
  BY LedgerFacts DEF Cancel
<1>2. PICK d : d = data
  OBVIOUS
<1>3. PICK s : s = seen
  OBVIOUS
<1>4. PICK pos : pos = eng.pos
  OBVIOUS
<1>5. PICK n : n = eng.next
  OBVIOUS
<1>6. PICK cp : cp = ckpt'
  OBVIOUS
<1>7. PICK l : l = ledger
  OBVIOUS
<1>8. /\ s \subseteq 0 .. n - 1 /\ s \subseteq 0 .. Len(d) - 1 /\ Unbroken(d, s, pos, n - 1)
      /\ \A t \in Range(l) : Witnessed(d, s, t)
  BY <1>2, <1>3, <1>4, <1>5, <1>7 DEF EngineExits
<1>9. cp.pos = pos /\ cp.last = n
  BY <1>1, <1>4, <1>5, <1>6 DEF CheckpointOf
<1>10. Unbroken(d, s, pos, n)
  <2>1. SUFFICES ASSUME pos # Flat PROVE Unbroken(d, s, pos, n)
    BY DEF Unbroken
  <2>2. pos.at \in Nat /\ pos.at < Len(d) /\ pos.at <= n - 1 /\ Costed(d[pos.at + 1])
    BY <1>4, <1>8, <2>1, LedgerFacts, PositionFacts DEF Unbroken
  <2>3. n \in Nat /\ n \in pos.at + 1 .. n /\ n \notin s /\ pos.at <= n
    BY <1>1, <1>5, <1>8, <2>2
  <2>4. QED BY <2>2, <2>3 DEF Unbroken
<1>11. cp # NoCheckpoint => Unbroken(d, s, cp.pos, cp.last)
  BY <1>9, <1>10
<1>12. data' = d /\ seen' = s /\ eng'.pos = pos /\ eng'.next = n /\ ckpt' = cp /\ ledger' = l
  BY <1>1, <1>2, <1>3, <1>4, <1>5, <1>6, <1>7
<1>13. QED BY <1>1, <1>8, <1>11, <1>12, ExitsNext

\* A process goes on from the checkpoint.
LEMMA ExitsResume ==
  ASSUME EngineInv, EngineExits, Resume
  PROVE  EngineExits'
<1>1. /\ UNCHANGED <<strategy, data, ckpt>>
      /\ eng' = IF ckpt = NoCheckpoint THEN Fresh(0, 0, 0, Flat) ELSE Resumed(ckpt)
      /\ ledger' = SubSeq(ledger, 1, eng'.count)
      /\ seen' = {n \in seen : n < eng'.next}
      /\ ledger \in Seq(Trades)
  BY LedgerFacts DEF Resume, EngineTyped
<1>2. PICK d : d = data
  OBVIOUS
<1>3. PICK s : s = seen
  OBVIOUS
<1>4. PICK r : r = seen'
  OBVIOUS
<1>5. PICK pos : pos = eng'.pos
  OBVIOUS
<1>6. PICK n : n = eng'.next
  OBVIOUS
<1>7. PICK cp : cp = ckpt
  OBVIOUS
<1>8. PICK l : l = ledger'
  OBVIOUS
<1>9. /\ s \subseteq 0 .. eng.next - 1 /\ s \subseteq 0 .. Len(d) - 1 /\ eng.next \in Nat
      /\ cp # NoCheckpoint => Unbroken(d, s, cp.pos, cp.last)
      /\ \A t \in Range(ledger) : Witnessed(d, s, t)
  BY <1>2, <1>3, <1>7, LedgerFacts DEF EngineExits
<1>10. /\ cp = NoCheckpoint => pos = Flat /\ n = 0 /\ eng'.count = 0
       /\ cp # NoCheckpoint => pos = cp.pos /\ n = cp.last + 1 /\ cp.last \in Nat
                               /\ eng'.count = cp.count /\ cp.count \in 0 .. Len(ledger)
  BY <1>1, <1>5, <1>6, <1>7, LedgerFacts DEF Fresh, Resumed, EngineInv, CheckpointBooks
<1>11. r \subseteq s /\ r \subseteq 0 .. n - 1 /\ r \subseteq 0 .. Len(d) - 1 /\ n \in Nat
  <2>1. n \in Nat
    BY <1>10
  <2>2. r = {m \in s : m < n}
    BY <1>1, <1>3, <1>4, <1>6
  <2>3. r \subseteq s
    BY <2>2
  <2>4. r \subseteq 0 .. n - 1
    <3>1. SUFFICES ASSUME NEW m \in r PROVE m \in 0 .. n - 1
      OBVIOUS
    <3>2. m < n /\ m \in 0 .. eng.next - 1
      BY <1>9, <2>2
    <3>3. QED BY <1>9, <2>1, <3>2
  <2>5. QED BY <1>9, <2>1, <2>3, <2>4
<1>12. cp # NoCheckpoint => Unbroken(d, r, cp.pos, cp.last)
  BY <1>9, <1>11, SeenOtherwise
<1>13. Unbroken(d, r, pos, n - 1)
  <2>1. CASE cp = NoCheckpoint
    BY <1>10, <2>1 DEF Unbroken
  <2>2. CASE cp # NoCheckpoint
    <3>1. pos = cp.pos /\ n - 1 = cp.last
      BY <1>10, <2>2
    <3>2. QED BY <1>12, <2>2, <3>1
  <2>3. QED BY <2>1, <2>2
<1>14. \A t \in Range(l) : Witnessed(d, r, t)
  <2>1. eng'.count \in 0 .. Len(ledger)
    <3>1. Len(ledger) \in Nat
      BY <1>1
    <3>2. QED BY <1>10, <3>1
  <2>2. PICK c \in 0 .. Len(ledger) : c = eng'.count
    BY <2>1
  <2>3. l = SubSeq(ledger, 1, c)
    BY <1>1, <1>8, <2>2
  <2>4. Range(l) \subseteq Range(ledger)
    <3>1. DOMAIN l = 1 .. c /\ \A k \in 1 .. c : l[k] = ledger[k]
      BY <1>1, <2>3
    <3>2. DOMAIN ledger = 1 .. Len(ledger) /\ \A k \in 1 .. c : k \in 1 .. Len(ledger)
      BY <1>1
    <3>3. QED BY <3>1, <3>2 DEF Range
  <2>5. QED BY <1>9, <1>11, <2>4, SeenOtherwise
<1>15. data' = d /\ seen' = r /\ eng'.pos = pos /\ eng'.next = n /\ ckpt' = cp /\ ledger' = l
  BY <1>1, <1>2, <1>4, <1>5, <1>6, <1>7, <1>8
<1>16. QED BY <1>1, <1>11, <1>12, <1>13, <1>14, <1>15, ExitsNext

\* Every step.
LEMMA ExitsKeeps ==
  ASSUME EngineInv, EngineExits, [EngineNext]_engine
  PROVE  EngineExits'
<1>1. CASE UNCHANGED engine
  BY <1>1, ExitsUnmoved DEF engine
<1>2. ASSUME NEW bar \in Bars, NewBar(bar) PROVE EngineExits'
  BY <1>2, ExitsNewBar
<1>3. CASE EndBatch \/ Kill
  <2>1. UNCHANGED <<strategy, data, eng, ckpt, ledger, seen>>
    BY <1>3 DEF EndBatch, Kill
  <2>2. QED BY <2>1, ExitsUnmoved
<1>4. QED BY <1>1, <1>2, <1>3, ExitsBar, ExitsEnd, ExitsCancel, ExitsResume DEF EngineNext

\* Nothing is open at first.
LEMMA ExitsInit == ASSUME EngineInit PROVE EngineExits
<1>1. /\ data = <<>> /\ seen = {} /\ ledger = <<>> /\ ckpt = NoCheckpoint
      /\ eng.pos = Flat /\ eng.next = 0
  BY DEF EngineInit, Fresh
<1>2. Range(ledger) = {}
  BY <1>1 DEF Range
<1>3. QED BY <1>1, <1>2 DEF EngineExits, Unbroken

----------------------------------------------------------------------------
(* The points of the equity curve rise in time.                            *)

\* A point no earlier than the others.
LEMMA RisingMore ==
  ASSUME NEW p, Rising(p), NEW n \in Nat, \A k \in DOMAIN p : p[k][1] <= n, NEW x \in Int
  PROVE  /\ Rising(Append(p, <<n, x>>))
         /\ \A k \in DOMAIN Append(p, <<n, x>>) : Append(p, <<n, x>>)[k][1] <= n
<1> DEFINE q == Append(p, <<n, x>>)
<1>1. p \in Seq(Nat \X Int) /\ DOMAIN p = 1 .. Len(p) /\ Len(p) \in Nat
  BY DEF Rising
<1>2. <<n, x>> \in Nat \X Int /\ <<n, x>>[1] = n
  OBVIOUS
<1>3. /\ q \in Seq(Nat \X Int) /\ DOMAIN q = 1 .. Len(p) + 1 /\ q[Len(p) + 1][1] = n
      /\ \A k \in 1 .. Len(p) : q[k] = p[k]
  BY <1>1, <1>2
<1>4. \A k \in 1 .. Len(p) : p[k][1] \in Nat
  <2>1. \A k \in 1 .. Len(p) : p[k] \in Nat \X Int
    BY <1>1
  <2>2. QED BY <2>1
<1> HIDE DEF q
<1>5. \A k \in 1 .. Len(p) : q[k][1] <= n /\ q[k][1] = p[k][1]
  BY <1>1, <1>3
<1>6. ASSUME NEW j \in 1 .. Len(p) + 1, NEW k \in 1 .. Len(p) + 1, j <= k
      PROVE  q[j][1] <= q[k][1]
  <2>1. CASE k = Len(p) + 1
    <3>1. j = Len(p) + 1 \/ j \in 1 .. Len(p)
      BY <1>1
    <3>2. QED BY <1>3, <1>5, <2>1, <3>1
  <2>2. CASE k # Len(p) + 1
    <3>1. j \in 1 .. Len(p) /\ k \in 1 .. Len(p)
      BY <1>1, <1>6, <2>2
    <3>2. p[j][1] <= p[k][1]
      BY <1>1, <1>6, <3>1 DEF Rising
    <3>3. QED BY <1>5, <3>1, <3>2
  <2>3. QED BY <2>1, <2>2
<1>7. \A k \in 1 .. Len(p) + 1 : q[k][1] <= n
  <2>1. \A k \in 1 .. Len(p) + 1 : k = Len(p) + 1 \/ k \in 1 .. Len(p)
    BY <1>1
  <2>2. QED BY <1>3, <1>5, <2>1
<1>8. Rising(q)
  BY <1>3, <1>6 DEF Rising
<1>9. QED BY <1>3, <1>7, <1>8 DEF q

\* The points before bar n.
Before(p, n) == Rising(p) /\ \A k \in DOMAIN p : p[k][1] < n

\* The point of bar n.
LEMMA BeforeFacts ==
  ASSUME NEW p, NEW n \in Nat, Before(p, n), NEW x \in Int
  PROVE  Before(Append(p, <<n, x>>), n + 1)
<1>1. Rising(p) /\ DOMAIN p = 1 .. Len(p) /\ \A k \in DOMAIN p : p[k][1] \in Nat
  <2>1. Rising(p)
    BY DEF Before
  <2>2. p \in Seq(Nat \X Int) /\ DOMAIN p = 1 .. Len(p)
    BY <2>1 DEF Rising
  <2>3. \A k \in 1 .. Len(p) : p[k] \in Nat \X Int
    BY <2>2
  <2>4. QED BY <2>1, <2>2, <2>3
<1>2. \A k \in DOMAIN p : p[k][1] <= n
  BY <1>1 DEF Before
<1> DEFINE q == Append(p, <<n, x>>)
<1>3. Rising(q) /\ \A k \in DOMAIN q : q[k][1] <= n
  BY <1>1, <1>2, RisingMore
<1> HIDE DEF q
<1>4. \A k \in DOMAIN q : q[k][1] \in Nat
  <2>1. q \in Seq(Nat \X Int)
    BY <1>3 DEF Rising
  <2>2. \A k \in DOMAIN q : q[k] \in Nat \X Int
    BY <2>1
  <2>3. QED BY <2>2
<1>5. \A k \in DOMAIN q : q[k][1] < n + 1
  BY <1>3, <1>4
<1>6. QED BY <1>3, <1>5 DEF q, Before

\* The rest of the invariant.
LEMMA RestIs ==
  EngineRest <=>
    /\ status \in {"running", "down", "failed", "done"} /\ resumes \in 0 .. MaxResumes
    /\ eng.first \in 0 .. eng.next /\ Before(eng.equity, eng.next)
BY DEF EngineRest, Before

\* No points.
LEMMA EmptyBefore == ASSUME NEW n PROVE Before(<<>>, n)
<1>1. <<>> \in Seq(Nat \X Int) /\ DOMAIN <<>> = {}
  OBVIOUS
<1>2. QED BY <1>1 DEF Before, Rising

\* It holds at first.
LEMMA RestInit == ASSUME EngineInit PROVE EngineRest
<1>1. /\ status = "running" /\ resumes = 0 /\ eng.first = 0 /\ eng.next = 0 /\ eng.equity = <<>>
  BY DEF EngineInit, Fresh
<1>2. 0 \in 0 .. MaxResumes
  BY BoundsOfRunAssumption
<1>3. QED BY <1>1, <1>2, EmptyBefore, RestIs

\* The engine records a point per bar, and one more at the end.
LEMMA RestNext ==
  ASSUME status' \in {"running", "down", "failed", "done"}, resumes' \in 0 .. MaxResumes,
         NEW first, NEW n, NEW p, eng'.first = first, eng'.next = n, eng'.equity = p,
         first \in 0 .. n, Before(p, n)
  PROVE  EngineRest'
BY DEF EngineRest, Before

\* Every step keeps it.
LEMMA RestKeeps ==
  ASSUME EngineInv, EngineRest, [EngineNext]_engine
  PROVE  EngineRest'
<1>1. /\ status \in {"running", "down", "failed", "done"} /\ resumes \in 0 .. MaxResumes
      /\ eng.first \in 0 .. eng.next /\ Before(eng.equity, eng.next)
      /\ eng.next \in Nat /\ EngineTyped
  BY LedgerFacts, RestIs
<1>2. CASE UNCHANGED <<eng, resumes>> /\ status' \in {"running", "down", "failed", "done"}
  BY <1>1, <1>2, RestNext
<1>3. CASE UNCHANGED engine
  BY <1>1, <1>2, <1>3 DEF engine
<1>4. ASSUME NEW bar \in Bars, NewBar(bar) PROVE EngineRest'
  BY <1>1, <1>2, <1>4 DEF NewBar
<1>5. CASE EndBatch \/ Kill \/ Cancel
  BY <1>1, <1>2, <1>5 DEF EndBatch, Kill, Cancel
<1>6. CASE EngineBar
  <2> DEFINE n == eng.next
             bar == data[n + 1]
  <2>1. n \in Nat /\ n < Len(data) /\ bar \in Bars /\ resumes' = resumes
    BY <1>6, LedgerFacts DEF EngineBar
  <2>2. CASE FillFails(eng, bar, n)
    BY <1>2, <1>6, <2>1, <2>2 DEF EngineBar
  <2>3. CASE ~FillFails(eng, bar, n)
    <3>1. eng' = Evaluated(eng, bar, n) /\ status' = status
      BY <1>6, <2>3 DEF EngineBar
    <3>2. eng'.next = n + 1
      BY <1>1, <2>1, <2>3, <3>1, EvaluatedFacts
    <3>3. eng'.first = eng.first /\ \E x \in Int : eng'.equity = Append(eng.equity, <<n, x>>)
      BY <1>1, <2>1, <2>3, <3>1, EvaluatedIs
    <3>4. PICK x \in Int : eng'.equity = Append(eng.equity, <<n, x>>)
      BY <3>3
    <3> HIDE DEF bar
    <3>5. Before(eng'.equity, n + 1)
      BY <1>1, <3>4, BeforeFacts
    <3>6. eng.first \in 0 .. n + 1
      BY <1>1
    <3>7. PICK first : first = eng.first
      OBVIOUS
    <3>8. PICK m : m = n + 1
      OBVIOUS
    <3>9. PICK p : p = eng'.equity
      OBVIOUS
    <3>10. QED BY <1>1, <2>1, <3>1, <3>2, <3>3, <3>5, <3>6, <3>7, <3>8, <3>9, RestNext
  <2>4. QED BY <2>2, <2>3
<1>7. CASE EndEngine
  <2> DEFINE bar == Last(data)
             x == Exited(eng, bar, Length - 1, "EndOfData")
  <2>1. /\ resumes' = resumes /\ status' \in {"done", "failed"} /\ eng.next = Length
        /\ Length - 1 \in Nat /\ data \in Seq(Bars) /\ Len(data) = Length
    BY <1>1, <1>7, BoundsOfRunAssumption DEF EndEngine, EngineTyped
  <2>2. CASE eng' = eng
    BY <1>2, <2>1, <2>2
  <2>3. CASE eng' # eng
    <3>1. eng' = Recorded(x, bar, Length - 1) /\ eng.pos # Flat /\ Costed(bar) /\ bar \in Bars
      BY <1>7, <2>1, <2>3 DEF EndEngine, Last
    <3>2. /\ DOMAIN x = EngineFields /\ x.pos = Flat /\ x.next = eng.next /\ x.first = eng.first
          /\ x.equity = eng.equity
          /\ x.closed = eng.closed + Current(bar, eng.pos.dir) - Cost(bar) - eng.pos.price
      BY <1>1 DEF Exited, EngineTyped, EngineFields
    <3>3. x.closed \in Int
      <4>1. Current(bar, eng.pos.dir) \in Int /\ Cost(bar) \in Int /\ eng.pos.price \in Int
            /\ eng.closed \in Int
        BY <3>1, LedgerFacts, PositionFacts, BarFacts DEF EngineTyped
      <4> HIDE DEF x, bar
      <4>2. QED BY <3>2, <4>1
    <3> HIDE DEF x
    <3> DEFINE y == x.closed + 0
    <3>4. /\ eng'.next = eng.next /\ eng'.first = eng.first
          /\ eng'.equity = Append(eng.equity, <<Length - 1, y>>)
      BY <3>1, <3>2 DEF Recorded, EngineFields
    <3>5. y \in Int
      BY <3>3
    <3> HIDE DEF y
    <3>6. \A k \in DOMAIN eng.equity : eng.equity[k][1] \in Nat /\ eng.equity[k][1] < Length
      <4>1. eng.equity \in Seq(Nat \X Int)
        BY <1>1 DEF Before, Rising
      <4>2. \A k \in DOMAIN eng.equity : eng.equity[k] \in Nat \X Int
        BY <4>1
      <4>3. QED BY <1>1, <2>1, <4>2 DEF Before
    <3>7. PICK m : m = Length - 1
      OBVIOUS
    <3>8. Rising(eng.equity) /\ \A k \in DOMAIN eng.equity : eng.equity[k][1] <= m
      BY <1>1, <2>1, <3>6, <3>7 DEF Before
    <3>9. PICK p : p = Append(eng.equity, <<m, y>>)
      OBVIOUS
    <3>10. Rising(p) /\ \A k \in DOMAIN p : p[k][1] <= m
      BY <2>1, <3>5, <3>7, <3>8, <3>9, RisingMore
    <3>11. \A k \in DOMAIN p : p[k][1] < Length
      <4>1. p \in Seq(Nat \X Int)
        BY <3>10 DEF Rising
      <4>2. \A k \in DOMAIN p : p[k] \in Nat \X Int
        BY <4>1
      <4>3. QED BY <2>1, <3>7, <3>10, <4>2
    <3>12. Before(p, Length)
      BY <3>10, <3>11 DEF Before
    <3>13. PICK first : first = eng.first
      OBVIOUS
    <3>14. eng'.first = first /\ eng'.next = Length /\ eng'.equity = p /\ first \in 0 .. Length
      BY <1>1, <2>1, <3>4, <3>7, <3>9, <3>13
    <3>15. QED BY <1>1, <2>1, <3>12, <3>14, RestNext
  <2>4. QED BY <2>2, <2>3
<1>8. CASE Resume
  <2>1. /\ status' = "running" /\ resumes' = resumes + 1 /\ resumes < MaxResumes
        /\ eng' = IF ckpt = NoCheckpoint THEN Fresh(0, 0, 0, Flat) ELSE Resumed(ckpt)
    BY <1>8 DEF Resume
  <2>2. resumes' \in 0 .. MaxResumes
    BY <1>1, <2>1, BoundsOfRunAssumption
  <2>3. eng'.first = eng'.next /\ eng'.equity = <<>> /\ eng'.next \in Nat
    BY <2>1, LedgerFacts DEF Fresh, Resumed
  <2>4. PICK n : n = eng'.next
    OBVIOUS
  <2>5. PICK p : p = <<>>
    OBVIOUS
  <2>6. Before(p, n) /\ n \in 0 .. n
    BY <2>3, <2>4, <2>5, EmptyBefore
  <2>7. QED BY <2>1, <2>2, <2>3, <2>4, <2>5, <2>6, RestNext
<1>9. QED BY <1>3, <1>4, <1>5, <1>6, <1>7, <1>8 DEF EngineNext

----------------------------------------------------------------------------
(* The first entry of the engine: its signal is that of the batch.         *)

\* On columns of their own the crossings are not touched by the filters, and the engine
\* and the batch have the same signal when they have the same previous values.
LEMMA SameSignal ==
  ASSUME Undisturbed, NEW d \in Seq(Bars), NEW n \in Nat, n < Len(d), NEW prev,
         DOMAIN prev = Columns,
         \A k \in Directional : prev[Column(k)] = PrevOf(d, n, Column(k)),
         ~d[n + 1].quarantined
  PROVE  EngineSignal(prev, d[n + 1]) = DirAt(d, n)
<1> DEFINE bar == d[n + 1]
           prevs == PrevsOf(d, n)
           E == {k \in Directional :
                   Crosses(strategy.conditions[k], Filtered(prev, bar)[Column(k)], bar.col[Column(k)])}
           B == {k \in Directional :
                   Crosses(strategy.conditions[k], prevs[k], bar.col[Column(k)])}
<1>1. \A k \in Directional : Column(k) \in Columns
  BY DEF Columns, Directional
<1>2. ASSUME NEW k \in Directional PROVE Filtered(prev, bar)[Column(k)] = prevs[k]
  <2>1. ~\E j \in Reached(bar) : Column(j) = Column(k)
    BY DEF Undisturbed, SeparateColumns, Reached
  <2>2. Filtered(prev, bar)[Column(k)] = prev[Column(k)]
    BY <1>1, <2>1 DEF Filtered
  <2>3. QED BY <2>2 DEF PrevsOf
<1>3. E = B
  <2>1. SUFFICES ASSUME NEW k \in Directional
                 PROVE  Crosses(strategy.conditions[k], Filtered(prev, bar)[Column(k)],
                                bar.col[Column(k)])
                        <=> Crosses(strategy.conditions[k], prevs[k], bar.col[Column(k)])
    OBVIOUS
  <2>2. QED BY <1>2
<1>4. bar \in Bars
  OBVIOUS
<1>5. bar.session \in strategy.sessions <=> (AllowedSessions = {} \/ bar.session \in AllowedSessions)
  BY <1>4 DEF Undisturbed, AllowedSessions
<1>6. EngineSignal(prev, bar) =
        IF FiltersPass(bar) /\ bar.session \in strategy.sessions THEN Fired(E) ELSE 0
  BY DEF EngineSignal
<1>7. BatchSignal(prevs, bar) =
        IF FiltersPass(bar) /\ (AllowedSessions = {} \/ bar.session \in AllowedSessions)
        THEN Fired(B) ELSE 0
  BY DEF BatchSignal
<1>8. DirAt(d, n) = BatchSignal(prevs, bar)
  BY DEF DirAt
<1> HIDE DEF E, B, bar, prevs
<1>9. QED BY <1>3, <1>5, <1>6, <1>7, <1>8 DEF bar

\* What a bar leaves as previous values.
LEMMA SamePrevious ==
  ASSUME NEW d \in Seq(Bars), NEW n \in Nat, n < Len(d), NEW prev, DOMAIN prev = Columns,
         ~d[n + 1].quarantined
  PROVE  \A k \in Directional : NextPrev(prev, d[n + 1])[Column(k)] = PrevOf(d, n + 1, Column(k))
<1>1. \A k \in Directional : Column(k) \in Columns
  BY DEF Columns, Directional
<1>2. \A k \in Directional : PrevOf(d, n + 1, Column(k)) = d[n + 1].col[Column(k)]
  BY PrevGoesOn
<1>3. \A k \in Directional : NextPrev(prev, d[n + 1])[Column(k)] = d[n + 1].col[Column(k)]
  BY <1>1 DEF NextPrev
<1>4. QED BY <1>2, <1>3

\* The columns stay.
LEMMA DomainStays ==
  ASSUME NEW prev, NEW bar
  PROVE  DOMAIN NextPrev(prev, bar) = DOMAIN prev
BY DEF NextPrev

\* The first entry of rigid bars stays while the specification does.
LEMMA EntryStays ==
  ASSUME strategy' = strategy, NEW d, NEW s, NEW e, NEW l
  PROVE  /\ EntryOn(d, s, e, l)' <=> EntryOn(d, s, e, l)
         /\ Columns' = Columns
         /\ resumes' = resumes => (Undisturbed' <=> Undisturbed)
<1>1. \A n, c : PrevOf(d, n, c)' = PrevOf(d, n, c)
  BY DEF PrevOf, OpenBars
<1>2. \A n : PrevsOf(d, n)' = PrevsOf(d, n)
  BY <1>1, SignalStays DEF PrevsOf
<1>3. \A n : DirAt(d, n)' = DirAt(d, n)
  BY <1>2, SignalStays DEF DirAt
<1>4. Dirs(d)' = Dirs(d)
  BY <1>3 DEF Dirs
<1>5. EntryOn(d, s, e, l)' <=> EntryOn(d, s, e, l)
  BY <1>1, <1>4, SignalStays DEF EntryOn, FirstIs, FirstEntryOf
<1>6. Columns' = Columns
  BY DEF Columns, Column
<1>7. SeparateColumns' <=> SeparateColumns
  BY SignalStays DEF SeparateColumns
<1>8. resumes' = resumes => (Undisturbed' <=> Undisturbed)
  BY <1>7, SignalStays DEF Undisturbed
<1>9. QED BY <1>5, <1>6, <1>8

\* What is shown of rigid books is the invariant after the step.
LEMMA FirstNext ==
  ASSUME strategy' = strategy, NEW d, NEW s, NEW e, NEW l,
         data' = d, seen' = s, eng' = e, ledger' = l, DOMAIN e.prev = Columns,
         resumes' = resumes, Undisturbed => EntryOn(d, s, e, l)
  PROVE  EngineFirst'
<1>1. Undisturbed' => EntryOn(d, s, e, l)'
  BY EntryStays
<1>2. Undisturbed' => EntryOn(data, seen, eng, ledger)'
  BY <1>1
<1>3. DOMAIN eng'.prev = Columns'
  BY EntryStays
<1>4. QED BY <1>2, <1>3 DEF EngineFirst

----------------------------------------------------------------------------
(* Every step of the engine keeps its first entry.                         *)

\* The trade a bar makes of the position, if it makes one.
Leaves(l, m, pos, n) ==
  \/ m = l
  \/ \E t \in Trades : pos # Flat /\ t.entry = pos.at /\ t.dir = pos.dir /\ m = Append(l, t)

\* It keeps the first entry.
LEMMA LeavesFacts ==
  ASSUME NEW l \in Seq(Trades), NEW m, NEW pos, NEW n, Leaves(l, m, pos, n), NEW q,
         FirstEntryOf(l, pos) # <<>>,
         m = l => q = pos \/ l # <<>> \/ (q # Flat /\ q.at = pos.at /\ q.dir = pos.dir)
  PROVE  FirstEntryOf(m, q) = FirstEntryOf(l, pos)
<1>1. CASE m = l
  <2>1. l # <<>> \/ pos # Flat
    BY EntryFacts
  <2>2. QED BY <1>1, <2>1, EntryFacts
<1>2. CASE m # l
  <2>1. PICK t \in Trades : pos # Flat /\ t.entry = pos.at /\ t.dir = pos.dir /\ m = Append(l, t)
    BY <1>2 DEF Leaves
  <2>2. QED BY <2>1, EntryBooked
<1>3. QED BY <1>1, <1>2

\* The engine evaluates a bar.
LEMMA EntryBar ==
  ASSUME EngineInv, EngineFirst, EngineBar, ~FillFails(eng, data[eng.next + 1], eng.next),
         Undisturbed, NEW d, d = data, NEW e, e = eng', NEW l, l = ledger', NEW r, r = seen'
  PROVE  EntryOn(d, r, e, l)
<1> DEFINE n == eng.next
           bar == d[n + 1]
           reason == ReasonOn(eng, bar)
           pos == eng.pos
           x == FirstEntryOf(ledger, pos)
           y == FirstEntryOf(l, e.pos)
           trade == Trade(pos, bar, n, reason, Current(bar, pos.dir) - Cost(bar))
<1>1. /\ n \in Nat /\ n < Len(d) /\ strategy \in Strategies /\ d \in Seq(Bars) /\ bar \in Bars
      /\ EngineTyped /\ ledger \in Seq(Trades) /\ Len(d) \in Nat
      /\ pos = Flat \/ pos \in Position
  BY LedgerFacts DEF EngineBar, EngineTyped
<1>2. /\ e = Evaluated(eng, bar, n)
      /\ l = IF reason = "none" THEN ledger ELSE Append(ledger, trade)
      /\ r = seen \cup {n}
  BY DEF EngineBar
<1>3. e.next = n + 1
  BY <1>1, <1>2, EvaluatedFacts
<1>4. /\ HeldAfter(bar) # Flat => e.pos = HeldAfter(bar) /\ e.prev = eng.prev
      /\ HeldAfter(bar) = Flat =>
           /\ e.pos = IF SideOn(bar) = 0 THEN Flat ELSE OpenedBy(bar, n, SideOn(bar))
           /\ SideOn(bar) # 0 => Costed(bar)
           /\ e.prev = IF MayEnter(bar, n) THEN NextPrev(eng.prev, bar) ELSE eng.prev
  BY <1>1, <1>2, EvaluatedIs
<1>5. EntryOn(d, seen, eng, ledger) /\ DOMAIN eng.prev = Columns
  BY DEF EngineFirst
<1>6. r = 0 .. e.next - 1
  <2>1. seen = 0 .. n - 1
    BY <1>5 DEF EntryOn
  <2>2. 0 .. n = (0 .. n - 1) \cup {n}
    BY <1>1
  <2>3. e.next - 1 = n
    BY <1>1, <1>3
  <2> HIDE DEF n
  <2>4. r = (0 .. n - 1) \cup {n}
    BY <1>2, <2>1
  <2>5. QED BY <2>2, <2>3, <2>4
<1>7. MayEnter(bar, n) <=> ~bar.quarantined
  BY DEF MayEnter, IsEmbargo, Undisturbed
<1>8. Dirs(d)[n] = DirAt(d, n)
  BY <1>1 DEF Dirs
<1>9. pos = Flat /\ ledger = <<>> => SideOn(bar) = DirAt(d, n)
  <2>1. SUFFICES ASSUME pos = Flat, ledger = <<>> PROVE SideOn(bar) = DirAt(d, n)
    OBVIOUS
  <2>2. CASE bar.quarantined
    BY <1>7, <2>2 DEF SideOn, DirAt
  <2>3. CASE ~bar.quarantined
    <3>1. \A k \in Directional : eng.prev[Column(k)] = PrevOf(d, n, Column(k))
      BY <1>5, <2>1 DEF EntryOn
    <3>2. EngineSignal(eng.prev, bar) = DirAt(d, n)
      BY <1>1, <1>5, <2>3, <3>1, SameSignal
    <3>3. QED BY <1>7, <2>3, <3>2 DEF SideOn
  <2>4. QED BY <2>2, <2>3
<1>10. Leaves(ledger, l, pos, n) /\ (reason = "none" <=> l = ledger)
  <2>1. CASE reason = "none"
    BY <1>2, <2>1 DEF Leaves
  <2>2. CASE reason # "none"
    <3>1. pos \in Position /\ Costed(bar)
      BY <1>1, <2>2 DEF ReasonOn, FillFails
    <3>2. reason \in {"StopLoss", "TakeProfit", "TrailingStop", "EndOfData"}
      BY <2>2, ReasonFacts
    <3> HIDE DEF reason
    <3>3. trade \in Trades /\ trade.entry = pos.at
      BY <1>1, <3>1, <3>2, TradeFacts
    <3>4. trade.dir = pos.dir
      BY DEF Trade
    <3> HIDE DEF trade
    <3>5. l = Append(ledger, trade) /\ l # ledger
      BY <1>1, <1>2, <2>2, <3>3
    <3>6. QED BY <2>2, <3>1, <3>3, <3>4, <3>5, PositionFacts DEF Leaves
  <2>3. QED BY <2>1, <2>2
<1> HIDE DEF reason, trade
<1>11. x = <<>> => y = IF Dirs(d)[n] = 0 THEN <<>> ELSE <<n, Dirs(d)[n]>>
  <2>1. SUFFICES ASSUME x = <<>>
                 PROVE  y = IF Dirs(d)[n] = 0 THEN <<>> ELSE <<n, Dirs(d)[n]>>
    OBVIOUS
  <2>2. ledger = <<>> /\ pos = Flat
    BY <2>1, EntryFacts
  <2>3. l = <<>> /\ HeldAfter(bar) = Flat
    BY <1>10, <2>2 DEF HeldAfter, Leaves
  <2>4. SideOn(bar) = Dirs(d)[n]
    BY <1>8, <1>9, <2>2
  <2>5. CASE SideOn(bar) = 0
    BY <1>4, <2>3, <2>4, <2>5, EntryFacts
  <2>6. CASE SideOn(bar) # 0
    <3> DEFINE o == OpenedBy(bar, n, SideOn(bar))
    <3>1. SideOn(bar) \in {1, -1}
      BY <2>6, SignalFacts DEF SideOn
    <3>2. o # Flat /\ o.at = n /\ o.dir = SideOn(bar) /\ e.pos = o
      BY <1>1, <1>4, <2>3, <2>6, <3>1, OpenedByFacts
    <3> HIDE DEF o
    <3>3. y = <<o.at, o.dir>>
      BY <2>3, <3>2, EntryFacts
    <3>4. QED BY <2>4, <2>6, <3>2, <3>3
  <2>7. QED BY <2>5, <2>6
<1>12. x # <<>> => y = x
  <2>1. SUFFICES ASSUME x # <<>> PROVE y = x
    OBVIOUS
  <2>2. ASSUME l = ledger, ledger = <<>>
        PROVE  e.pos # Flat /\ e.pos.at = pos.at /\ e.pos.dir = pos.dir
    <3>1. pos \in Position /\ pos # Flat
      BY <1>1, <2>1, <2>2, EntryFacts
    <3>2. HeldAfter(bar) = Trailed(pos, bar)
      BY <1>10, <2>2, <3>1 DEF HeldAfter, reason
    <3>3. /\ Trailed(pos, bar) # Flat /\ Trailed(pos, bar).at = pos.at
          /\ Trailed(pos, bar).dir = pos.dir
      BY <1>1, <3>1, TrailedFacts, PositionFacts
    <3>4. QED BY <1>4, <3>2, <3>3
  <2> HIDE DEF pos
  <2>3. QED BY <1>1, <1>10, <2>1, <2>2, LeavesFacts
<1>13. FirstIs(Dirs(d), n + 1, y)
  <2>1. FirstIs(Dirs(d), n, x)
    BY <1>5 DEF EntryOn
  <2> HIDE DEF n, x, y
  <2>2. QED BY <1>1, <1>11, <1>12, <2>1, FirstGoesOn
<1>14. ASSUME e.pos = Flat, l = <<>>, NEW k \in Directional
       PROVE  e.prev[Column(k)] = PrevOf(d, n + 1, Column(k))
  <2>1. ledger = <<>> /\ l = ledger
    BY <1>1, <1>10, <1>14 DEF Leaves
  <2>2. pos = Flat /\ HeldAfter(bar) = Flat
    <3>1. pos = Flat
      <4>1. SUFFICES ASSUME pos \in Position PROVE FALSE
        BY <1>1
      <4>2. HeldAfter(bar) = Trailed(pos, bar)
        BY <1>10, <2>1, <4>1, PositionFacts DEF HeldAfter, reason
      <4>3. Trailed(pos, bar) # Flat
        BY <1>1, <4>1, TrailedFacts, PositionFacts
      <4>4. QED BY <1>4, <1>14, <4>2, <4>3
    <3>2. QED BY <3>1 DEF HeldAfter
  <2>3. CASE bar.quarantined
    <3>1. eng.prev[Column(k)] = PrevOf(d, n, Column(k))
      BY <1>5, <2>1, <2>2 DEF EntryOn
    <3>2. PrevOf(d, n + 1, Column(k)) = PrevOf(d, n, Column(k))
      BY <1>1, <2>3, PrevGoesOn
    <3>3. QED BY <1>4, <1>7, <2>2, <2>3, <3>1, <3>2
  <2>4. CASE ~bar.quarantined
    <3>1. e.prev = NextPrev(eng.prev, bar)
      BY <1>4, <1>7, <2>2, <2>4
    <3>2. NextPrev(eng.prev, bar)[Column(k)] = PrevOf(d, n + 1, Column(k))
      BY <1>1, <1>5, <2>4, SamePrevious
    <3>3. QED BY <3>1, <3>2
  <2>5. QED BY <2>3, <2>4
<1>15. e.next <= Len(d)
  BY <1>1, <1>3
<1>16. QED BY <1>3, <1>6, <1>13, <1>14, <1>15 DEF EntryOn

\* A step that leaves bars, engine and trades alone.
LEMMA FirstUnmoved ==
  ASSUME EngineFirst, UNCHANGED <<strategy, data, eng, ledger, seen, resumes>>
  PROVE  EngineFirst'
<1>1. PICK d : d = data
  OBVIOUS
<1>2. PICK s : s = seen
  OBVIOUS
<1>3. PICK e : e = eng
  OBVIOUS
<1>4. PICK l : l = ledger
  OBVIOUS
<1>5. DOMAIN e.prev = Columns /\ (Undisturbed => EntryOn(d, s, e, l))
  BY <1>1, <1>2, <1>3, <1>4 DEF EngineFirst
<1>6. QED BY <1>1, <1>2, <1>3, <1>4, <1>5, FirstNext

\* The engine evaluates a bar.
LEMMA FirstBar ==
  ASSUME EngineInv, EngineFirst, EngineBar
  PROVE  EngineFirst'
<1> DEFINE n == eng.next
           bar == data[n + 1]
<1>1. /\ UNCHANGED <<strategy, data, resumes>> /\ bar \in Bars /\ EngineTyped
  BY LedgerFacts DEF EngineBar
<1>2. CASE FillFails(eng, bar, n)
  <2>1. UNCHANGED <<eng, ledger, seen>>
    BY <1>2 DEF EngineBar
  <2>2. QED BY <1>1, <2>1, FirstUnmoved
<1>3. CASE ~FillFails(eng, bar, n)
  <2>1. PICK d : d = data
    OBVIOUS
  <2>2. PICK s : s = seen'
    OBVIOUS
  <2>3. PICK e : e = eng'
    OBVIOUS
  <2>4. PICK l : l = ledger'
    OBVIOUS
  <2>5. Undisturbed => EntryOn(d, s, e, l)
    BY <1>3, <2>1, <2>2, <2>3, <2>4, EntryBar
  <2>6. DOMAIN e.prev = Columns
    <3>1. e = Evaluated(eng, bar, n)
      BY <1>3, <2>3 DEF EngineBar
    <3>2. e.prev = eng.prev \/ e.prev = NextPrev(eng.prev, bar)
      BY <1>1, <1>3, <3>1, EvaluatedIs
    <3>3. DOMAIN eng.prev = Columns
      BY DEF EngineFirst
    <3>4. QED BY <3>2, <3>3, DomainStays
  <2>7. QED BY <1>1, <2>1, <2>2, <2>3, <2>4, <2>5, <2>6, FirstNext
<1>4. QED BY <1>2, <1>3

\* A bar is read.
LEMMA FirstNewBar ==
  ASSUME EngineInv, EngineFirst, NEW bar \in Bars, NewBar(bar)
  PROVE  EngineFirst'
<1>1. UNCHANGED <<strategy, eng, ledger, seen, resumes>> /\ data' = Append(data, bar)
  BY DEF NewBar
<1>2. PICK c : c = data
  OBVIOUS
<1>3. PICK d : d = Append(data, bar)
  OBVIOUS
<1>4. PICK s : s = seen
  OBVIOUS
<1>5. PICK e : e = eng
  OBVIOUS
<1>6. PICK l : l = ledger
  OBVIOUS
<1>7. Grown(c, d) /\ Len(d) = Len(c) + 1 /\ Len(c) \in Nat /\ e.next \in Nat
  BY <1>2, <1>3, <1>5, GrowsBy, LedgerFacts
<1>8. DOMAIN e.prev = Columns /\ (Undisturbed => EntryOn(c, s, e, l))
  BY <1>2, <1>4, <1>5, <1>6 DEF EngineFirst
<1>9. Undisturbed => EntryOn(d, s, e, l)
  <2>1. SUFFICES ASSUME EntryOn(c, s, e, l) PROVE EntryOn(d, s, e, l)
    BY <1>8
  <2>2. e.next \in 0 .. Len(c) /\ e.next <= Len(d) /\ s = 0 .. e.next - 1
    BY <1>7, <2>1 DEF EntryOn
  <2>3. FirstIs(Dirs(d), e.next, FirstEntryOf(l, e.pos))
    BY <1>7, <2>1, <2>2, FirstGrows DEF EntryOn
  <2>4. \A x : PrevOf(d, e.next, x) = PrevOf(c, e.next, x)
    BY <1>7, <2>2, OpenBarsGrow
  <2>5. QED BY <2>1, <2>2, <2>3, <2>4 DEF EntryOn
<1>10. data' = d /\ seen' = s /\ eng' = e /\ ledger' = l
  BY <1>1, <1>3, <1>4, <1>5, <1>6
<1>11. QED BY <1>1, <1>8, <1>9, <1>10, FirstNext

\* The position that is closed at the end of the data was entered before.
LEMMA FirstEnd ==
  ASSUME EngineInv, EngineFirst, EndEngine
  PROVE  EngineFirst'
<1> DEFINE bar == Last(data)
           trade == Trade(eng.pos, bar, Length - 1, "EndOfData",
                          Current(bar, eng.pos.dir) - Cost(bar))
           x == Exited(eng, bar, Length - 1, "EndOfData")
<1>1. /\ UNCHANGED <<strategy, data, seen, resumes>> /\ Len(data) = Length
      /\ Length - 1 \in Nat /\ EngineTyped /\ data \in Seq(Bars) /\ ledger \in Seq(Trades)
  BY LedgerFacts, BoundsOfRunAssumption DEF EndEngine, EngineTyped
<1>2. CASE UNCHANGED <<eng, ledger>>
  BY <1>1, <1>2, FirstUnmoved
<1>3. CASE ~UNCHANGED <<eng, ledger>>
  <2>1. /\ eng.pos # Flat /\ eng' = Recorded(x, bar, Length - 1) /\ Costed(bar)
        /\ ledger' = Append(ledger, trade)
    BY <1>3 DEF EndEngine
  <2>2. DOMAIN x = EngineFields /\ x.pos = Flat /\ x.next = eng.next /\ x.prev = eng.prev
    BY <1>1 DEF Exited, EngineTyped, EngineFields
  <2> HIDE DEF x
  <2>3. eng'.pos = Flat /\ eng'.next = eng.next /\ eng'.prev = eng.prev
    BY <2>1, <2>2 DEF Recorded, EngineFields
  <2>4. trade \in Trades /\ trade.entry = eng.pos.at
    <3>1. bar \in Bars
      BY <1>1 DEF Last
    <3>2. eng.pos \in Position
      BY <2>1, LedgerFacts
    <3>3. QED BY <1>1, <2>1, <3>1, <3>2, TradeFacts
  <2>5. trade.dir = eng.pos.dir
    BY DEF Trade
  <2> HIDE DEF trade, bar
  <2>6. PICK d : d = data
    OBVIOUS
  <2>7. PICK s : s = seen
    OBVIOUS
  <2>8. PICK e : e = eng'
    OBVIOUS
  <2>9. PICK l : l = ledger'
    OBVIOUS
  <2>10. DOMAIN e.prev = Columns
    BY <2>3, <2>8 DEF EngineFirst
  <2>11. Undisturbed => EntryOn(d, s, e, l)
    <3>1. SUFFICES ASSUME EntryOn(d, s, eng, ledger) PROVE EntryOn(d, s, e, l)
      BY <2>6, <2>7 DEF EngineFirst
    <3>2. FirstEntryOf(l, e.pos) = FirstEntryOf(ledger, eng.pos)
      BY <1>1, <2>1, <2>4, <2>5, <2>9, EntryBooked
    <3>3. l # <<>>
      BY <1>1, <2>1, <2>9
    <3>4. QED BY <2>3, <2>8, <3>1, <3>2, <3>3 DEF EntryOn
  <2>12. QED BY <1>1, <2>6, <2>7, <2>8, <2>9, <2>10, <2>11, FirstNext
<1>4. QED BY <1>2, <1>3

\* A process after the first is not undisturbed.
LEMMA FirstResume ==
  ASSUME EngineRest, Resume
  PROVE  EngineFirst'
<1>1. /\ UNCHANGED strategy /\ resumes' = resumes + 1 /\ resumes \in Nat
      /\ eng' = IF ckpt = NoCheckpoint THEN Fresh(0, 0, 0, Flat) ELSE Resumed(ckpt)
  BY BoundsOfRunAssumption DEF Resume, EngineRest
<1>2. ~Undisturbed'
  BY <1>1 DEF Undisturbed
<1>3. DOMAIN eng'.prev = Columns
  BY <1>1 DEF Fresh, Resumed
<1>4. Columns' = Columns
  BY <1>1 DEF Columns, Column
<1>5. QED BY <1>2, <1>3, <1>4 DEF EngineFirst

\* Every step.
LEMMA FirstKeeps ==
  ASSUME EngineInv, EngineRest, EngineFirst, [EngineNext]_engine
  PROVE  EngineFirst'
<1>1. CASE UNCHANGED engine
  BY <1>1, FirstUnmoved DEF engine
<1>2. ASSUME NEW bar \in Bars, NewBar(bar) PROVE EngineFirst'
  BY <1>2, FirstNewBar
<1>3. CASE EndBatch \/ Cancel \/ Kill
  <2>1. UNCHANGED <<strategy, data, eng, ledger, seen, resumes>>
    BY <1>3 DEF EndBatch, Cancel, Kill
  <2>2. QED BY <2>1, FirstUnmoved
<1>4. QED BY <1>1, <1>2, <1>3, FirstBar, FirstEnd, FirstResume DEF EngineNext

\* There is no first entry at first.
LEMMA FirstInit == ASSUME EngineInit PROVE EngineFirst
<1>1. /\ data = <<>> /\ seen = {} /\ ledger = <<>> /\ eng.pos = Flat /\ eng.next = 0
      /\ eng.prev = [c \in Columns |-> NoValue]
  BY DEF EngineInit, Fresh
<1>2. 0 .. 0 - 1 = {} /\ Len(data) = 0
  BY <1>1
<1>3. FirstEntryOf(ledger, eng.pos) = <<>>
  BY <1>1, EntryFacts
<1>4. \A k \in Directional : eng.prev[Column(k)] = PrevOf(data, eng.next, Column(k))
  <2>1. \A k \in Directional : Column(k) \in Columns
    BY DEF Columns, Directional
  <2>2. OpenBars(data, 0) = {}
    BY <1>2 DEF OpenBars
  <2>3. QED BY <1>1, <2>1, <2>2 DEF PrevOf
<1>5. EntryOn(data, seen, eng, ledger)
  BY <1>1, <1>2, <1>3, <1>4 DEF EntryOn, FirstIs
<1>6. QED BY <1>1, <1>5 DEF EngineFirst

----------------------------------------------------------------------------
(* What the invariant means.                                               *)

\* Everything is of its type.
LEMMA AgreeTyped ==
  ASSUME EngineInv, AgreeInv
  PROVE  EngineTypeOK
<1>1. /\ EngineTyped /\ Length \in Nat \ {0} /\ BatchInv /\ EngineExits /\ EngineRest
  BY BoundsOfRunAssumption DEF EngineInv, AgreeInv
<1>2. eng.count \in Nat
  BY <1>1 DEF EngineInv, EngineBooks, EngineTyped
<1>3. ASSUME NEW pos \in Position, pos.at < Length PROVE IsPosition(pos)
  <2>1. pos.at \in 0 .. Length - 1
    BY <1>1, <1>3, PositionFacts
  <2>2. QED BY <2>1, PositionFacts DEF IsPosition
<1>4. eng.pos = Flat \/ IsPosition(eng.pos)
  <2>1. SUFFICES ASSUME eng.pos # Flat PROVE IsPosition(eng.pos)
    OBVIOUS
  <2>2. eng.pos \in Position /\ eng.pos.at < eng.next /\ eng.next \in 0 .. Length
    BY <1>1, <2>1 DEF EngineInv, EngineBooks, BooksOf, EngineTyped, Positions
  <2>3. eng.pos.at < Length
    BY <1>1, <2>2, PositionFacts
  <2>4. QED BY <1>3, <2>2, <2>3
<1>5. \/ ckpt = NoCheckpoint
      \/ ckpt.last \in 0 .. Length - 1 /\ (ckpt.pos = Flat \/ IsPosition(ckpt.pos))
  <2>1. SUFFICES ASSUME ckpt # NoCheckpoint
                 PROVE  ckpt.last \in 0 .. Length - 1 /\ (ckpt.pos = Flat \/ IsPosition(ckpt.pos))
    OBVIOUS
  <2>2. /\ ckpt.last \in 0 .. Length - 1 /\ ckpt.pos \in Positions
        /\ ckpt.pos # Flat => ckpt.pos.at < ckpt.last + 1
    BY <2>1 DEF EngineInv, CheckpointBooks, BooksOf
  <2>3. ckpt.pos # Flat => ckpt.pos \in Position /\ ckpt.pos.at < Length
    BY <1>1, <2>2, PositionFacts DEF Positions
  <2>4. QED BY <1>3, <2>2, <2>3
<1>6. seen \subseteq 0 .. Length - 1
  <2>1. seen \subseteq 0 .. Len(data) - 1 /\ Len(data) <= Length /\ Len(data) \in Nat
    BY <1>1, LedgerFacts DEF EngineExits
  <2>2. 0 .. Len(data) - 1 \subseteq 0 .. Length - 1
    BY <1>1, <2>1
  <2>3. QED BY <2>1, <2>2
<1>7. ASSUME NEW i \in Ids PROVE bat.pos[i] = Flat \/ IsPosition(bat.pos[i])
  <2>1. SUFFICES ASSUME bat.pos[i] # Flat PROVE IsPosition(bat.pos[i])
    OBVIOUS
  <2>2. bat.pos[i] \in Position
    BY <1>1, <2>1 DEF BatchInv, IsBatch, Positions
  <2>3. bat.pos[i].at < Len(data) /\ Len(data) <= Length /\ Len(data) \in Nat
    BY <1>1, <2>1, LedgerFacts DEF BatchInv, BatchExits
  <2>4. bat.pos[i].at < Length
    BY <1>1, <2>2, <2>3, PositionFacts
  <2>5. QED BY <1>3, <2>2, <2>4
<1>8. /\ strategy \in Strategies /\ data \in Seq(Bars) /\ Len(data) <= Length
      /\ status \in {"running", "down", "failed", "done"} /\ resumes \in 0 .. MaxResumes
      /\ eng.next \in 0 .. Length /\ eng.first \in 0 .. eng.next /\ eng.closed \in Int
  BY <1>1 DEF EngineTyped, EngineRest
<1>9. QED BY <1>2, <1>4, <1>5, <1>6, <1>7, <1>8 DEF EngineTypeOK

\* Every candidate is in one list.
LEMMA AgreeActive == ASSUME BatchInv PROVE ActiveOrIdle
<1> DEFINE s == bat.active \o bat.idle
<1>1. Parted(bat.active, bat.idle) /\ Range(bat.active) = {i \in Ids : bat.pos[i] # Flat}
  BY DEF BatchInv, Lists
<1>2. s \in Seq(Ids) /\ Once(s) /\ Range(s) = Range(bat.active) \cup Range(bat.idle)
  BY <1>1, JoinedFacts DEF Parted
<1>3. IsInjective(s) /\ Range(s) = Ids
  BY <1>1, <1>2 DEF IsInjective, Once, Parted
<1>4. QED BY <1>1, <1>3 DEF ActiveOrIdle

\* The two one-pass drawdowns are the deepest.
LEMMA AgreeDrawdown == ASSUME AgreeInv PROVE DrawdownIsDeepest
<1>1. \A i \in Ids : IsDeepest(bat.books[i].maxdd, Cumulated(bat.books[i].trades))
  BY DEF AgreeInv, BatchInv, BookRight
<1>2. eng.equity # <<>> => Deepest(eng.equity, Drawdown(eng.equity))
  <2>1. Rising(eng.equity)
    BY DEF AgreeInv, EngineRest
  <2>2. QED BY <2>1, DrawdownDeepest
<1>3. QED BY <1>1, <1>2 DEF DrawdownIsDeepest, Deepest

\* What both opened alike has one exit.
LEMMA AgreeExits ==
  ASSUME EngineInv, AgreeInv
  PROVE  SameExits
<1>1. SUFFICES ASSUME Comparable, NEW i \in SpecCandidates,
                      NEW t \in Range(ledger), NEW u \in Range(bat.books[i].trades),
                      t.entry = u.entry, t.dir = u.dir, t.entry + 1 .. t.exit \subseteq seen
               PROVE  t.exit = u.exit /\ t.reason = u.reason
  BY DEF SameExits
<1>2. /\ i \in Ids /\ strategy \in Strategies /\ data \in Seq(Bars) /\ Len(data) <= Length
      /\ Len(data) \in Nat /\ t \in Trades
  BY <1>1, LedgerFacts DEF SpecCandidates
<1>3. u \in Trades
  <2>1. bat.books[i].trades \in Seq(Trades)
    BY <1>2 DEF AgreeInv, BatchInv, IsBatch, Books
  <2>2. QED BY <1>1, <2>1 DEF Range
<1>4. /\ t.entry < Len(data) /\ t.exit < Len(data) /\ Costed(data[t.entry + 1])
      /\ TradeRight(data, OpenedBy(data[t.entry + 1], t.entry, t.dir), t)
  BY <1>1 DEF AgreeInv, EngineExits, Witnessed
<1>5. /\ u.exit < Len(data)
      /\ TradeRight(data, BatchOpened(i, data[u.entry + 1], u.entry, u.dir), u)
  BY <1>1, <1>2 DEF AgreeInv, BatchInv, BatchExits
<1>6. /\ t.entry \in Nat /\ t.exit \in Nat /\ u.exit \in Nat /\ t.dir \in {1, -1}
  BY <1>2, <1>3 DEF Trades
<1>7. data[t.entry + 1] \in Bars
  BY <1>2, <1>4, <1>6
<1> DEFINE o == OpenedBy(data[t.entry + 1], t.entry, t.dir)
<1>8. BatchOpened(i, data[u.entry + 1], u.entry, u.dir) = o
  BY <1>1, <1>2, <1>4, <1>7, SameOpening
<1>9. o \in Position
  BY <1>2, <1>4, <1>6, <1>7, OpenedByFacts
<1>10. TradeRight(data, o, t) /\ TradeRight(data, o, u)
  BY <1>4, <1>5, <1>8
<1> HIDE DEF o
<1>11. QED BY <1>2, <1>4, <1>5, <1>6, <1>9, <1>10, OneExit

\* What both saw the bars of has one first entry.
LEMMA AgreeFirst ==
  ASSUME EngineInv, AgreeInv
  PROVE  FirstEntryAgrees
<1>1. SUFFICES ASSUME SeparateColumns, AllowedSessions # {}, strategy.folds = {},
                      seen = 0 .. Len(data) - 1, resumes = 0, NEW i \in Ids
               PROVE  FirstEntryOf(bat.books[i].trades, bat.pos[i]) = FirstEntryOf(ledger, eng.pos)
  BY DEF FirstEntryAgrees
<1>2. EntryOn(data, seen, eng, ledger)
  BY <1>1 DEF AgreeInv, EngineFirst, Undisturbed
<1>3. eng.next \in Nat /\ Len(data) \in Nat /\ eng.next <= Len(data) /\ seen = 0 .. eng.next - 1
  BY <1>2, LedgerFacts DEF EntryOn
<1>4. eng.next = Len(data)
  <2>1. SUFFICES ASSUME eng.next < Len(data) PROVE FALSE
    BY <1>3
  <2>2. eng.next \in 0 .. Len(data) - 1 /\ eng.next \notin 0 .. eng.next - 1
    BY <1>3, <2>1
  <2>3. QED BY <1>1, <1>3, <2>2
<1>5. FirstIs(Dirs(data), Len(data), FirstEntryOf(ledger, eng.pos))
  BY <1>2, <1>4 DEF EntryOn
<1>6. FirstIs(Dirs(data), Len(data), FirstEntryOf(bat.books[i].trades, bat.pos[i]))
  BY DEF AgreeInv, BatchInv, BatchFirst
<1>7. QED BY <1>3, <1>5, <1>6, OneFirst

\* Every step keeps the invariant.
LEMMA AgreeKeeps ==
  ASSUME EngineInv, AgreeInv, [EngineNext]_engine
  PROVE  AgreeInv'
<1>1. BatchInv /\ EngineExits /\ EngineFirst /\ EngineRest /\ EngineTyped
  BY DEF AgreeInv, EngineInv
<1>2. BatchInv' /\ EngineExits' /\ EngineFirst' /\ EngineRest'
  BY <1>1, BatchKeeps, ExitsKeeps, FirstKeeps, RestKeeps
<1>3. QED BY <1>2 DEF AgreeInv

(* The two evaluators agree: a candidate with the parameters of the        *)
(* specification that both open on one bar is closed by both on the same   *)
(* bar for the same reason (position.rs and batch_eval.rs), both open on   *)
(* the same first bar, every candidate of the batch is active or idle in   *)
(* one place, and the drawdowns of batch_eval.rs and metrics.rs are the    *)
(* deepest; for any bars, specifications, candidates and resumptions.      *)
THEOREM EnginesAlike == EngineSpec => []EnginesAgree
<1>1. EngineInit => AgreeInv
  BY BatchInit0, ExitsInit, FirstInit, RestInit DEF AgreeInv
<1>2. EngineInv /\ AgreeInv /\ [EngineNext]_engine => AgreeInv'
  BY AgreeKeeps
<1>3. EngineInv /\ AgreeInv => EnginesAgree
  <2>1. AgreeInv => BatchInv
    BY DEF AgreeInv
  <2>2. QED BY <2>1, AgreeTyped, AgreeActive, AgreeDrawdown, AgreeExits, AgreeFirst DEF EnginesAgree
<1>4. EngineSpec => []AgreeInv
  BY <1>1, <1>2, EngineInvHolds, PTL DEF EngineSpec
<1>5. QED BY <1>3, <1>4, EngineInvHolds, PTL
=============================================================================
