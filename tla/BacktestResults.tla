---------------------------- MODULE BacktestResults ----------------------------
(***************************************************************************)
(* What the two stages of a backtest leave behind for one strategy: the    *)
(* process that BacktestExecutor runs through BatchRunner                  *)
(* (crates/backtester/src/bin/forex_backtester.rs), its output directory,  *)
(* and the version directory, database and manifest that ResultExecutor    *)
(* makes of it through ResultProcessor.                                    *)
(*                                                                         *)
(* One invocation runs at a time.  It may be killed between any two of its *)
(* writes; the process it was waiting for goes on.  The error in the state *)
(* file is the one of StageRunner: a data/logic error has the next         *)
(* invocation start over, any other stays and holds later successes back.  *)
(***************************************************************************)
EXTENDS Integers, FiniteSets

CONSTANTS
  MaxVersions,  \* bound on version directories
  MaxJobs,      \* bound on processes spawned
  MaxTrades,    \* bound on the trades of a backtest
  MaxFailures   \* bound on failures, timeouts and failures of the environment

ASSUME BoundsAssumption == {MaxVersions, MaxJobs, MaxTrades, MaxFailures} \subseteq Nat

VARIABLES
  stage,      \* state file: the stage the strategy is in
  done,       \* state file: the version whose results backtest-running completed, 0 if none
  error,      \* state file: the category of the unresolved error, or "none"
  pc,         \* step of the invocation, "down" when there is none
  runId,      \* run_id of the latest invocation
  out,        \* output_directory, or rust_output_dir: a version
  target,     \* the version that is being made of it
  job,        \* the process of this invocation, 0 for None
  jobs,       \* the processes spawned
  dir,        \* version directories
  runs,       \* table backtest_runs: the status of each run
  trades,     \* table trades: the row under each trade_id
  failures    \* kills, timeouts and failures so far

state == <<stage, done, error>>
call == <<pc, runId, out, target, job>>
store == <<dir, runs, trades>>
vars == <<state, call, jobs, store, failures>>

Versions == 1 .. MaxVersions
Jobs == 1 .. MaxJobs
Runs == 1 .. MaxJobs + MaxFailures + 1
Files == {"trade-log", "equity-curve", "metrics"}
Marks == {"arrow_published", "schema_validated", "sqlite_ingested", "parquet_archived"}

NoRow == [run |-> 0, job |-> 0]
NoDir == [made |-> FALSE, arrow |-> [f \in Files |-> 0], parquet |-> 0,
          marks |-> {}, run |-> 0, manifest |-> 0]

----------------------------------------------------------------------------

Existing == {v \in Versions : dir[v].made}
Latest == Cardinality(Existing)   \* directories are numbered without gaps

Published(v) == {f \in Files : dir[v].arrow[f] # 0}

\* should_create_new_version compares the hashes with those of "the latest manifest":
\* that of the latest version, or the latest there is.  The hashes are the same in
\* every run here: the context has only that of the configuration.
Reusable == {(Latest # 0 /\ dir[Latest].manifest # 0), (\E v \in Existing : dir[v].manifest # 0)}

\* handle_error with the error of an executor that is neither out of memory nor failed
\* from outside.
Fail == error' = "data_logic" /\ pc' = "down"

\* An error that run_backtest does not discard.
Lasting == {"resource_pressure", "external_failure"}

\* A failure of the environment, counted against the bound.
Failure == failures < MaxFailures /\ failures' = failures + 1

\* The bounds leave room for a backtest that fails as often as it still may, after n
\* invocations that come to nothing.
Spare == {j \in Jobs : jobs[j].os = "none"}
Room(n) ==
  LET more == MaxFailures - failures
  IN  /\ runId + more + n + 1 \in Runs
      /\ Cardinality(Spare) > more + n
      /\ Latest + 3 * more + n + 2 <= MaxVersions

----------------------------------------------------------------------------

Init ==
  /\ stage = "backtest-running" /\ done = 0 /\ error = "none"
  /\ pc = "down" /\ runId = 0 /\ out = 0 /\ target = 0 /\ job = 0
  /\ jobs = [j \in Jobs |-> [os |-> "none", out |-> 0, trades |-> 0]]
  /\ dir = [v \in Versions |-> NoDir]
  /\ runs = [r \in Runs |-> "none"]
  /\ trades = [t \in 1 .. MaxTrades |-> NoRow]
  /\ failures = 0

\* Mutant: the state file of a run that failed for good is kept.
InvokeResumes ==
  /\ pc = "down"
  /\ stage # "review-pending"
  /\ runId + 1 \in Runs
  /\ error # "none" => Room(1)
  /\ runId' = runId + 1
  /\ pc' = stage
  /\ out' = 0 /\ target' = 0 /\ job' = 0
  /\ UNCHANGED <<state, jobs, store, failures>>

\* run_backtest: the state file of a run that failed for good is unlinked, and every
\* run and every resumption gets a new run_id.
Invoke ==
  /\ pc = "down"
  /\ stage # "review-pending"
  /\ runId + 1 \in Runs
  /\ error \in Lasting => Room(1)
  /\ runId' = runId + 1
  /\ IF error = "data_logic"
     THEN stage' = "backtest-running" /\ done' = 0 /\ error' = "none"
     ELSE UNCHANGED state
  /\ pc' = stage'
  /\ out' = 0 /\ target' = 0 /\ job' = 0
  /\ UNCHANGED <<jobs, store, failures>>

\* Mutant: the output goes to the latest directory there is.
BeginBacktestInLatest ==
  /\ pc = "backtest-running"
  /\ Latest < MaxVersions
  /\ out' = IF Latest = 0 THEN 1 ELSE Latest
  /\ dir' = [dir EXCEPT ![out'].made = TRUE]
  /\ pc' = "dispatch"
  /\ UNCHANGED <<state, runId, target, job, jobs, runs, trades, failures>>

\* _build_executor_context, then _precompute_signals, which makes the directory, and
\* may fail.
BeginBacktest ==
  /\ pc = "backtest-running"
  /\ Latest < MaxVersions
  /\ out' = Latest + 1
  /\ dir' = [dir EXCEPT ![out'].made = TRUE]
  /\ \/ pc' = "dispatch" /\ UNCHANGED <<error, failures>>
     \/ Fail /\ Failure
  /\ UNCHANGED <<stage, done, runId, target, job, jobs, runs, trades>>

\* dispatch: an input or memory is missing or the process cannot be started, or there
\* is a process, which will find some number of trades.
Dispatch ==
  /\ pc = "dispatch"
  /\ \/ Fail /\ Failure /\ UNCHANGED <<job, jobs>>
     \/ \E j \in Jobs, n \in 0 .. MaxTrades :
          /\ \A k \in Jobs : (jobs[k].os = "none") = (k >= j)
          /\ jobs' = [jobs EXCEPT ![j] = [os |-> "running", out |-> out, trades |-> n]]
          /\ job' = j
          /\ pc' = "communicate"
          /\ UNCHANGED <<error, failures>>
  /\ UNCHANGED <<stage, done, runId, out, target, store>>

----------------------------------------------------------------------------
(* The process: the bars, then write_results, file by file.                *)

Missing(j) == {f \in Files : dir[jobs[j].out].arrow[f] # j}

\* Each file is written aside and renamed, in this order.
NextFile(j) ==
  CASE "trade-log" \in Missing(j)    -> "trade-log"
    [] "equity-curve" \in Missing(j) -> "equity-curve"
    [] OTHER                         -> "metrics"

WriteResult(j) ==
  /\ \/ jobs[j].os = "running"
     \/ /\ jobs[j].os = "signalled"
        /\ Missing(j) # Files   \* past the bars: not cancelled
  /\ Missing(j) # {}
  /\ dir' = [dir EXCEPT ![jobs[j].out].arrow[NextFile(j)] = j]
  /\ UNCHANGED <<state, call, jobs, runs, trades, failures>>

\* How a process fails: out of memory before it writes; in its data or logic, or from
\* outside (Io, a signal of another), also when it has written all.
Failing(j) ==
  {"data_logic", "external_failure"} \cup IF Missing(j) = Files THEN {"resource_pressure"} ELSE {}

\* The process ends: with status 0 after its last write, or with an error of its own.
\* What it says on the signal or by SIGKILL is lost: its stderr reads "timeout", which
\* no category is parsed from.
Exit(j) ==
  /\ \E os \in {"succeeded", "resource_pressure", "external_failure", "data_logic"} :
       /\ jobs' = [jobs EXCEPT ![j].os = os]
       /\ \/ /\ jobs[j].os \in {"running", "signalled"}
             /\ Missing(j) = {} /\ os = "succeeded"
             /\ UNCHANGED failures
          \/ jobs[j].os = "running" /\ os \in Failing(j) /\ Failure
          \/ jobs[j].os \in {"signalled", "killed"} /\ os = "data_logic" /\ UNCHANGED failures
  /\ UNCHANGED <<state, call, store>>

\* communicate timed out: SIGTERM, and SIGKILL five seconds later.
Timeout(j) ==
  /\ pc \in {"communicate", "terminate"} /\ job = j
  /\ \/ /\ pc = "communicate" /\ jobs[j].os = "running"
        /\ jobs' = [jobs EXCEPT ![j].os = "signalled"]
        /\ Failure
     \/ /\ pc = "terminate" /\ jobs[j].os = "signalled"
        /\ jobs' = [jobs EXCEPT ![j].os = "killed"]
        /\ UNCHANGED failures
  /\ pc' = "terminate"
  /\ UNCHANGED <<state, runId, out, target, job, store>>

----------------------------------------------------------------------------

\* A process that was killed and not reaped has no returncode yet, which passes for 0.
Over == IF pc = "terminate" THEN {"succeeded", "killed"} ELSE {"succeeded"}

\* The result of dispatch is a success; then verify_output, and the stage is completed:
\* unless an error of an earlier invocation is still in the state.  It ends this one with
\* nothing saved.
Verify ==
  /\ pc \in {"communicate", "terminate"}
  /\ jobs[job].os \in Over
  /\ \/ /\ Published(out) # Files
        /\ Fail
        /\ UNCHANGED <<stage, done>>
     \/ /\ Published(out) = Files /\ error = "none"
        /\ stage' = "backtest-complete"
        /\ done' = out
        /\ pc' = "backtest-complete"
        /\ UNCHANGED error
     \/ /\ Published(out) = Files /\ error # "none"
        /\ pc' = "down"
        /\ UNCHANGED state
  /\ UNCHANGED <<runId, out, target, job, jobs, store, failures>>

\* The result of dispatch is an error: handle_error saves it.
ProcessFailed ==
  /\ pc \in {"communicate", "terminate"}
  /\ jobs[job].os \in {"resource_pressure", "external_failure", "data_logic"}
  /\ error' = jobs[job].os
  /\ pc' = IF error' = "resource_pressure" THEN "throttled" ELSE "down"
  /\ UNCHANGED <<stage, done, runId, out, target, job, jobs, store, failures>>

\* Resource pressure is cleared from the state, and the failed entry saved without it.
Throttle ==
  /\ pc = "throttled"
  /\ error' = "none"
  /\ pc' = "down"
  /\ UNCHANGED <<stage, done, runId, out, target, job, jobs, store, failures>>

----------------------------------------------------------------------------
(* ResultProcessor.process_backtest_results.                               *)

\* The context is built anew: rust_output_dir is the latest version there is. Then the
\* version to make is determined, and its directory made.
BeginProcessing ==
  /\ pc = "backtest-complete"
  /\ out' = Latest
  /\ \E reuse \in Reusable :
       /\ reuse \/ Latest < MaxVersions
       /\ target' = IF reuse THEN Latest ELSE Latest + 1
  /\ dir' = [dir EXCEPT ![target'].made = TRUE]
  /\ pc' = "publish"
  /\ UNCHANGED <<state, runId, job, jobs, runs, trades, failures>>

Marked(mark) == mark \in dir[target].marks

\* A step that the checkpoint of the version has, is skipped.
Skip(step, mark, next) ==
  /\ pc = step
  /\ Marked(mark)
  /\ pc' = next
  /\ UNCHANGED <<state, runId, out, target, job, jobs, store, failures>>

\* _publish_arrow_files: the files that are not there are copied, in this order; one
\* that rust_output_dir lacks is an error.  Then the checkpoint is saved.
Publish ==
  /\ pc = "publish" /\ ~Marked("arrow_published")
  /\ LET file == CASE "trade-log" \notin Published(target)    -> "trade-log"
                   [] "equity-curve" \notin Published(target) -> "equity-curve"
                   [] OTHER                                   -> "metrics"
     IN  \/ /\ Published(target) # Files
            /\ IF dir[out].arrow[file] = 0
               THEN Fail /\ UNCHANGED dir
               ELSE /\ dir' = [dir EXCEPT ![target].arrow[file] = dir[out].arrow[file]]
                    /\ UNCHANGED <<error, pc>>
         \/ /\ Published(target) = Files
            /\ dir' = [dir EXCEPT ![target].marks = @ \cup {"arrow_published"}]
            /\ pc' = "validate"
            /\ UNCHANGED error
  /\ UNCHANGED <<stage, done, runId, out, target, job, jobs, runs, trades, failures>>

\* The schemas are those of the contract: this program wrote the files.
Validate ==
  /\ pc = "validate" /\ ~Marked("schema_validated")
  /\ dir' = [dir EXCEPT ![target].marks = @ \cup {"schema_validated"}]
  /\ pc' = "ingest"
  /\ UNCHANGED <<state, runId, out, target, job, jobs, runs, trades, failures>>

\* register_backtest_run: a commit of its own.
Register ==
  /\ pc = "ingest" /\ ~Marked("sqlite_ingested")
  /\ runs[runId] # "running"
  /\ runs' = [runs EXCEPT ![runId] = "running"]
  /\ UNCHANGED <<state, call, jobs, dir, trades, failures>>

TradesOf(j) == 1 .. jobs[j].trades

\* clear_run_data and ingest_trade_log: the trade_id of a backtest is the key of its
\* row, whatever run the row there belongs to.
Ingest ==
  /\ pc = "ingest" /\ ~Marked("sqlite_ingested")
  /\ runs[runId] = "running"
  /\ LET j == dir[target].arrow["trade-log"]
     IN  trades' = [t \in DOMAIN trades |->
           IF t \in TradesOf(j) THEN [run |-> runId, job |-> j]
           ELSE IF trades[t].run = runId THEN NoRow ELSE trades[t]]
  /\ pc' = "ingested"
  /\ UNCHANGED <<state, runId, out, target, job, jobs, dir, runs, failures>>

\* The checkpoint keeps the run that was ingested.
SaveIngested ==
  /\ pc = "ingested"
  /\ dir' = [dir EXCEPT ![target].marks = @ \cup {"sqlite_ingested"}, ![target].run = runId]
  /\ pc' = "archive"
  /\ UNCHANGED <<state, runId, out, target, job, jobs, runs, trades, failures>>

\* ParquetArchiver keeps a copy that is there.
Archive ==
  /\ pc = "archive" /\ ~Marked("parquet_archived")
  /\ dir' = [dir EXCEPT ![target].marks = @ \cup {"parquet_archived"},
                        ![target].parquet = IF @ = 0 THEN dir[target].arrow["trade-log"] ELSE @]
  /\ pc' = "check"
  /\ UNCHANGED <<state, runId, out, target, job, jobs, runs, trades, failures>>

RowsOf(r) == {t \in DOMAIN trades : trades[t].run = r}

\* _validate_consistency: the rows of the run that was ingested are the trades of the
\* log and of its copy.  A log without trades is an error: its first trade is looked at.
\* Then complete_backtest_run.
CheckAndComplete ==
  /\ pc = "check"
  /\ LET j == dir[target].arrow["trade-log"]
     IN  IF /\ RowsOf(dir[target].run) = TradesOf(j)
            /\ \A t \in TradesOf(j) : trades[t].job = j
            /\ dir[target].parquet = j
            /\ TradesOf(j) # {}
         THEN /\ runs' = [runs EXCEPT ![dir[target].run] = "completed"]
              /\ pc' = "manifest"
              /\ UNCHANGED error
         ELSE Fail /\ UNCHANGED runs
  /\ UNCHANGED <<stage, done, runId, out, target, job, jobs, dir, trades, failures>>

\* The manifest names the run of this invocation.
WriteManifest ==
  /\ pc = "manifest"
  /\ dir' = [dir EXCEPT ![target].manifest = runId]
  /\ pc' = "finish"
  /\ UNCHANGED <<state, runId, out, target, job, jobs, runs, trades, failures>>

Finish ==
  /\ pc = "finish"
  /\ stage' = "review-pending"
  /\ pc' = "down"
  /\ UNCHANGED <<done, error, runId, out, target, job, jobs, store, failures>>

\* The operator has the strategy refined: the next cycle backtests it again.
Refine ==
  /\ pc = "down" /\ stage = "review-pending"
  /\ Room(0)
  /\ stage' = "backtest-running"
  /\ UNCHANGED <<done, error, call, jobs, store, failures>>

Killed ==
  /\ pc # "down"
  /\ Failure
  /\ pc' = "down" /\ out' = 0 /\ target' = 0 /\ job' = 0
  /\ UNCHANGED <<state, runId, jobs, store>>

----------------------------------------------------------------------------

Step ==
  \/ BeginBacktest \/ Dispatch \/ Verify \/ ProcessFailed \/ Throttle
  \/ BeginProcessing
  \/ Skip("publish", "arrow_published", "validate") \/ Publish
  \/ Skip("validate", "schema_validated", "ingest") \/ Validate
  \/ Skip("ingest", "sqlite_ingested", "archive") \/ Register \/ Ingest \/ SaveIngested
  \/ Skip("archive", "parquet_archived", "check") \/ Archive
  \/ CheckAndComplete \/ WriteManifest \/ Finish

Next ==
  \/ Invoke \/ Step \/ Refine \/ Killed
  \/ \E j \in Jobs : WriteResult(j) \/ Exit(j) \/ Timeout(j)

Spec == Init /\ [][Next]_vars

\* Processes and invocations get on, a wait ends, and an operator who has not got a
\* strategy to the review invokes again.
FairSpec ==
  /\ Spec
  /\ WF_vars(Step) /\ WF_vars(Invoke)
  /\ \A j \in Jobs : WF_vars(WriteResult(j)) /\ WF_vars(Exit(j))

----------------------------------------------------------------------------
(* Properties.                                                             *)

TypeOK ==
  /\ stage \in {"backtest-running", "backtest-complete", "review-pending"}
  /\ done \in 0 .. MaxVersions
  /\ error \in {"none", "resource_pressure", "external_failure", "data_logic"}
  /\ pc \in {"down", "backtest-running", "dispatch", "communicate", "terminate",
             "throttled", "backtest-complete", "publish", "validate", "ingest", "ingested", "archive",
             "check", "manifest", "finish"}
  /\ runId \in {0} \cup Runs /\ out \in 0 .. MaxVersions /\ target \in 0 .. MaxVersions
  /\ job \in 0 .. MaxJobs
  /\ jobs \in [Jobs -> [os : {"none", "running", "signalled", "killed", "succeeded",
                              "resource_pressure", "external_failure", "data_logic"},
                        out : 0 .. MaxVersions, trades : 0 .. MaxTrades]]
  /\ dir \in [Versions -> [made : BOOLEAN, arrow : [Files -> 0 .. MaxJobs],
                           parquet : 0 .. MaxJobs, marks : SUBSET Marks,
                           run : {0} \cup Runs, manifest : {0} \cup Runs]]
  /\ runs \in [Runs -> {"none", "running", "completed"}]
  /\ trades \in [1 .. MaxTrades -> [run : {0} \cup Runs, job : 0 .. MaxJobs]]
  /\ failures \in 0 .. MaxFailures
  /\ error = "data_logic" => pc = "down"
  /\ pc = "throttled" => error = "resource_pressure"
  /\ error \in Lasting => stage = "backtest-running"
  /\ pc \in {"backtest-running", "dispatch", "communicate", "terminate"} => stage = "backtest-running"
  /\ pc \in {"communicate", "terminate"} => job \in Jobs /\ jobs[job].out = out
  /\ pc \in {"backtest-complete", "publish", "validate", "ingest", "ingested", "archive",
             "check", "manifest", "finish"} => stage = "backtest-complete" /\ done # 0

Manifested == {v \in Versions : dir[v].manifest # 0}

\* A version with a manifest is whole: its three files and their archived copy are of
\* one backtest, never of an interrupted one or of two.
ManifestedIsWhole ==
  \A v \in Manifested : \E j \in Jobs :
    /\ \A f \in Files : dir[v].arrow[f] = j
    /\ dir[v].parquet = j

\* What is up for review is the backtest that completed last: the latest manifest is of
\* its results, and its trades, and no others, are those of the run that was ingested.
ReviewedIsCurrent ==
  stage = "review-pending" =>
    LET v == CHOOSE w \in Manifested : \A x \in Manifested : x <= w
        j == dir[done].arrow["trade-log"]
    IN  /\ Manifested # {}
        /\ dir[v].arrow["trade-log"] = j
        /\ runs[dir[v].run] = "completed"
        /\ RowsOf(dir[v].run) = TradesOf(j)
        /\ \A t \in TradesOf(j) : trades[t].job = j

\* What is published is of one backtest, and what is up for review is the one that
\* completed last (process_backtest_results), over kills and orphaned processes.
ResultsAreWhole == TypeOK /\ ManifestedIsWhole /\ ReviewedIsCurrent

\* The manifest that is up for review names a run the database has completed.
ManifestNamesIngestedRun ==
  stage = "review-pending" =>
    LET v == CHOOSE w \in Manifested : \A x \in Manifested : x <= w
    IN  runs[dir[v].manifest] = "completed"

\* Whatever fails and however it is killed, a strategy that is invoked over and over gets
\* to the review, in every cycle, unless a backtest finds no trade or a failure from
\* outside, or a throttling cut short, has left its error in the state file.
GetsToReview ==
  []<>( \/ stage = "review-pending"
        \/ pc = "down" /\ error \in Lasting
        \/ \E j \in Jobs : jobs[j].os # "none" /\ jobs[j].trades = 0 )
=============================================================================
