# A verification project for the forex pipeline

The repository is a pipeline that takes a trading strategy from price data
through backtest, optimization, validation, confidence scoring and selection to
a candidate an operator may accept. Python orchestrates
(`src/src/python`), Rust evaluates (`src/src/rust/crates`). The directory holds
TLA+ modules translated from that code, TLC configurations that check them on
small instances, and theorems about them that TLAPS checks for every instance.

Run, in this directory: `tlc -config X.cfg M` for a run of the tables of
section 3, and `tlapm M.tla` for each module whose name ends with `Proofs`.

## 1. Inventory

| Component | State it keeps | Operations | Hard behaviour | What makes it correct |
|---|---|---|---|---|
| Pipeline orchestrator (`orchestrator/`) | `pipeline-state.json`: stage, completed stages, gate decisions, error | `run_backtest`, `resume_pipeline`, `advance/reject/refine_stage`, `get_pipeline_status`, stage loop with retries | commands overlap without a lock; kills between saves; retries; refine cycles | no gate bypassed, decisions durable, a stage passed only after its work was done, every command returns |
| Backtest executors, result ingestion (`rust_bridge/`) | version directories, SQLite tables, manifest | spawn, wait, verify, publish, ingest, archive | kills between the writes; orphaned processes; reuse of directories | what is up for review is the last backtest, whole |
| Backtest engine, backtester process (Rust) | one position, books, checkpoint; the batch of candidates | bar by bar simulation, cancellation, resumption | the same rules written twice; a checkpoint that leaves things out | books balance, both evaluators agree |
| Optimization run (`optimization/`) | checkpoint, results table (+`.partial`), run manifest, promoted candidates | generation loop, checkpoint, resumption, finalize, promotion | kill and resumption anywhere; config change; partial results | checkpoints are consistent cuts, nothing evaluated is lost or counted twice |
| Batch dispatch, signal cache | enriched files with LRU by entries and bytes; directories of groups and folds | group, resolve, spawn, gather, scatter, fall back | eviction of a file in use; orphans in shared directories; one group failing | a score is that of its candidate, every dispatch ends |
| Persistent workers (`worker_client.py`, `worker/mod.rs`) | process, request ids, pending futures, loaded keys; in Rust the data cache | eval, load, restart, retry, health check | concurrent restarts, late answers, dead processes, eviction | every answer reaches its own request; every call returns; memory is bounded |
| Gauntlet and validators (`validation/`) | `gauntlet_checkpoint.json`, `gauntlet_manifest.json` | stages per candidate, validity gates, DSR, resumption; windows, folds, combinations | kill and resumption, a second list of candidates; boundaries | gates stop what they should, nothing skipped that was not run, no look-ahead |
| Confidence scoring, selection | evidence packs, aggregate and selection manifests | load, gate, rate; deduplicate, funnel, rank, choose | files found by name; missing inputs; kills between files | what a hard gate rejects is not selected; the choice is diverse |
| Data pipeline (`data_pipeline/`) | yearly chunks, raw versions, tables, halves, manifests | download, check, convert, aggregate, split, prove | files of earlier runs are taken up; kills; a calendar that goes on | no year passed over in silence, the hash names the data, no future in training |
| Cost models, strategy versions | `vNNN` files, `manifest.json`, diffs | build, approve; capture, modify, confirm | read-modify-write by commands that overlap or are killed | what is approved can be loaded, manifests overstate nothing |
| Signal precomputation, evidence packs, strategy engine, configuration, logging, scripts | — | — | — | not modelled, section 5 |

How they interact: a command of the operator is a process of its own. It reads
the state file, runs executors in order and saves after each stage; only the two
stages of the backtest have an executor in a run. The optimization runs one
`asyncio` event loop in which groups of candidates go to Rust processes or to
persistent workers; when it ends it promotes the best candidates and runs the
gauntlet on them. Scoring and selection read what the gauntlet left. All
hand-overs between stages are files found by name, and no file is locked. The
data pipeline, the cost models and the strategy versions are command lines of
their own, whose files the others read.

## 2. Modules

| Module | Models |
|---|---|
| `StageGraph` | `PipelineStage`, `STAGE_ORDER`, `STAGE_GRAPH`: stages as positions 1..14 |
| `ApprovedPipeline` | what the orchestrator promises: `stage`, `approved`; Start, Proceed, Accept, Refine, Discard |
| `Pipeline` | the state file and the command processes |
| `BacktestResults` | what the two stages of a backtest leave behind |
| `BacktestEngine` | the engine and the batch evaluator on the same bars |
| `OptimizationRun` | the optimization loop, its files, kills and resumptions |
| `BatchDispatch` | one generation on its way to its scores |
| `WorkerClient` | a worker, the calls that share it, its reader tasks and processes |
| `WorkerCache` | what a worker process holds between commands |
| `Gauntlet` | the validation gauntlet, its checkpoint and manifest |
| `ValidationWindows` | the bars that folds, walk-forward windows and CPCV combinations use |
| `Selection` | confidence scoring and advanced selection |
| `MarketData` | one download through checks, conversion and split |
| `DataArtifacts` | the files of several runs of the data pipeline |
| `VersionedFiles`, `CostModels`, `StrategyVersions` | versioned files and their manifests, and what both stores share |
| `Subsequences` | the elements at some positions of a sequence (no code of its own) |
| `MCPipeline`, `MCOperator`, `MCBacktest`, `MCDispatch`, `MCWorker`, `MCGauntlet`, `MCData`, `MCVersions` | the instances of the runs |
| `PipelineProofs`, `BacktestProofs`, `OptimizationRunProofs`, `DispatchProofs`, `WorkerClientProofs`, `GauntletProofs`, `DataProofs`, `VersionsProofs` | theorems about what the run of that name checks, section 4 |

An `MC` module that has two or three components in it extends them and explores them side
by side: a variable `part` says which one moves while the others keep their initial state.
A property of one component is checked in its part, and a theorem about it speaks of the
component's own specification; where a property joins two components, the theorem is about
both.

**Pipeline.** `disk` is the file; each element of `Procs` is one invocation that
may be alive, with its copy `mem[p]` and a label `pc[p]` for the code between two
points at which another invocation or a kill can be noticed: a load, a save, an
executor. `run_backtest` is StartRunBacktest, CheckPrevious, UnlinkState and then
RunNew or ResumeLoad; `StageRunner.resume` is ResumeSave or
ResumeVerificationFails; the body of `_execute_stages` is StopAtGate, SkipStage or
BeginStage, the attempts, RecordFailure, and one of the three Finish actions. A
decision is LoadForDecision and SaveDecision. `completed_stages` and
`gate_decisions` are lists that only grow; the model keeps the last entry of each
stage, since the code reads no other. Three fields of a state (`fresh`,
`approved`, `decided`) and the variable `acked` are history that no guard reads;
`fresh` and `approved` are emptied by a refine and so say what happened in the
current cycle. Saving is atomic (crash-safe write); a save that itself fails is
not modelled.

**BacktestResults.** `dir` holds the version directories, `jobs` the processes ever
spawned, which outlive the invocation that waits for them, and `runs` and `trades` the two
tables. BeginBacktest is `BacktestExecutor.execute` up to the spawn, Dispatch that of
`BatchRunner`, WriteResult and Exit what the process does by itself (it may end with an
error of any of the three categories), Verify, ProcessFailed and Throttle what the
invocation makes of its end. `error` is the error in the state file: one of data or logic
has the next `run_backtest` start over, resource pressure is cleared in a step of its own,
and one from outside stays. BeginProcessing to Finish are `ResultProcessor`: the version,
its publication file by file, the registration and ingestion in one transaction each, the
archive and the manifest. Refine takes a reviewed strategy back to the backtest. Kills
come between any two writes.

**BacktestEngine.** A bar is chosen when it is first read. EngineBar is one pass of
the loop of `run_backtest`: exits, trailing, entry, checkpoint; Cancel, Kill and
Resume are the process. The batch evaluator reads the same bars for all candidates
at once (NewBar, EndBatch). `ledger` and `seen` are history: the trades and
bars behind the books. Prices are small integers, seen from the direction of a
position, so that a stop is always hit from above.

**OptimizationRun.** One process at a time (`pc`, "down" between runs) and five
files. Start is `OptimizationExecutor.execute` up to the loop, resumption included;
RunAgain is its second call of the orchestrator after a RuntimeError, which is told of
the checkpoint that was there (`found`) when the process started. A generation is
BeginGeneration, one DispatchBranch per branch, Tell, Checkpoint, EndGeneration;
the end of the run is Finalize, WriteManifest, Promote or PromotionFails, and
Gauntlet. Candidates are counted in units of the smallest batch: a row of
`results` stands for one dispatched batch, with the ids it was given. `told` is the
sequence of generations the counters of the branch manager stand for. Abort is a
kill, or an exception that ends the process.

**BatchDispatch.** What DispatchBranch of OptimizationRun abstracts. Dispatch groups
the candidates of a batch, Resolve asks the signal cache for the data of each signal
set, with eviction by entries and by bytes, Spawn and EvaluateOnWorkers begin the
evaluation, Scatter takes the scores back, FallBack and Raise are the two ways a
failure ends: Raise as soon as one group raises, while the processes of the others go on.
Processes evaluate, write and fail by themselves
(Evaluate, WriteScores, ProcessFails, ProcessUnreaped), in directories named by
generation, group and fold only; `lost` counts the faults after which what lies
there can be another call's. PrecomputeFails, Kill, Restart and Damage are the
remaining faults.

**WorkerClient.** `_proc`, `_next_id`, `_pending` and `_reader_task` are
variables; `reads[p]` is the stdout that the reader started for process p waits
on. The code takes `self._proc.stdout` anew for every line, so that a reader can
move on to the next process. The event loop is modelled by two predicates: a
coroutine that has not reached its next `await` excludes the others (`MayRun`),
and an event of the operating system (a line, an end of file, an exit, a timer, a
spawned process) is looked at only when no coroutine is ready
(`EventsMayArrive`). `_restart` is split at its awaits: BeginCleanup, EndCleanup,
Spawn, Replay, EndRestart, LoadFailed. A process holds a cost model and the data of one
key (`memory`) and answers an init or a load with success or an error (Serve); `refused`
is the history of those errors. In MCWorker calls are made one after the other
(NextCall), or all at a time.

**WorkerCache.** The command loop of `worker/mod.rs`: HandleInit, LoadCached,
LoadFails and Load with the eviction they do, BeginEval and EndEval. `entries` is the LRU
list with the count of evaluations that hold an entry.

**Gauntlet.** One process; `progress` is the checkpoint by position of the
candidate, `manifest` what is written at the end. SkipResumed, ShortCircuit,
RunStage, Checkpoint and EndCandidate are the loop over candidates and stages,
WriteManifest is DSR and manifest. A validator is its gate: CPCV fails for the
parameter sets of `Overfit`. `ran` is history.

**ValidationWindows.** A job is one call: ComputeFolds (`fold_manager.py`),
GenerateWindows (`walk_forward.py`), or EvaluateCombination for one combination of
CPCV after the other and then ApplyGate. `ranges` are the bars each trains and
tests on. `evaluates` says whether the dispatcher the validator is given has the
method it looks for.

**Selection.** StartScoring, ScoreCandidate and WriteAggregate are
`confidence/orchestrator.py`; StartSelection, SelectDiverse and PublishSelection
`selection/`. NewResults is another gauntlet, in either of the layouts the code
may find. Numbers that are statistics of a candidate (closeness, labels, quality,
cell of behaviour) are inputs.

**MarketData.** CheckQuality, ConvertToArrow, ConvertTimeframes, Cut and SplitAtCut are
the stages; a row is a bar or a tick with its prices, times are half minutes. A download
has the duplicates that were `dropped` from its rows, since these leave holes in the index:
`Label` is the label of a row, `TimeAt` what `iloc` reads at a position, and Gaps and Runs
use the one as the other where the code does. A session
is in force between two hours of a day; where two overlap, the labelling in bulk
(`BulkSession`), that of one bar (`FirstSession`) and that of an hour of several
(`H1Session`) each have a preference of their own.

**DataArtifacts.** What those stages leave on disk, over runs of
`pipeline_proof.py`: a table is known by what each year of the download held, and so is
its hash. NextYear is the calendar. Start to Finish are the steps of a run, the
re-run of `_verify_reproducibility` included (`second`); Kill,
KillWhileDeleting and WriteFails its faults.

**CostModels, StrategyVersions.** Both extend VersionedFiles: numbered versions, kills,
and whether commands overlap. Each command is a process with `pc`, what it has
read (`seen`) and what it is at; a step is what happens between two accesses to
files. Build, CheckCollision, SaveModel, ReadToRegister, WriteRegistered are a
build; CmdApprove, ReadToApprove, WriteApproved an approval. Capture,
SaveStrategySpec; ApplyModifications, CheckCollision, SaveNewVersion,
SaveDiffArtifact; Confirm, SaveConfirmed, LoadManifest, SaveManifest are the
commands on a strategy. `alone` says whether the operator waits for a command to
end before the next.

## 3. Runs

Passing runs:

| Run | Configuration, module | Checks | Instance |
|---|---|---|---|
| cycles | PipelineCycles, MCOperator | DecisionsDurable, ReviewWithoutRefine, ImplementsApprovedPipeline, FatalErrorSticks, CommandsSettle | one invocation at a time; all commands, all error categories, 5 faults, retry limit 2; an operator who may use any command, and an insistent one who only runs the backtest and decides |
| race | PipelineRace, MCPipeline | GateNotBypassed | two overlapping invocations of run_backtest, resume_pipeline, accept and refine; 1 fault; symmetry |
| backtest | Backtest, MCBacktest | ResultsAreWhole, ReviewReached; BooksBalance, EnginesAgree, LevelsOnlyTighten | 8 versions, 3 processes, 2 trades, 2 kills, timeouts or failures; 4 bars of 6 kinds, 3 specifications, 2 candidates, a checkpoint every 2 bars, 1 resumption |
| opt_run | OptRun, OptimizationRun | RunConsistent, NeverGoesBack, Completes | 3 generations, checkpoint every 2, 2 branches, 2 configurations with hashes, 3 runs, 2 kills, RuntimeErrors or failed promotions |
| dispatch | Dispatch, MCDispatch | OwnScores, ScoredWhenItFits, MemoryBounded, FreshData, DispatchEnds | 2 batches of 3 candidates in 4 groups, 3 signal sets in a cache of 2 entries, 2 folds, 2 generations, 2 calls, 1 fault; a worker with 3 keys, 4 sizes, 3 budgets |
| worker | Worker, MCWorker | AnswersAreOwn, SoundUnlessShared, CallsReturn | two calls one after the other and 2 faults; two calls at a time and 1 fault; any init or load may fail |
| gauntlet | Validation, MCGauntlet | TypeOK, EveryStageRan, FreshRunAppliesGate, GauntletCompletes; NoLookahead, TestedOnce, CpcvIsSound; NoFailedGateSelected, SelectionIsDiverse | one list of three candidates, three runs, 2 faults; up to 24 bars, 4 folds or windows, 4 CPCV groups; tables of 3 to 6 candidates, 1 kill |
| data | Data, MCData | ReportMatchesQuarantine, TablesAgree, CutIsSharp; FilesTellTheTruth, RerunHeals, FilesStay | 5 bars or 6 ticks with up to two odd bars of 6 kinds, 6 bars with up to four duplicates dropped; 2 years, 2 configurations, 2 runs, 1 fault |
| versions | Versions, MCVersions | ApprovedModelLoads, ManifestsTellTheTruth, VersionsKept | 2 commands, 3 versions (2 where they overlap), 1 kill |

What each shows is in `PROJECT.json`, and what each property says stands before it in its
module. Several instances are the largest on which their property holds, which is a result
in itself: the next command, invocation or fault breaks it. ReviewWithoutRefine holds with
run_backtest, accept and reject, and fails as soon as refine or resume_pipeline is used.
DecisionsDurable holds for one invocation at a time and fails for two (no lock around
load, decide and save, `operator_actions.py:449`, against "AC #11" of
`gate_manager.py:52`). EveryStageRan holds for one list of candidates and fails for two.
AnswersAreOwn holds with one fault and two calls and fails with two: ids start again at 1
(`worker_client.py:222`, against lines 7–8) while an orphaned process may still answer.
SoundUnlessShared speaks of calls one after the other: two at a time can leave a process
over, or evaluate without data. It excepts a process that answered an init or a load with
an error: such a process is healthy by `health_check`, and the next evaluation reaches it.
NeverGoesBack excepts a second run that was told of no checkpoint. ReportMatchesQuarantine
compares counts only where no duplicate was dropped. VersionsKept speaks of commands that
do not overlap.

Runs that show where the code and what it says differ. Each checks one property
that a comment, a docstring or the requirements state, and that TLC violates; the
findings in `PROJECT.json` give the line and quote the text:

| Run | Configuration | Property | Why it fails |
|---|---|---|---|
| stale_completion | PipelineStaleCompletion | BacktestedBeforeReview | after a refine, `check_preconditions` takes the completion of the earlier cycle |
| opt_lost_rows | OptLostRows | ResultsComplete | the results of a resumed run lack the generations before its checkpoint |
| future_in_train | DataFuture | NoFutureInTrain | a bar of a higher timeframe is cut by its start, and goes to training with the prices it closes with after the cut |

**Further disagreements** were met while modelling. Some are stated as definitions
that no run checks, because TLC violates them; put one in a configuration to see how:

- `ValidityGateApplied` (Gauntlet): failed gates are not in the checkpoint
  (`gauntlet.py:219` against :6), so a resumed run forgets them.
- `PassedOnEvidence` (ValidationWindows): the dispatcher that
  the optimization hands to the gauntlet (`optimization/orchestrator.py:1037`) has
  no `evaluate_candidate`; every score is zero, PBO is zero and the gate passes
  (`cpcv.py:158`; likewise `walk_forward.py:168`, `perturbation.py:115`).
- `GateDecisionsFollowScoring` (Selection): selection reads
  gate results under a key scoring never writes, so that with its manifests every
  candidate is rejected (`ranking.py:252`).
- `SplitsFollowConfig` (DataArtifacts): after a change of the configuration old
  halves are kept under the new manifest (`data_splitter.py:393`).
- `NeverOverwritten` (CostModels): overlapping builds write one version.
- `ManifestNamesIngestedRun` (BacktestResults): run ids are made anew by each
  resumption, and the manifest names one that was not ingested.
- `EvictsLeastRecent` (WorkerCache): the iteration goes from the most recently
  used entry, which is evicted first (`worker/mod.rs:168`).

Others show when a configuration is changed:

- `resume_pipeline` has no executors and records the backtest as skipped
  (`operator_actions.py:602`), and `get_status` reports the decision of an earlier
  cycle (`gate_manager.py:192`): PipelineCycles with `resume_pipeline` or `refine`
  among InsistentCommands.
- `handle_error` saves resource pressure before it clears it
  (`errors.py:77`), and a failed attempt leaves its error to a successful retry
  (`stage_runner.py:301`): SettlesAtReviewOrError without its second disjunct.
- An error from outside that a backtest process reports (`error_types.rs:127-136`, also
  after it has written all) is saved and never cleared; `run_backtest` resumes that state,
  and each later success stops at `stage_runner.py:301`. A kill between the two steps of
  `errors.py:77` has the same effect: GetsToReview without its second disjunct.
- The executor takes any RuntimeError of the orchestrator for that of a running event
  loop and runs it again with the `resume_from` of before (`executor.py:85-94`): where
  there was no checkpoint at the start, the second run begins at generation 0 and replaces
  the checkpoint of the first by an earlier one: CheckpointAdvances without
  `again => found`.
- A load that is refused ends the call and leaves a healthy process without its data
  (`worker_client.py:254`); after an init that is refused the evaluation is sent all the
  same (612-625): DataReplayed without `p \in refused`.
- Dropped duplicates leave holes in the index (`downloader.py:424`), and two passes use
  labels as positions (`quality_checker.py:88-92`, 468-472): the rows set aside are not
  those "adjacent to gap periods" (626), a gap whose label is past the last position raises
  IndexError, and a stale run over a hole sets aside more rows than it reports, or none:
  ScoreTellsQuarantine and ReportCoversQuarantine without `download.dropped = {}`.
- Without a `config_hash`, which nothing sets in the configuration
  (`optimization/orchestrator.py:259`), the checkpoint of another configuration
  is resumed: OptRun with `Hashed = FALSE`.
- The gauntlet's checkpoint outlives its candidates (`gauntlet.py:100`):
  Validation with `Lists <- TwoLists`.

And some are to be read from the model. Orchestrator and backtest:

- no command registers an executor for optimization (`operator_actions.py:175`);
  the automatic reset unlinks a state together with its decisions (199);
- `advance` does not look at `state.error` (`gate_manager.py:79`);
- a backtest without trades leaves an empty log on which processing raises, and
  never gets to a review;
- a kill during publication makes the resumption read a version half made;
- trades are keyed by `trade_id` alone, so that a later backtest replaces the rows
  of an earlier one (`result_ingester.py:180`);
- a process that was not reaped after its timeout has no return code, which passes
  for 0 (`batch_runner.py:185`); the `finally` clause uses an unbound name when no
  process could be started (202);
- the checkpoint of a cancelled engine names a bar that was not evaluated
  (`engine.rs:263`), and a resumption has neither trades nor peak nor previous
  values; quarantined bars pass over the periodic checkpoint;
- fills differ: the batch exits at its level, the engine at bid or ask; the batch
  knows no embargo and trails by ATR always; an unknown session costs nothing in the
  batch and is an error in the engine; targets by ATR differ. EnginesAgree is about
  what both leave alike.

Optimization and dispatch:

- a run resumed after the last generation replaces complete results by an empty
  table (`results.py:129`);
- `CMAESInstance.load_state` restores counters, not the distribution
  (`portfolio.py:272`);
- narrowing asks for two best candidates and is given at most one
  (`optimization/orchestrator.py:901`); the adaptive batch size is not bounded by
  the memory check (848), which is itself overridden by a floor of 64;
- more branches than candidates exceed the budget (`branch_manager.py:110`);
- a fold that failed makes the penalised score not a number, which `argmax` picks
  (`optimization/orchestrator.py:437`);
- eviction by bytes looks a size up after the file is gone and so never counts what it
  frees (`signal_cache.py:296`), and a later computation of the same batch may evict
  what was handed out for an earlier group (286);
- groups, folds and prescreening share directories, so that a stale or foreign
  `scores.arrow` is read after an orphaned process (`batch_dispatch.py:116`); it is
  written in place; a file of one score is spread over all candidates;
- groups are gathered without `return_exceptions` (`optimization/orchestrator.py:705`): one
  that raises ends the generation while the processes of the others go on, in directories
  a later call uses;
- persistent workers evaluate only what `preload_data` has sent, which is never
  called (`batch_dispatch.py:453`), so that each evaluation is answered `CACHE_MISS`; and
  the key of the first group is used for all;
- two concurrent restarts spawn two processes (`worker_client.py:85`), an
  evaluation overtakes the replay of another call's restart (225), a dead worker
  passes for healthy until its exit is noticed (209);
- a load larger than the budget evicts everything before it is refused.

Validation, scoring and selection:

- the first checkpoint after a resumption drops the progress resumed from
  (`gauntlet.py:215`); the DSR looks for `total_trials` where the manifest has
  `total_evaluations` (457);
- CPCV falls back on the test scores alone when scores are identical; small
  walk-forward windows train on nothing; the embargo is dropped where no training
  would be left, and stands before the test where the docstring says after;
  walk-forward and CPCV leave the tail of the data out;
- the names of the gauntlet's files are not those scoring looks for, so that its
  manifest comes out empty; its entries have no gate results and rate RED;
- the funnel requires DSR also where scoring waives it, for ten trials or fewer;
  `pareto_rank` is never used; noise counts as a cluster of its own;
- packs are newer than their manifest after a kill; the operator's review is an
  unlocked read-modify-write.

Data and versions:

- the validation stage of the proof can never pass (`pipeline_proof.py:283`); the full
  files of higher timeframes always count as orphans; reproducibility deletes all files,
  and for ticks its re-run raises;
- a year that came in part while it was the current one is never completed; one whose
  asks are missing or whose chunk is damaged is not fetched again;
- files of higher timeframes are kept by name though M1 has changed, and of several
  any is taken; the M1 table is copied in place, so that a kill leaves part of it;
- a kill during the deletion leaves a manifest that names missing files; one between
  directory and file leaves the newest raw version empty;
- two or more integrity issues raise in a frame read from CSV (`quality_checker.py:926`);
  duplicate or unordered times are neither scored nor set aside; bars made of ticks
  are all `off_hours`;
- overlapping commands overwrite a version and lose updates of the manifest; confirming a
  confirmed version does not repair the manifest (`confirmer.py:137`);
  `latest_confirmed_version` goes back (`versioner.py:434`) where
  `cost_model/storage.py:356` does not; a kill between model and manifest leaves a
  version that cannot be approved.

**Bounds and why they are enough.** Every bound is a constant, named in the module. In
`Pipeline` the only ones are `MaxFaults` and `Procs`: stages, decisions and refine cycles
are finite by themselves, so that the runs cover any number of cycles; a limit of two
attempts reaches both outcomes of the retry test. In the run race, states are told apart
by what the guards and the property read (the VIEW leaves out recorded decisions and
history). In `BacktestResults` three processes are a backtest that failed, an orphan and
the one that is waited for; an error that stays and a second failure may follow each
other. `Room` has the operator go on only where the bounds on versions, processes and runs
leave room for every failure that is still possible, so that no run ends for want of one
of them. In `BacktestEngine` four bars are entry, trailing, a level and an end, with a
checkpoint between any two. In `OptimizationRun` three generations with a checkpoint every
two give a resumption in the middle of an interval, at its end and after the last
generation; three runs with two kills a resumption of a resumption, and a second run after
a resumption, after a fresh start, or killed in its turn. In `BatchDispatch` a cache of
two entries evicts the third signal set while its batch is being resolved, and two calls
of one generation share directories; the smaller limit of bytes is explored with manifests
only. In `Gauntlet` three candidates with an overfit one give a gated candidate before,
between and after sound ones; the windows go through every length from none to more than
all blocks together. In `WorkerClient` `MaxProcs` is an upper bound on the restarts two
calls can make, so that a call is never held up by it; CallsReturn would fail otherwise.
Two calls one after the other let the second meet what the first has left of the worker.
In `MarketData` any five of seven times give gaps, weekends and both sides of each period;
up to three duplicates of the first row and one of a row in the middle shift gaps and
stale runs to other rows, past the end, and across a hole; in `DataArtifacts` two years
are a complete and a partial one, and two runs with a fault between them one that takes up
what another left, with the re-run of each. In the versions, overlapping commands are
followed to two versions (OverlapsStaySmall), which is where they collide, and single ones
to three.

**Deadlock.** Every configuration switches the deadlock check off, because each
system really may stop: when no command is left to give, after the last run that
its bound admits, or when all calls have returned. That nothing stops earlier is
what the liveness properties say: CommandsSettle, ReviewReached, Completes,
GauntletCompletes, CallsReturn, DispatchEnds.

**Fairness.** `Pipeline`: a process that is not killed keeps running
(`WF(Step(p))`: the loop is synchronous code, and executors return or raise); the
operator may do nothing, except the insistent one, who runs the backtest again and
again. `BacktestResults`: likewise, a process that was spawned writes and exits,
and the operator who wants a review invokes again. `OptimizationRun`, `Gauntlet`:
the process runs while it is alive, and the stage is executed again until there is
a manifest. `BatchDispatch`: awaited coroutines and processes go on.
`WorkerClient`: each coroutine that is ready gets its turn (the event loop is
fair), pipes are read and processes answer, and the timer of an evaluation goes
off when no answer can come any more. Kills and failures have no fairness and are
finitely many.

## 4. Proofs

A theorem holds for every value of the constants that its assumptions admit. Each
assumption is named in the module that declares the constants (`RowsAssumption` and
`CalendarAssumption` of MarketData, `BatchesAssumption` of BatchDispatch and so on), and
TLC evaluates it in the runs. A hypothesis that the code does not guarantee stands
in the theorem itself: `Sole`, `Distinguished`, `OneListOnly`, `PeriodsNest`,
`SessionsApart`. In each module the inductive invariant was checked by TLC before it
was proved. Where a value is computed by going over a sequence or a set, the
induction is done by hand, as the choice of a least counterexample
(WellFoundedInduction), since the library's induction takes an operator.

`PipelineProofs`, for any number of overlapping invocations, retries and faults:
`WellFormed` (`[]TypeOK`), `TypeCorrect` (the invariant behind it: `TypeOK` is not
inductive, since that a save puts a full state on disk needs to know that a
process past its load holds one; `LocalInv` adds that), and `GatesHold`
(`[]GateNotBypassed`): every operator on a state preserves that all gates below
its stage are in `approved` (`GateFacts`), and copying between file and memory does so
trivially, which is why no lock is needed for this property. `ReviewedAfterBacktest`
(`[]ReviewWithoutRefine`) is for an operator who never refines nor resumes:
`InsistentInv` says that every state anywhere is `Unrefined`, that is, past
the backtest only with its success recorded.

Under the hypothesis `Sole`, that there is one invocation: `DecisionsStay`,
`FatalSticks`, and `Implements`, the refinement of ApprovedPipeline. `SoleInv` relates
the copy of the process to the file at each label (at which it is the same, ahead, or
about to be replaced), so that a save loses nothing. The hypothesis is needed: with two
invocations TLC violates DecisionsDurable.

`BacktestProofs`: `WholeResults` (`[]ResultsAreWhole`). `ResultsInv` says what a
directory may hold at each step of the process that writes it (`DirInv`, `JobInv`), what
the invocation knows of its target (`WorkInv`), and what is recorded of a strategy
under review (`ReviewInv`). Orphans make it hard: a directory is written by the
process that was given it, whatever invocation is alive. `RowInv`, that a row
belongs to a process, is separate. Of the engine, for any bars, specification, intervals
of checkpoints and kills: `BooksAreOfTrades` (`[]BooksBalance`) and `LevelsTighten`
(`LevelsOnlyTighten`). `EngineInv` says of the books what they say of the ledger
(`EngineBooks`), the same of what a checkpoint holds (`CheckpointBooks`), and that a
checkpoint is of bars that were seen (`CheckpointBehind`), from which a resumption begins
with books that balance.

`EnginesAlike` (`[]EnginesAgree`) is about the engine beside the batch evaluator. A
relation between their states is not inductive: each is busy with its own trade on most
bars, and the engine may be resumed. `AgreeInv` compares both, each by itself, with
what depends on neither. A position opened on a bar leaves on a bar, for a reason, that
the bars alone determine: `Right` says of an open position that its levels are the ones
so reached, `TradeRight` of a trade that it ended there (`BatchExits`; `EngineExits`, on
the bars the engine has seen without a break). The first entry is on the first bar with a
signal, which the bars determine too: `FirstIs` (`BatchFirst`, `EngineFirst`), where the
values a column had before are those of the last open bar (`PrevOf`). Two evaluators right
in this sense agree on whatever both did. `Lists` says that each candidate is in one list
once, which swap_remove and push keep; `BookRight` that the running drawdown is the
deepest fall of the cumulated trades, by an induction over the trades; `EngineRest` that
the points of the equity curve are in order, from which the one-pass `maxdd` and its
duration are those of the definition. A target at no distance is no target for the batch
and one that is reached at once for the engine, so the specifications are those the
validator lets through, with positive distances (`StrategiesAssumption`).

`OptimizationRunProofs`: `OneStory` (`Distinguished => (Spec => []RunConsistent)`),
`Onward` (`NeverGoesBack`), `Checkpoints` and `Manifests`. `Story` says that ids,
told generations, rows and counters are those of one run of the loop, `Cut` the
same of a checkpoint, `Forward` and `FromResults` that both go on. `Onward` excepts the
second run of a process that found no checkpoint, for which it is not so. `Distinguished`
(configurations have hashes of their own) is needed for what a manifest says of its
configuration, and for nothing else: `Checkpoints` and `Manifests` do without.

`DispatchProofs`, for any batches, signal sets, limits, folds, calls and faults:
`ScoresAreOwn` (`[]OwnScores`) and `FittingIsScored` (`[]ScoredWhenItFits`). `ProcsInv` says
which process a group waits for and where it writes, `CacheInv` that what is accounted for
is what is there, `OwnInv` that a directory of scores is that of the one process in charge
of it (`OwnProcs`, `OneInCharge`), and `WorkInv` that nothing handed to a group is evicted
while everything fits. `MemoryStaysBounded` (`[]MemoryBounded`) and `DataIsFresh`
(`[]FreshData`) join both caches; `Bytes` is that the worker's `used` is the sum of
its entries, which eviction (the least position from which the rest fits) keeps.

`WorkerClientProofs`: `WorkerIsSound` (`[]SoundUnlessShared`), for any calls, processes and
faults, with or without data loaded: `WorkerInv` types the worker; when one call is made
after the other, the calls that are not under way wait for nothing (`Alone`), and there is
one process. Once data had been loaded, `LoadedInv` adds that at most one request is under
way (`OneOutstanding`) and what the process holds when its requests reach it (`Data`), as
long as it has refused neither its init nor its load (`Fit`); one that has may be evaluated
without data, and the theorem says nothing more of it. In the code as it is nobody calls
`preload_data`, so that of this theorem the one process is what counts today.
`AnswersAreOfTheirCalls` (`[]AnswersAreOwn`) joins two cases. When a call has
the worker to itself, for any number of faults: `Sole` says that the others are idle
(`Alone`), where the one call stands (`AtPlace`), and that every answer under way to it is
to its present request (`Answers`). With any number of calls and at most one fault:
`Crowd` says that waiting calls are registered under ids of their own (`Registered`), and
that a message under a registered id is of the call that waits for it (`Addressed`). Ids
start again at 1 with each restart, so this needs to know when one can happen. Before the
fault and after the first restart, whatever is waited for is on its way from a process that
is read and runs (`Settled`), so that nothing expires; in between, all calls close
the first process, and ids are reset only when it is read no more (`Broken`). TLC shows that
two calls and two faults violate it: an orphan, still read, answers under an id that was
given again.

`GauntletProofs`: `WellFormed`, `FreshGate` (what a candidate holds after n stages,
`GatedUpTo`, in a run that resumed nothing), and `Coverage` (`OneListOnly => (Spec
=> [](SkippedStagesRan /\ EveryStageRan))`). The checkpoint knows candidates by
position, which is why one list is needed: with two, TLC violates both. Of the windows,
for any data, folds, purge and embargo: `TrainingNeverLooksAhead` (`[]NoLookahead`) and
`NoBarTestedTwice` (`[]TestedOnce`). `RangesInv` says that the ranges are the ones of the
job; the rest is arithmetic of division, in lemmas. Of the combinations, for any groups,
purge, embargo and scores: `CombinationsAreSound` (`[]CpcvIsSound`). `FoundUpTo` is the
invariant of the scan that cuts a group into the runs of its bars that are not excluded;
that these are the bars far enough from every test bar is arithmetic (`ExcludedFacts`).
`GateInv` says that the gate is computed last, of the scores that stay; its ranks are
places in an order that no two values share (`PlaceOfEach`), so that the reverse order
has the other half below the median (`OppositeBelow`) and the same order the same half
(`SameBelow`). That a job has two combinations at least (`CombinationsFacts`) is needed:
of one score, every order is the reverse of every other.

Of Selection, for any tables, results, configurations, attempts and kills:
`NoFailedGateGetsThrough` (`[]NoFailedGateSelected`) and `SelectionDiverse`
(`[]SelectionIsDiverse`). `ChoiceInv` says that the survivors are what the funnel makes of
some deduplication of the table (`OutOfFunnel`), and that the selection of them is
`WellChosen`. The lemmas it rests on say that `Sorted` is a rearrangement (a row's place
is the number of better ones, `PlacesFacts`), that each Pareto round takes at least one
row, so that all have a rank (`RoundsFacts`: the row with the greatest sum is dominated by
none), and what the two passes over the archive have taken after each cell
(`AfterFirst`: as many clusters as places or all of them, and no cluster passed over while
there is room). That a recursive function has a value at all is `RecursionExists`.

`DataProofs`, on the files of any years, configurations, runs, kills and failing
writes: `TruthfulFiles`, `HealedFiles` and `KeptFiles`. `DataInv` has a part for
each stage: what a run knows at each step (`CallInv`), that each year is to be
fetched, was fetched, or is reported (`DownloadInv`), that raw versions are numbered
without gaps and never more than runs (`RawInv`, from which a version that is chosen is
new), that M1 is what was hashed while halves are written (`SplitInv`), and what a
re-run, which begins with nothing, has made so far (`HealInv`). A download has a first and
a last year because years are bounded (`Greatest`, `Least`).

On one download, for any rows, dropped duplicates, thresholds, calendar and split:
`ReportIsComplete` (`[]ReportMatchesQuarantine`), with or without holes (`LabelFacts` says
where a label points, `TimeAtFacts` says what a position reads, and `OwnPosition` that
without holes the two are the same), `TablesAreSound` (types, and no bar of any timeframe
with prices the checks reject), `SharpCut` (`[]CutIsSharp`) and `TablesAreOne`
(`[]TablesAgree`). `MarketInv` says what each table is once its stage is past: the report
that of the quarantined rows (`ReportInv`), the tables those made of the rows left
(`StagesKnown`, `M1Known`); `CutInv` the same of the halves. The agreement of timeframes
is then a statement about one bar made of bars: the first row of the first is the first of
all, and extremes of extremes are extremes. It needs `PeriodsNest` (a period begins where
one of the timeframe below begins, which is so for `daily_open_utc_hour = 22` of
`config/base.toml`, and not for every hour one could configure) and `SessionsApart`
(sessions overlap as in the `[sessions]` of that file). `PartsAreSpecs` says that the run
`data` is of both specifications.

`VersionsProofs`: `CostInvariant` and `SpecInvariant`, the inductive invariants of the
two stores; `ApprovedLoads` (`[]ApprovedModelLoads`), `ManifestsTrue`
(`[]ManifestsTellTheTruth`) and `VersionsStay` (`VersionsKept`), with the halves
`ManifestDescribes` and `ModelsStay`, `ManifestTruthful` and `SpecsStay`. That no manifest,
on disk or read by a command, claims a version without a file (`Backed`, `Holds`) holds
for commands that overlap; that it has their hashes and overstates no approval only for
commands one at a time, of which `AloneInv` says what a single command knows at each
step (`Knows`) and what the manifest then says (`Describes`).

**Only model-checked.** All liveness (CommandsSettle, ReviewReached, Completes,
GauntletCompletes, CallsReturn, DispatchEnds), which is out of the prover's reach, as is
ENABLED. Every invariant and every action property of the passing runs is a theorem.
The three runs that expect a violation are counterexamples and need no proof.

## 5. Not modelled

- `signal_precompute.py`: a sequential computation of indicator columns on
  floating-point prices; no state between calls.
- The statistics: DSR, Monte Carlo, perturbation and regimes, component scores
  and anomalies, HDBSCAN, quality metrics, the samplers' distributions, the objective
  over folds. They are inputs or choices of their outcome.
- Evidence packs, narratives and reports: computed from finished results.
- The strategy engine (parsing and validation of one document), configuration,
  logging and scripts: no state that changes.
- Of modelled components: `startup_cleanup` and `recover_from_checkpoint` (nothing writes
  the `checkpoint-<stage>.json` they look for); the narrowing of the search space; the
  dispatch and scores of prescreening; `check_memory`; shutdown of workers, the start of
  the pool, the first `preload_data` and the routing of keys (a worker has one key, loaded
  or not when the model begins); the HTTP client with its retries, the M1 download from
  ticks and the command lines beside the proof; the operator's review of confidence; the
  cut to `max_clustering_candidates` and the visualization; the progress file and the
  memory limit of the backtester. `PROJECT.json` names them by component.
- `artifacts/storage.py`, which several modules import, is not in the repository; its
  crash-safe write is modelled as atomic from how it is used.

## 6. What is left

A composition of `OptimizationRun` with `BatchDispatch`, in which an abort of one
is a failure of the other. The prescreener and the objective over folds could be
modelled with scores as small integers.
