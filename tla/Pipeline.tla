----------------------------- MODULE Pipeline -----------------------------
(***************************************************************************)
(* The pipeline of one strategy: the state file pipeline-state.json, and   *)
(* the command-line invocations that read, change and save it              *)
(* (orchestrator/operator_actions.py, stage_runner.py, gate_manager.py,    *)
(* errors.py, recovery.py).                                                *)
(*                                                                         *)
(* disk is the state file.  Every process is one invocation of a command;  *)
(* it loads the file into memory, works on its copy, and saves the copy    *)
(* with an atomic replace, without any lock.  A process may be killed at   *)
(* any step.                                                               *)
(*                                                                         *)
(* The append-only lists completed_stages and gate_decisions are kept as   *)
(* the last entry of each stage, which is all the code ever reads of them. *)
(***************************************************************************)
EXTENDS StageGraph, FiniteSets

CONSTANTS
  Procs,        \* invocations that may be alive at the same time
  Commands,     \* the commands the operator uses
  Categories,   \* the error categories (D8) that occur
  MaxAttempts,  \* [pipeline] retry_max_attempts
  MaxFaults     \* bound on failures, kills and damaged artifacts

AllCommands == {"run_backtest", "resume_pipeline", "accept", "reject", "refine"}
AllCategories == {"resource_pressure", "data_logic", "external_failure"}
Decisions == {"accept", "reject", "refine"}

ASSUME CommandsAssumption == Commands \subseteq AllCommands
ASSUME CategoriesAssumption == Categories \subseteq AllCategories
ASSUME BoundsAssumption == MaxAttempts \in Nat /\ MaxFaults \in Nat

VARIABLES
  disk,     \* pipeline-state.json, or NoState when there is no such file
  pc,       \* where each process is
  mem,      \* the PipelineState object of each process
  cmd,      \* the command each process runs
  attempt,  \* attempt number of the stage being executed
  result,   \* how the stage being executed ended
  faults,   \* failures so far (bound)
  acked     \* history: last decision of each gate the operator was told is recorded

vars == <<disk, pc, mem, cmd, attempt, result, faults, acked>>

----------------------------------------------------------------------------
(* The persistent state.                                                   *)

\* A PipelineState.  fresh, approved and decided are history fields, which no
\* action reads: the stages executed with success and the gates accepted since
\* the last refine, and the gate decided since the last automatic transition.
PipelineState ==
  [stage : PipelineStage,
   done  : [PipelineStage -> {"none", "success", "skipped", "failed"}],
   last  : {0} \cup PipelineStage,
   gates : [GatedStages -> {"none"} \cup Decisions],
   error : {"none"} \cup AllCategories,
   fresh : SUBSET PipelineStage,
   approved : SUBSET GatedStages,
   decided  : {0} \cup GatedStages]

NoState == [stage |-> 0]

NewState ==
  [stage |-> DATA_READY,
   done  |-> [s \in PipelineStage |-> "none"],
   last  |-> 0,
   gates |-> [g \in GatedStages |-> "none"],
   error |-> "none",
   fresh |-> {},
   approved |-> {},
   decided  |-> 0]

NoDecision == [g \in GatedStages |-> "none"]

\* run_backtest registers an executor for these two stages, resume_pipeline none.
Executors(c) == IF c = "run_backtest" THEN {BACKTEST_RUNNING, BACKTEST_COMPLETE} ELSE {}

\* Only the result executor returns a manifest with its artifact.
WithManifest == {BACKTEST_COMPLETE}

\* state.error and not state.error.get("recoverable")
NonRecoverable(st) == st.error = "data_logic"

\* completed_stages.append(CompletedStage(stage=current, outcome=o))
Completed(st, o) ==
  [st EXCEPT !.done[st.stage] = o, !.last = st.stage,
             !.fresh = IF o = "success" THEN @ \cup {st.stage} ELSE @ \ {st.stage}]

\* Mutant: the outcome of the stage is not looked at.
PreconditionsMetByAnyOutcome(st, artifactValid) ==
  /\ st.done[st.stage] # "none"
  /\ st.done[st.stage] = "success" => artifactValid
  /\ st.error = "none"

\* GateManager.check_preconditions of an automatic stage; artifactValid is what
\* the existence test and the executor's validate_artifact say of the artifact.
PreconditionsMet(st, artifactValid) ==
  /\ st.done[st.stage] \in {"success", "skipped"}
  /\ st.done[st.stage] = "success" => artifactValid
  /\ st.error = "none"

\* The automatic transition at the end of the loop body of _execute_stages.
Transitioned(st) ==
  [st EXCEPT !.stage = ToStage(st.stage), !.error = "none", !.decided = 0]

\* Mutant: the decision is recorded for the stage the strategy has moved to.
DecidedAfterMove(st, d) ==
  LET moved == [st EXCEPT !.stage = IF d = "accept" THEN ToStage(st.stage) ELSE @]
  IN  [moved EXCEPT !.gates = [g \in GatedStages |-> IF g = moved.stage THEN d ELSE @[g]]]

\* Mutant: refine goes back to the backtest, not to the strategy.
DecidedRefineToBacktest(st, d) ==
  LET recorded == [st EXCEPT !.gates[st.stage] = d]
  IN  CASE d = "accept" ->
             [recorded EXCEPT !.stage = ToStage(st.stage), !.approved = @ \cup {st.stage},
                              !.decided = st.stage]
        [] d = "reject" -> [recorded EXCEPT !.decided = st.stage]
        [] d = "refine" -> [recorded EXCEPT !.stage = BACKTEST_RUNNING,
                                            !.fresh = {}, !.approved = {}, !.decided = 0]

\* GateManager.advance at a gated stage.
Decided(st, d) ==
  LET recorded == [st EXCEPT !.gates[st.stage] = d]
  IN  CASE d = "accept" ->
             [recorded EXCEPT !.stage = ToStage(st.stage),
                              !.approved = @ \cup {st.stage},
                              !.decided = st.stage]
        [] d = "reject" -> [recorded EXCEPT !.decided = st.stage]
        [] d = "refine" -> [recorded EXCEPT !.stage = STRATEGY_READY,
                                            !.fresh = {}, !.approved = {},
                                            !.decided = 0]

\* What GateManager.get_status reports.
DecisionRequired(st) == IsGated(st.stage) /\ st.gates[st.stage] = "none"

----------------------------------------------------------------------------
(* Processes.                                                              *)

PCs == {"idle", "check", "unlink", "open", "resumed", "enter", "attempt",
        "failed", "finish", "decide"}

Init ==
  /\ disk = NoState
  /\ pc = [p \in Procs |-> "idle"]
  /\ mem = [p \in Procs |-> NoState]
  /\ cmd = [p \in Procs |-> "none"]
  /\ attempt = [p \in Procs |-> 0]
  /\ result = [p \in Procs |-> "none"]
  /\ faults = 0
  /\ acked = NoDecision

\* p goes on at label l with st in memory.
Goto(p, l, st) ==
  /\ pc' = [pc EXCEPT ![p] = l]
  /\ mem' = [mem EXCEPT ![p] = st]

\* The command of p returns; nothing of the process is left.
Return(p) ==
  /\ Goto(p, "idle", NoState)
  /\ cmd' = [cmd EXCEPT ![p] = "none"]
  /\ attempt' = [attempt EXCEPT ![p] = 0]
  /\ result' = [result EXCEPT ![p] = "none"]

\* A failure of the environment, counted against the bound.
Fault ==
  /\ faults < MaxFaults
  /\ faults' = faults + 1

\* PipelineState.save: an atomic replace of the state file.
Save(st) == disk' = st

----------------------------------------------------------------------------
(* run_backtest: auto-reset, then resume or start.                         *)

StartRunBacktest(p) ==
  /\ pc[p] = "idle"
  /\ "run_backtest" \in Commands
  /\ Goto(p, "check", NoState)
  /\ cmd' = [cmd EXCEPT ![p] = "run_backtest"]
  /\ UNCHANGED <<disk, attempt, result, faults, acked>>

\* Mutant: a state that failed for good is not discarded.
CheckPreviousIgnored(p) ==
  /\ pc[p] = "check"
  /\ Goto(p, "open", NoState)
  /\ UNCHANGED <<disk, cmd, attempt, result, faults, acked>>

\* Load the previous state to see whether it failed for good.
CheckPrevious(p) ==
  /\ pc[p] = "check"
  /\ Goto(p, IF disk # NoState /\ NonRecoverable(disk) THEN "unlink" ELSE "open", NoState)
  /\ UNCHANGED <<disk, cmd, attempt, result, faults, acked>>

\* state_path.unlink(); the state another process may have saved meanwhile goes too.
UnlinkState(p) ==
  /\ pc[p] = "unlink"
  /\ Goto(p, "open", NoState)
  /\ disk' = NoState
  /\ acked' = NoDecision
  /\ UNCHANGED <<cmd, attempt, result, faults>>

\* StageRunner.run: there is no state file.
RunNew(p) ==
  /\ pc[p] = "open"
  /\ disk = NoState
  /\ Goto(p, "enter", NewState)
  /\ Save(NewState)
  /\ UNCHANGED <<cmd, attempt, result, faults, acked>>

\* StageRunner.resume: load ...
ResumeLoad(p) ==
  /\ pc[p] = "open"
  /\ disk # NoState
  /\ Goto(p, "resumed", disk)
  /\ UNCHANGED <<disk, cmd, attempt, result, faults, acked>>

StartResumePipeline(p) ==
  /\ pc[p] = "idle"
  /\ "resume_pipeline" \in Commands
  /\ disk # NoState
  /\ Goto(p, "resumed", disk)
  /\ cmd' = [cmd EXCEPT ![p] = "resume_pipeline"]
  /\ UNCHANGED <<disk, attempt, result, faults, acked>>

\* ... and save under the new run id, the last artifact being good or not verified.
ResumeSave(p) ==
  /\ pc[p] = "resumed"
  /\ Goto(p, "enter", mem[p])
  /\ Save(mem[p])
  /\ UNCHANGED <<cmd, attempt, result, faults, acked>>

\* verify_last_artifact is false: ARTIFACT_VERIFICATION_FAILED is saved.
ResumeVerificationFails(p) ==
  LET st == mem[p]
      stopped == [st EXCEPT !.error = "data_logic"]
  IN  /\ pc[p] = "resumed"
      /\ st.last \in Executors(cmd[p]) \cap WithManifest
      /\ st.done[st.last] = "success"
      /\ Save(stopped)
      /\ Return(p)
      /\ Fault
      /\ UNCHANGED acked

----------------------------------------------------------------------------
(* _execute_stages: one iteration of the loop.                             *)

\* A gated stage: save and leave it to the operator.
StopAtGate(p) ==
  /\ pc[p] = "enter"
  /\ IsGated(mem[p].stage)
  /\ Save(mem[p])
  /\ Return(p)
  /\ UNCHANGED <<faults, acked>>

\* No executor is registered: the stage is recorded as skipped.
SkipStage(p) ==
  /\ pc[p] = "enter"
  /\ ~IsGated(mem[p].stage)
  /\ mem[p].stage \notin Executors(cmd[p])
  /\ Goto(p, "finish", Completed(mem[p], "skipped"))
  /\ result' = [result EXCEPT ![p] = "skipped"]
  /\ UNCHANGED <<disk, cmd, attempt, faults, acked>>

BeginStage(p) ==
  /\ pc[p] = "enter"
  /\ ~IsGated(mem[p].stage)
  /\ mem[p].stage \in Executors(cmd[p])
  /\ Goto(p, "attempt", mem[p])
  /\ attempt' = [attempt EXCEPT ![p] = 0]
  /\ UNCHANGED <<disk, cmd, result, faults, acked>>

\* executor.execute returns a result without error.
AttemptSucceeds(p) ==
  /\ pc[p] = "attempt"
  /\ Goto(p, "finish", Completed(mem[p], "success"))
  /\ result' = [result EXCEPT ![p] = "success"]
  /\ UNCHANGED <<disk, cmd, attempt, faults, acked>>

\* execute raises, and handle_error saves the state with the error; resource
\* pressure is then cleared from the copy in memory.  Another attempt follows
\* unless the attempts are used up or the error is a data/logic error.
AttemptRaises(p, c) ==
  LET stopped == [mem[p] EXCEPT !.error = c]
      kept    == IF c = "resource_pressure" THEN [stopped EXCEPT !.error = "none"]
                                            ELSE stopped
  IN  /\ pc[p] = "attempt"
      /\ Save(stopped)
      /\ Fault
      /\ UNCHANGED acked
      /\ \/ /\ c # "data_logic"
            /\ attempt[p] < MaxAttempts
            /\ Goto(p, "attempt", kept)
            /\ attempt' = [attempt EXCEPT ![p] = @ + 1]
            /\ UNCHANGED <<cmd, result>>
         \/ /\ c = "resource_pressure"
            /\ attempt[p] = MaxAttempts
            /\ Goto(p, "finish", kept)
            /\ result' = [result EXCEPT ![p] = "gave_up"]
            /\ UNCHANGED <<cmd, attempt>>
         \/ /\ \/ c = "data_logic"
               \/ c = "external_failure" /\ attempt[p] = MaxAttempts
            /\ Return(p)

\* execute returns a failed StageResult: handle_error saves the error ...
AttemptReportsFailure(p, c) ==
  LET stopped == [mem[p] EXCEPT !.error = c]
  IN  /\ pc[p] = "attempt"
      /\ Save(stopped)
      /\ Goto(p, "failed", IF c = "resource_pressure" THEN [stopped EXCEPT !.error = "none"]
                                                      ELSE stopped)
      /\ Fault
      /\ UNCHANGED <<cmd, attempt, result, acked>>

\* ... and the failed entry is appended and saved.
RecordFailure(p) ==
  LET st == Completed(mem[p], "failed")
  IN  /\ pc[p] = "failed"
      /\ Save(st)
      /\ UNCHANGED <<faults, acked>>
      /\ IF st.error # "none"
         THEN Return(p)
         ELSE /\ Goto(p, "finish", st)
              /\ result' = [result EXCEPT ![p] = "failed"]
              /\ UNCHANGED <<cmd, attempt>>

\* An unresolved error ends the run, without a save.
FinishWithError(p) ==
  /\ pc[p] = "finish"
  /\ mem[p].error # "none"
  /\ Return(p)
  /\ UNCHANGED <<disk, faults, acked>>

\* The preconditions of the transition do not hold: save and stop.
FinishBlocked(p) ==
  /\ pc[p] = "finish"
  /\ mem[p].error = "none"
  /\ \/ /\ ~PreconditionsMet(mem[p], TRUE)
        /\ UNCHANGED faults
     \/ /\ PreconditionsMet(mem[p], TRUE)
        /\ ~PreconditionsMet(mem[p], FALSE)   \* the artifact is gone or damaged
        /\ Fault
  /\ Save(mem[p])
  /\ Return(p)
  /\ UNCHANGED acked

\* Transition to the next stage, saved.
FinishTransition(p) ==
  /\ pc[p] = "finish"
  /\ PreconditionsMet(mem[p], TRUE)
  /\ Goto(p, "enter", Transitioned(mem[p]))
  /\ Save(Transitioned(mem[p]))
  /\ result' = [result EXCEPT ![p] = "none"]
  /\ UNCHANGED <<cmd, attempt, faults, acked>>

----------------------------------------------------------------------------
(* advance_stage, reject_stage, refine_stage: load, decide, save.          *)

LoadForDecision(p, d) ==
  /\ pc[p] = "idle"
  /\ d \in Commands
  /\ disk # NoState
  /\ IsGated(disk.stage)      \* advance raises ValueError elsewhere
  /\ Goto(p, "decide", disk)
  /\ cmd' = [cmd EXCEPT ![p] = d]
  /\ UNCHANGED <<disk, attempt, result, faults, acked>>

SaveDecision(p) ==
  /\ pc[p] = "decide"
  /\ Save(Decided(mem[p], cmd[p]))
  /\ acked' = [acked EXCEPT ![mem[p].stage] = cmd[p]]
  /\ Return(p)
  /\ UNCHANGED faults

\* The process is killed; its memory is lost.
Crash(p) ==
  /\ pc[p] # "idle"
  /\ Return(p)
  /\ Fault
  /\ UNCHANGED <<disk, acked>>

----------------------------------------------------------------------------

Step(p) ==
  \/ CheckPrevious(p)
  \/ UnlinkState(p)
  \/ RunNew(p)
  \/ ResumeLoad(p)
  \/ ResumeSave(p)
  \/ ResumeVerificationFails(p)
  \/ StopAtGate(p)
  \/ SkipStage(p)
  \/ BeginStage(p)
  \/ AttemptSucceeds(p)
  \/ \E c \in Categories : AttemptRaises(p, c) \/ AttemptReportsFailure(p, c)
  \/ RecordFailure(p)
  \/ FinishWithError(p)
  \/ FinishBlocked(p)
  \/ FinishTransition(p)
  \/ SaveDecision(p)

Next ==
  \E p \in Procs :
    \/ StartRunBacktest(p)
    \/ StartResumePipeline(p)
    \/ \E d \in Decisions : LoadForDecision(p, d)
    \/ Step(p)
    \/ Crash(p)

Spec == Init /\ [][Next]_vars

\* A process that is not killed keeps running; the operator may do nothing.
FairSpec == Spec /\ \A p \in Procs : WF_vars(Step(p))

\* The operator in addition keeps asking for the backtest to be run.
InsistentSpec == FairSpec /\ \A p \in Procs : WF_vars(StartRunBacktest(p))

----------------------------------------------------------------------------
(* Properties.                                                             *)

TypeOK ==
  /\ disk \in PipelineState \cup {NoState}
  /\ pc \in [Procs -> PCs]
  /\ mem \in [Procs -> PipelineState \cup {NoState}]
  /\ cmd \in [Procs -> AllCommands \cup {"none"}]
  /\ attempt \in [Procs -> 0 .. MaxAttempts]
  /\ result \in [Procs -> {"none", "success", "skipped", "failed", "gave_up"}]
  /\ faults \in 0 .. MaxFaults
  /\ acked \in [GatedStages -> {"none"} \cup Decisions]

\* st is past no gate that was not accepted since the last refine.
GatesRespected(st) == \A g \in GatedStages : g < st.stage => g \in st.approved

\* Neither the state file nor any invocation is ever past a gated stage that the
\* operator has not accepted in the current refine cycle, whatever the
\* interleaving of commands, retries and kills (gated transitions, FR39).
GateNotBypassed ==
  /\ GatesRespected(disk)
  /\ \A p \in Procs : GatesRespected(mem[p])

\* The strategy is not under review, or later, before the backtest of the current
\* refine cycle has run with success.
BacktestedBeforeReview ==
  disk.stage >= REVIEW_PENDING => {BACKTEST_RUNNING, BACKTEST_COMPLETE} \subseteq disk.fresh

\* What the operator was told is recorded is what the state file says: no later
\* save of another invocation loses a decision.
DecisionsDurable == disk # NoState => disk.gates = acked

\* A strategy that waits at a gate, no decision taken since it arrived there, is
\* reported as requiring a decision, and only such a strategy is.
StatusAsksForDecision ==
  disk # NoState => (DecisionRequired(disk) <=> IsGated(disk.stage) /\ disk.decided # disk.stage)

\* The state file of a strategy that one invocation at a time works on goes only
\* through the moves of ApprovedPipeline: a run resumed after a kill neither skips
\* a stage, nor falls back, nor leaves a gate without a decision.
Abstract == INSTANCE ApprovedPipeline WITH
              stage    <- disk.stage,
              approved <- IF disk = NoState THEN {} ELSE disk.approved

ImplementsApprovedPipeline == Abstract!Spec

\* A data/logic error leaves the state file only together with the file: no later
\* save clears it, and no retry runs over it.
FatalErrorSticks ==
  [][ disk # NoState /\ NonRecoverable(disk) /\ disk' # NoState =>
        NonRecoverable(disk') ]_disk

\* Every command comes to an end.
CommandsReturn == \A p \in Procs : pc[p] # "idle" ~> pc[p] = "idle"

\* Failures being finitely many, an operator who keeps running the backtest either
\* gets the strategy to the review gate, or is left with an error of a category
\* that run_backtest does not reset; there is no third way, such as runs that end
\* over and over with neither.
SettlesAtReviewOrError ==
  <>[]( \/ disk.stage >= REVIEW_PENDING
        \/ disk # NoState /\ disk.error \in {"resource_pressure", "external_failure"} )
===========================================================================
