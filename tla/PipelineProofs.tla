-------------------------- MODULE PipelineProofs --------------------------
(***************************************************************************)
(* Theorems about Pipeline, for any commands, any retry limit and any      *)
(* number of failures and kills: for any set of overlapping invocations,   *)
(* for one invocation alive at a time, and for an operator who never       *)
(* refines.                                                                *)
(***************************************************************************)
EXTENDS MCOperator, TLAPS

USE DEF DATA_READY, STRATEGY_READY, BACKTEST_RUNNING, BACKTEST_COMPLETE,
        REVIEW_PENDING, REVIEWED, OPTIMIZING, OPTIMIZATION_COMPLETE, VALIDATING,
        VALIDATION_COMPLETE, SCORING, SCORING_COMPLETE, SELECTING,
        SELECTION_COMPLETE

\* Where a process holds a state in memory; where it has passed the gate test.
Loaded == {"resumed", "enter", "attempt", "failed", "finish", "decide"}
Executing == {"attempt", "failed", "finish"}

\* What a process at label l, running command c, knows of its copy st.
LocalInv(l, st, c) ==
  /\ l \in Loaded => st \in PipelineState
  /\ l \in Executing => ~IsGated(st.stage)
  /\ l = "decide" => c \in Decisions /\ IsGated(st.stage)

\* The inductive invariant behind the type invariant.
TypeInv ==
  /\ TypeOK
  /\ \A p \in Procs : LocalInv(pc[p], mem[p], cmd[p])

----------------------------------------------------------------------------
(* Lemmas about the operators on a PipelineState.                          *)

\* Recording how a stage ended gives a state at the same stage, with the same
\* decisions and the same error.
LEMMA CompletedFacts ==
  ASSUME NEW st \in PipelineState, NEW o \in {"success", "skipped", "failed"}
  PROVE  /\ Completed(st, o) \in PipelineState
         /\ Completed(st, o).stage = st.stage
         /\ Completed(st, o).approved = st.approved
         /\ Completed(st, o).gates = st.gates
         /\ Completed(st, o).error = st.error
BY ZenonT(30) DEF Completed, PipelineState, PipelineStage

\* Changing the recorded error changes nothing else.
LEMMA ErrorFacts ==
  ASSUME NEW st \in PipelineState, NEW e \in {"none"} \cup AllCategories
  PROVE  /\ [st EXCEPT !.error = e] \in PipelineState
         /\ [st EXCEPT !.error = e].stage = st.stage
         /\ [st EXCEPT !.error = e].approved = st.approved
         /\ [st EXCEPT !.error = e].gates = st.gates
BY DEF PipelineState

\* The automatic transition leads to the next stage and keeps the decisions.
LEMMA TransitionedFacts ==
  ASSUME NEW st \in PipelineState
  PROVE  /\ Transitioned(st) \in PipelineState
         /\ Transitioned(st).stage = ToStage(st.stage)
         /\ Transitioned(st).approved = st.approved
         /\ Transitioned(st).gates = st.gates
<1>1. ToStage(st.stage) \in PipelineStage
  BY DEF PipelineState, PipelineStage, ToStage
<1>2. QED BY <1>1 DEF Transitioned, PipelineState

\* A gate decision is recorded under the gate, and moves the stage as decided.
LEMMA DecidedFacts ==
  ASSUME NEW st \in PipelineState, IsGated(st.stage), NEW d \in Decisions
  PROVE  /\ Decided(st, d) \in PipelineState
         /\ Decided(st, d).gates = [st.gates EXCEPT ![st.stage] = d]
         /\ d = "accept" => /\ Decided(st, d).stage = ToStage(st.stage)
                            /\ Decided(st, d).approved = st.approved \cup {st.stage}
         /\ d = "reject" => /\ Decided(st, d).stage = st.stage
                            /\ Decided(st, d).approved = st.approved
         /\ d = "refine" => /\ Decided(st, d).stage = STRATEGY_READY
                            /\ Decided(st, d).approved = {}
<1> DEFINE r == [st EXCEPT !.gates[st.stage] = d]
<1>1. /\ r \in PipelineState
      /\ r.stage = st.stage
      /\ r.approved = st.approved
      /\ r.gates = [st.gates EXCEPT ![st.stage] = d]
  BY DEF PipelineState, IsGated
<1> HIDE DEF r
<1>2. CASE d = "accept"
  <2>1. Decided(st, d) = [r EXCEPT !.stage = ToStage(st.stage),
                                   !.approved = @ \cup {st.stage},
                                   !.decided = st.stage]
    BY <1>2 DEF Decided, r
  <2>2. /\ ToStage(st.stage) \in PipelineStage
        /\ st.stage \in GatedStages
        /\ st.approved \cup {st.stage} \in SUBSET GatedStages
    BY DEF PipelineState, PipelineStage, ToStage, IsGated
  <2>3. Decided(st, d) \in PipelineState
    <3> DEFINE moved == [r EXCEPT !.stage = ToStage(st.stage)]
               opened == [moved EXCEPT !.approved = st.approved \cup {st.stage}]
    <3>1. moved \in PipelineState /\ moved.approved = st.approved
      BY <1>1, <2>2 DEF PipelineState
    <3>2. opened \in PipelineState
      <4> HIDE DEF moved
      <4>1. QED BY <2>2, <3>1 DEF PipelineState
    <3>3. Decided(st, d) = [opened EXCEPT !.decided = st.stage]
      BY <1>1, <2>1 DEF PipelineState
    <3> HIDE DEF opened
    <3>4. QED BY <2>2, <3>2, <3>3 DEF PipelineState
  <2>4. QED BY <1>1, <1>2, <2>1, <2>3 DEF PipelineState
<1>3. CASE d = "reject"
  <2>1. Decided(st, d) = [r EXCEPT !.decided = st.stage]
    BY <1>3 DEF Decided, r
  <2>2. st.stage \in GatedStages
    BY DEF IsGated
  <2>3. QED BY <1>1, <1>3, <2>1, <2>2 DEF PipelineState
<1>4. CASE d = "refine"
  <2>1. Decided(st, d) = [r EXCEPT !.stage = STRATEGY_READY, !.fresh = {},
                                   !.approved = {}, !.decided = 0]
    BY <1>4 DEF Decided, r
  <2>2. STRATEGY_READY \in PipelineStage
    BY DEF PipelineStage
  <2>3. QED BY <1>1, <1>4, <2>1, <2>2 DEF PipelineState
<1>5. QED BY <1>2, <1>3, <1>4 DEF Decisions

\* A first run starts from a state, which is not the absence of one.
LEMMA NewStateFacts ==
  /\ NewState \in PipelineState
  /\ NewState.stage = DATA_READY
  /\ NewState.approved = {}
  /\ NewState.gates = NoDecision
  /\ NoState \notin PipelineState
BY DEF NewState, NoState, NoDecision, PipelineState, PipelineStage

----------------------------------------------------------------------------
(* Type correctness.                                                       *)

\* A process that moves to a label with a state that fits it keeps TypeInv's part
\* about processes, whatever the others do.
LEMMA MoveFacts ==
  ASSUME TypeInv, NEW p \in Procs, NEW l \in PCs,
         NEW st \in PipelineState \cup {NoState},
         NEW c \in AllCommands \cup {"none"},
         Goto(p, l, st),
         cmd' = [cmd EXCEPT ![p] = c],
         LocalInv(l, st, c)
  PROVE  /\ pc' \in [Procs -> PCs]
         /\ mem' \in [Procs -> PipelineState \cup {NoState}]
         /\ cmd' \in [Procs -> AllCommands \cup {"none"}]
         /\ \A q \in Procs : LocalInv(pc'[q], mem'[q], cmd'[q])
<1>1. /\ pc' \in [Procs -> PCs]
      /\ mem' \in [Procs -> PipelineState \cup {NoState}]
      /\ cmd' \in [Procs -> AllCommands \cup {"none"}]
  BY DEF Goto, TypeInv, TypeOK
<1>2. ASSUME NEW q \in Procs PROVE LocalInv(pc'[q], mem'[q], cmd'[q])
  <2>1. CASE q = p
    BY <2>1 DEF Goto, TypeInv, TypeOK
  <2>2. CASE q # p
    <3>1. pc'[q] = pc[q] /\ mem'[q] = mem[q] /\ cmd'[q] = cmd[q]
      BY <2>2 DEF Goto, TypeInv, TypeOK
    <3>2. QED BY <3>1 DEF TypeInv
  <2>3. QED BY <2>1, <2>2
<1>3. QED BY <1>1, <1>2

\* The same when the process goes on with the command it runs.
LEMMA GotoFacts ==
  ASSUME TypeInv, NEW p \in Procs, NEW l \in PCs,
         NEW st \in PipelineState \cup {NoState},
         Goto(p, l, st),
         UNCHANGED cmd,
         LocalInv(l, st, cmd[p])
  PROVE  /\ pc' \in [Procs -> PCs]
         /\ mem' \in [Procs -> PipelineState \cup {NoState}]
         /\ cmd' \in [Procs -> AllCommands \cup {"none"}]
         /\ \A q \in Procs : LocalInv(pc'[q], mem'[q], cmd'[q])
<1>1. cmd' = [cmd EXCEPT ![p] = cmd[p]] /\ cmd[p] \in AllCommands \cup {"none"}
  BY DEF TypeInv, TypeOK
<1>2. QED BY <1>1, MoveFacts

\* A process that returns or is killed.
LEMMA ReturnFacts ==
  ASSUME TypeInv, NEW p \in Procs, Return(p)
  PROVE  /\ pc' \in [Procs -> PCs]
         /\ mem' \in [Procs -> PipelineState \cup {NoState}]
         /\ cmd' \in [Procs -> AllCommands \cup {"none"}]
         /\ attempt' \in [Procs -> 0 .. MaxAttempts]
         /\ result' \in [Procs -> {"none", "success", "skipped", "failed", "gave_up"}]
         /\ \A q \in Procs : LocalInv(pc'[q], mem'[q], cmd'[q])
<1>1. LocalInv("idle", NoState, "none") /\ "idle" \in PCs
  BY DEF LocalInv, Loaded, Executing, PCs
<1>2. /\ pc' \in [Procs -> PCs]
      /\ mem' \in [Procs -> PipelineState \cup {NoState}]
      /\ cmd' \in [Procs -> AllCommands \cup {"none"}]
      /\ \A q \in Procs : LocalInv(pc'[q], mem'[q], cmd'[q])
  BY <1>1, MoveFacts DEF Return
<1>3. /\ attempt' \in [Procs -> 0 .. MaxAttempts]
      /\ result' \in [Procs -> {"none", "success", "skipped", "failed", "gave_up"}]
  BY BoundsAssumption DEF Return, TypeInv, TypeOK
<1>4. QED BY <1>2, <1>3

\* The state a working process holds.
LEMMA Holding ==
  ASSUME TypeInv, NEW p \in Procs, pc[p] \in Loaded
  PROVE  /\ mem[p] \in PipelineState
         /\ pc[p] \in Executing => ~IsGated(mem[p].stage)
         /\ pc[p] = "decide" => cmd[p] \in Decisions /\ IsGated(mem[p].stage)
BY DEF TypeInv, LocalInv

\* The decisions are commands, and the three categories are all there is.
LEMMA Kinds ==
  /\ Decisions \subseteq AllCommands
  /\ Categories \subseteq AllCategories
BY CategoriesAssumption DEF Decisions, AllCommands

\* Before the first command nothing is on disk or in memory.
LEMMA TypeInit == Init => TypeInv
BY NewStateFacts, BoundsAssumption
   DEF Init, TypeInv, TypeOK, LocalInv, Loaded, Executing, PCs, NoDecision

\* No step of any invocation breaks the inductive invariant.
LEMMA TypeStep == TypeInv /\ [Next]_vars => TypeInv'
<1> SUFFICES ASSUME TypeInv, [Next]_vars PROVE TypeInv'
  OBVIOUS
<1> USE NewStateFacts, Kinds
<1>1. CASE UNCHANGED vars
  BY <1>1 DEF vars, TypeInv, TypeOK
<1>2. ASSUME NEW p \in Procs, StartRunBacktest(p) PROVE TypeInv'
  <2>1. LocalInv("check", NoState, "run_backtest")
    BY DEF LocalInv, Loaded, Executing
  <2>2. QED BY <1>2, <2>1, MoveFacts DEF StartRunBacktest, TypeInv, TypeOK, PCs, AllCommands
<1>3. ASSUME NEW p \in Procs, StartResumePipeline(p) PROVE TypeInv'
  <2>1. disk \in PipelineState
    BY <1>3 DEF StartResumePipeline, TypeInv, TypeOK
  <2>2. LocalInv("resumed", disk, "resume_pipeline")
    BY <2>1 DEF LocalInv, Loaded, Executing
  <2>3. QED BY <1>3, <2>1, <2>2, MoveFacts
    DEF StartResumePipeline, TypeInv, TypeOK, PCs, AllCommands
<1>4. ASSUME NEW p \in Procs, NEW d \in Decisions, LoadForDecision(p, d) PROVE TypeInv'
  <2>1. disk \in PipelineState /\ IsGated(disk.stage)
    BY <1>4 DEF LoadForDecision, TypeInv, TypeOK
  <2>2. LocalInv("decide", disk, d)
    BY <2>1 DEF LocalInv, Loaded, Executing
  <2>3. QED BY <1>4, <2>1, <2>2, MoveFacts DEF LoadForDecision, TypeInv, TypeOK, PCs
<1>5. ASSUME NEW p \in Procs, CheckPrevious(p) PROVE TypeInv'
  <2>1. \A l \in {"unlink", "open"} : LocalInv(l, NoState, cmd[p]) /\ l \in PCs
    BY DEF LocalInv, Loaded, Executing, PCs
  <2>2. QED BY <1>5, <2>1, GotoFacts DEF CheckPrevious, TypeInv, TypeOK
<1>6. ASSUME NEW p \in Procs, UnlinkState(p) PROVE TypeInv'
  <2>1. LocalInv("open", NoState, cmd[p]) /\ "open" \in PCs
    BY DEF LocalInv, Loaded, Executing, PCs
  <2>2. QED BY <1>6, <2>1, GotoFacts DEF UnlinkState, TypeInv, TypeOK, NoDecision
<1>7. ASSUME NEW p \in Procs, RunNew(p) PROVE TypeInv'
  <2>1. LocalInv("enter", NewState, cmd[p]) /\ "enter" \in PCs
    BY DEF LocalInv, Loaded, Executing, PCs
  <2>2. QED BY <1>7, <2>1, GotoFacts DEF RunNew, Save, TypeInv, TypeOK
<1>8. ASSUME NEW p \in Procs, ResumeLoad(p) PROVE TypeInv'
  <2>1. disk \in PipelineState
    BY <1>8 DEF ResumeLoad, TypeInv, TypeOK
  <2>2. LocalInv("resumed", disk, cmd[p]) /\ "resumed" \in PCs
    BY <2>1 DEF LocalInv, Loaded, Executing, PCs
  <2>3. QED BY <1>8, <2>1, <2>2, GotoFacts DEF ResumeLoad, TypeInv, TypeOK
<1>9. ASSUME NEW p \in Procs, ResumeSave(p) PROVE TypeInv'
  <2>1. mem[p] \in PipelineState
    BY <1>9, Holding DEF ResumeSave, Loaded
  <2>2. LocalInv("enter", mem[p], cmd[p]) /\ "enter" \in PCs
    BY <2>1 DEF LocalInv, Loaded, Executing, PCs
  <2>3. QED BY <1>9, <2>1, <2>2, GotoFacts DEF ResumeSave, Save, TypeInv, TypeOK
<1>10. ASSUME NEW p \in Procs, ResumeVerificationFails(p) PROVE TypeInv'
  <2>1. mem[p] \in PipelineState
    BY <1>10, Holding DEF ResumeVerificationFails, Loaded
  <2>2. [mem[p] EXCEPT !.error = "data_logic"] \in PipelineState
    BY <2>1, ErrorFacts DEF AllCategories
  <2>3. disk' \in PipelineState /\ Return(p) /\ Fault /\ acked' = acked
    BY <1>10, <2>2 DEF ResumeVerificationFails, Save
  <2>4. QED BY <2>3, ReturnFacts, BoundsAssumption DEF Fault, TypeInv, TypeOK
<1>11. ASSUME NEW p \in Procs, StopAtGate(p) PROVE TypeInv'
  <2>1. mem[p] \in PipelineState
    BY <1>11, Holding DEF StopAtGate, Loaded
  <2>2. QED BY <1>11, <2>1, ReturnFacts DEF StopAtGate, Save, TypeInv, TypeOK
<1>12. ASSUME NEW p \in Procs, SkipStage(p) PROVE TypeInv'
  <2>1. mem[p] \in PipelineState
    BY <1>12, Holding DEF SkipStage, Loaded
  <2>2. LocalInv("finish", Completed(mem[p], "skipped"), cmd[p]) /\ "finish" \in PCs
    BY <1>12, <2>1, CompletedFacts DEF SkipStage, LocalInv, PCs
  <2>3. QED BY <1>12, <2>1, <2>2, CompletedFacts, GotoFacts DEF SkipStage, TypeInv, TypeOK
<1>13. ASSUME NEW p \in Procs, BeginStage(p) PROVE TypeInv'
  <2>1. mem[p] \in PipelineState
    BY <1>13, Holding DEF BeginStage, Loaded
  <2>2. LocalInv("attempt", mem[p], cmd[p]) /\ "attempt" \in PCs
    BY <1>13, <2>1 DEF BeginStage, LocalInv, PCs
  <2>3. QED BY <1>13, <2>1, <2>2, GotoFacts, BoundsAssumption DEF BeginStage, TypeInv, TypeOK
<1>14. ASSUME NEW p \in Procs, AttemptSucceeds(p) PROVE TypeInv'
  <2>1. mem[p] \in PipelineState /\ ~IsGated(mem[p].stage)
    BY <1>14, Holding DEF AttemptSucceeds, Loaded, Executing
  <2>2. LocalInv("finish", Completed(mem[p], "success"), cmd[p]) /\ "finish" \in PCs
    BY <2>1, CompletedFacts DEF LocalInv, PCs
  <2>3. QED BY <1>14, <2>1, <2>2, CompletedFacts, GotoFacts DEF AttemptSucceeds, TypeInv, TypeOK
<1>15. ASSUME NEW p \in Procs, NEW c \in Categories, AttemptRaises(p, c) PROVE TypeInv'
  <2> DEFINE stopped == [mem[p] EXCEPT !.error = c]
             kept == IF c = "resource_pressure" THEN [stopped EXCEPT !.error = "none"]
                                                ELSE stopped
  <2>1. mem[p] \in PipelineState /\ ~IsGated(mem[p].stage)
    BY <1>15, Holding DEF AttemptRaises, Loaded, Executing
  <2>2. stopped \in PipelineState /\ stopped.stage = mem[p].stage
    BY <2>1, ErrorFacts
  <2>3. kept \in PipelineState /\ kept.stage = mem[p].stage
    BY <2>2, ErrorFacts
  <2>4. /\ disk' = stopped
        /\ faults' \in 0 .. MaxFaults
        /\ acked' = acked
    BY <1>15, BoundsAssumption DEF AttemptRaises, Save, Fault, TypeInv, TypeOK
  <2>5. \A l \in {"attempt", "finish"} : LocalInv(l, kept, cmd[p]) /\ l \in PCs
    BY <2>1, <2>3 DEF LocalInv, PCs
  <2> HIDE DEF stopped, kept
  <2>6. CASE /\ attempt[p] < MaxAttempts
             /\ Goto(p, "attempt", kept)
             /\ attempt' = [attempt EXCEPT ![p] = @ + 1]
             /\ UNCHANGED <<cmd, result>>
    <3>1. attempt' \in [Procs -> 0 .. MaxAttempts]
      BY <2>6, BoundsAssumption DEF TypeInv, TypeOK
    <3>2. QED BY <2>6, <3>1, <2>2, <2>3, <2>4, <2>5, GotoFacts DEF TypeInv, TypeOK
  <2>7. CASE /\ Goto(p, "finish", kept)
             /\ result' = [result EXCEPT ![p] = "gave_up"]
             /\ UNCHANGED <<cmd, attempt>>
    BY <2>7, <2>2, <2>3, <2>4, <2>5, GotoFacts DEF TypeInv, TypeOK
  <2>8. CASE Return(p)
    BY <2>8, <2>2, <2>4, ReturnFacts DEF TypeInv, TypeOK
  <2>9. QED BY <1>15, <2>6, <2>7, <2>8 DEF AttemptRaises, stopped, kept
<1>16. ASSUME NEW p \in Procs, NEW c \in Categories, AttemptReportsFailure(p, c) PROVE TypeInv'
  <2> DEFINE stopped == [mem[p] EXCEPT !.error = c]
             kept == IF c = "resource_pressure" THEN [stopped EXCEPT !.error = "none"]
                                                ELSE stopped
  <2>1. mem[p] \in PipelineState /\ ~IsGated(mem[p].stage)
    BY <1>16, Holding DEF AttemptReportsFailure, Loaded, Executing
  <2>2. stopped \in PipelineState /\ stopped.stage = mem[p].stage
    BY <2>1, ErrorFacts
  <2>3. kept \in PipelineState /\ kept.stage = mem[p].stage
    BY <2>2, ErrorFacts
  <2>4. LocalInv("failed", kept, cmd[p]) /\ "failed" \in PCs
    BY <2>1, <2>3 DEF LocalInv, PCs
  <2>5. /\ disk' = stopped
        /\ Goto(p, "failed", kept)
        /\ UNCHANGED <<cmd, attempt, result, acked>>
    BY <1>16 DEF AttemptReportsFailure, Save
  <2>6. faults' \in 0 .. MaxFaults
    BY <1>16, BoundsAssumption DEF AttemptReportsFailure, Fault, TypeInv, TypeOK
  <2> HIDE DEF stopped, kept
  <2>7. QED BY <2>2, <2>3, <2>4, <2>5, <2>6, GotoFacts DEF TypeInv, TypeOK
<1>17. ASSUME NEW p \in Procs, RecordFailure(p) PROVE TypeInv'
  <2> DEFINE st == Completed(mem[p], "failed")
  <2>1. mem[p] \in PipelineState /\ ~IsGated(mem[p].stage)
    BY <1>17, Holding DEF RecordFailure, Loaded, Executing
  <2>2. st \in PipelineState /\ st.stage = mem[p].stage
    BY <2>1, CompletedFacts
  <2>3. LocalInv("finish", st, cmd[p]) /\ "finish" \in PCs
    BY <2>1, <2>2 DEF LocalInv, PCs
  <2>4. disk' = st /\ UNCHANGED <<faults, acked>>
    BY <1>17 DEF RecordFailure, Save
  <2> HIDE DEF st
  <2>5. CASE Return(p)
    BY <2>5, <2>2, <2>4, ReturnFacts DEF TypeInv, TypeOK
  <2>6. CASE /\ Goto(p, "finish", st)
             /\ result' = [result EXCEPT ![p] = "failed"]
             /\ UNCHANGED <<cmd, attempt>>
    BY <2>6, <2>2, <2>3, <2>4, GotoFacts DEF TypeInv, TypeOK
  <2>7. QED BY <1>17, <2>5, <2>6 DEF RecordFailure, st
<1>18. ASSUME NEW p \in Procs, FinishWithError(p) PROVE TypeInv'
  BY <1>18, ReturnFacts DEF FinishWithError, TypeInv, TypeOK
<1>19. ASSUME NEW p \in Procs, FinishBlocked(p) PROVE TypeInv'
  <2>1. mem[p] \in PipelineState
    BY <1>19, Holding DEF FinishBlocked, Loaded
  <2>2. disk' \in PipelineState /\ Return(p) /\ acked' = acked
    BY <1>19, <2>1 DEF FinishBlocked, Save
  <2>3. faults' = faults \/ Fault
    BY <1>19 DEF FinishBlocked
  <2>4. faults' \in 0 .. MaxFaults
    BY <2>3, BoundsAssumption DEF Fault, TypeInv, TypeOK
  <2>5. QED BY <2>2, <2>4, ReturnFacts DEF TypeInv, TypeOK
<1>20. ASSUME NEW p \in Procs, FinishTransition(p) PROVE TypeInv'
  <2>1. mem[p] \in PipelineState
    BY <1>20, Holding DEF FinishTransition, Loaded
  <2>2. LocalInv("enter", Transitioned(mem[p]), cmd[p]) /\ "enter" \in PCs
    BY <2>1, TransitionedFacts DEF LocalInv, Executing, PCs
  <2>3. QED BY <1>20, <2>1, <2>2, TransitionedFacts, GotoFacts
    DEF FinishTransition, Save, TypeInv, TypeOK
<1>21. ASSUME NEW p \in Procs, SaveDecision(p) PROVE TypeInv'
  <2>1. mem[p] \in PipelineState /\ cmd[p] \in Decisions /\ IsGated(mem[p].stage)
    BY <1>21, Holding DEF SaveDecision, Loaded
  <2>2. disk' \in PipelineState
    BY <1>21, <2>1, DecidedFacts DEF SaveDecision, Save
  <2>3. acked' \in [GatedStages -> {"none"} \cup Decisions]
    BY <1>21, <2>1 DEF SaveDecision, TypeInv, TypeOK, IsGated
  <2>4. Return(p) /\ faults' = faults
    BY <1>21 DEF SaveDecision
  <2>5. QED BY <2>2, <2>3, <2>4, ReturnFacts DEF TypeInv, TypeOK
<1>22. ASSUME NEW p \in Procs, Crash(p) PROVE TypeInv'
  <2>1. faults' \in 0 .. MaxFaults
    BY <1>22, BoundsAssumption DEF Crash, Fault, TypeInv, TypeOK
  <2>2. QED BY <1>22, <2>1, ReturnFacts DEF Crash, TypeInv, TypeOK
<1>23. QED
  BY <1>1, <1>2, <1>3, <1>4, <1>5, <1>6, <1>7, <1>8, <1>9, <1>10, <1>11, <1>12, <1>13,
     <1>14, <1>15, <1>16, <1>17, <1>18, <1>19, <1>20, <1>21, <1>22 DEF Next, Step

\* An invocation past its load holds a full state, and one that executes a stage
\* holds one of an ungated stage, whatever the others do.
THEOREM TypeCorrect == Spec => []TypeInv
<1>1. Init => TypeInv
  BY TypeInit
<1>2. TypeInv /\ [Next]_vars => TypeInv'
  BY TypeStep
<1>3. QED BY <1>1, <1>2, PTL DEF Spec

\* Every state that any number of invocations reach is well-formed: the state file
\* never holds a stage, an outcome or a decision outside the graph.
THEOREM WellFormed == Spec => []TypeOK
BY TypeCorrect, PTL DEF TypeInv

----------------------------------------------------------------------------
(* No gate is bypassed.                                                    *)

\* Starting, moving automatically from an ungated stage, deciding a gate: none
\* gets past a gate that is not approved.
LEMMA GateFacts ==
  /\ GatesRespected(NoState)
  /\ GatesRespected(NewState)
  /\ \A st \in PipelineState : GatesRespected(st) /\ ~IsGated(st.stage)
                                => GatesRespected(Transitioned(st))
  /\ \A st \in PipelineState, d \in Decisions :
        GatesRespected(st) /\ IsGated(st.stage) => GatesRespected(Decided(st, d))
<1>1. GatesRespected(NoState) /\ GatesRespected(NewState)
  BY NewStateFacts DEF GatesRespected, NoState, GatedStages
<1>2. ASSUME NEW st \in PipelineState, GatesRespected(st), ~IsGated(st.stage)
      PROVE  GatesRespected(Transitioned(st))
  <2>1. st.stage \in PipelineStage
    BY DEF PipelineState
  <2>2. QED BY <1>2, <2>1, TransitionedFacts
    DEF GatesRespected, IsGated, GatedStages, ToStage, PipelineStage
<1>3. ASSUME NEW st \in PipelineState, NEW d \in Decisions,
             GatesRespected(st), IsGated(st.stage)
      PROVE  GatesRespected(Decided(st, d))
  <2> DEFINE u == Decided(st, d)
  <2>1. st.stage \in GatedStages
    BY <1>3 DEF IsGated
  <2>2. CASE d = "accept"
    <3>1. u.stage = ToStage(st.stage) /\ u.approved = st.approved \cup {st.stage}
      BY <1>3, <2>2, DecidedFacts
    <3> HIDE DEF u
    <3>2. \A g \in GatedStages : g < u.stage => g = st.stage \/ g < st.stage
      BY <2>1, <3>1 DEF GatedStages, ToStage
    <3>3. GatesRespected(u)
      BY <1>3, <3>1, <3>2 DEF GatesRespected
    <3>4. QED BY <3>3 DEF u
  <2>3. CASE d = "reject"
    BY <1>3, <2>3, DecidedFacts DEF GatesRespected
  <2>4. CASE d = "refine"
    <3>1. u.stage = STRATEGY_READY
      BY <1>3, <2>4, DecidedFacts
    <3> HIDE DEF u
    <3>2. GatesRespected(u)
      BY <3>1 DEF GatesRespected, GatedStages
    <3>3. QED BY <3>2 DEF u
  <2>5. QED BY <2>2, <2>3, <2>4 DEF Decisions
<1>4. QED BY <1>1, <1>2, <1>3

\* Only the stage and the approvals of a state matter.
LEMMA GatesCongruence ==
  ASSUME NEW st, NEW u, GatesRespected(st), u.stage = st.stage, u.approved = st.approved
  PROVE  GatesRespected(u)
BY DEF GatesRespected

\* Recording or clearing an error moves no state past a gate.
LEMMA GatesWithError ==
  ASSUME NEW st \in PipelineState, NEW e \in {"none"} \cup AllCategories,
         GatesRespected(st)
  PROVE  GatesRespected([st EXCEPT !.error = e])
BY ErrorFacts DEF GatesRespected

\* A step that saves a state past no unapproved gate and keeps such states in
\* memory keeps the invariant.
LEMMA GateMove ==
  ASSUME TypeInv, GateNotBypassed, NEW p \in Procs, NEW l, NEW st, Goto(p, l, st),
         GatesRespected(st), GatesRespected(disk')
  PROVE  GateNotBypassed'
<1>1. ASSUME NEW q \in Procs PROVE GatesRespected(mem'[q])
  BY DEF GateNotBypassed, Goto, TypeInv, TypeOK
<1>2. QED BY <1>1 DEF GateNotBypassed

\* The same when the process returns.
LEMMA GateReturn ==
  ASSUME TypeInv, GateNotBypassed, NEW p \in Procs, Return(p), GatesRespected(disk')
  PROVE  GateNotBypassed'
BY GateFacts, GateMove DEF Return

\* No step of any invocation gets a state past a gate that is not accepted.
LEMMA GateStep == TypeInv /\ GateNotBypassed /\ [Next]_vars => GateNotBypassed'
<1> SUFFICES ASSUME TypeInv, GateNotBypassed, [Next]_vars PROVE GateNotBypassed'
  OBVIOUS
<1> USE GateFacts
<1>0. GatesRespected(disk) /\ \A p \in Procs : GatesRespected(mem[p])
  BY DEF GateNotBypassed
<1>1. CASE UNCHANGED vars
  BY <1>1 DEF vars, GateNotBypassed
<1>2. ASSUME NEW p \in Procs, StartRunBacktest(p) PROVE GateNotBypassed'
  BY <1>0, <1>2, GateMove DEF StartRunBacktest
<1>3. ASSUME NEW p \in Procs, StartResumePipeline(p) PROVE GateNotBypassed'
  BY <1>0, <1>3, GateMove DEF StartResumePipeline
<1>4. ASSUME NEW p \in Procs, NEW d \in Decisions, LoadForDecision(p, d)
      PROVE  GateNotBypassed'
  BY <1>0, <1>4, GateMove DEF LoadForDecision
<1>5. ASSUME NEW p \in Procs, CheckPrevious(p) PROVE GateNotBypassed'
  BY <1>0, <1>5, GateMove DEF CheckPrevious
<1>6. ASSUME NEW p \in Procs, UnlinkState(p) PROVE GateNotBypassed'
  BY <1>0, <1>6, GateMove DEF UnlinkState
<1>7. ASSUME NEW p \in Procs, RunNew(p) PROVE GateNotBypassed'
  BY <1>0, <1>7, GateMove DEF RunNew, Save
<1>8. ASSUME NEW p \in Procs, ResumeLoad(p) PROVE GateNotBypassed'
  BY <1>0, <1>8, GateMove DEF ResumeLoad
<1>9. ASSUME NEW p \in Procs, ResumeSave(p) PROVE GateNotBypassed'
  BY <1>0, <1>9, GateMove DEF ResumeSave, Save
<1>10. ASSUME NEW p \in Procs, ResumeVerificationFails(p) PROVE GateNotBypassed'
  <2>1. mem[p] \in PipelineState
    BY <1>10, Holding DEF ResumeVerificationFails, Loaded
  <2>2. GatesRespected([mem[p] EXCEPT !.error = "data_logic"])
    BY <1>0, <2>1, GatesWithError DEF AllCategories
  <2>3. QED BY <1>10, <2>2, GateReturn DEF ResumeVerificationFails, Save
<1>11. ASSUME NEW p \in Procs, StopAtGate(p) PROVE GateNotBypassed'
  BY <1>0, <1>11, GateReturn DEF StopAtGate, Save
<1>12. ASSUME NEW p \in Procs, SkipStage(p) PROVE GateNotBypassed'
  <2>1. mem[p] \in PipelineState
    BY <1>12, Holding DEF SkipStage, Loaded
  <2>2. GatesRespected(Completed(mem[p], "skipped"))
    BY <1>0, <2>1, CompletedFacts, GatesCongruence
  <2>3. QED BY <1>0, <1>12, <2>2, GateMove DEF SkipStage
<1>13. ASSUME NEW p \in Procs, BeginStage(p) PROVE GateNotBypassed'
  BY <1>0, <1>13, GateMove DEF BeginStage
<1>14. ASSUME NEW p \in Procs, AttemptSucceeds(p) PROVE GateNotBypassed'
  <2>1. mem[p] \in PipelineState
    BY <1>14, Holding DEF AttemptSucceeds, Loaded
  <2>2. GatesRespected(Completed(mem[p], "success"))
    BY <1>0, <2>1, CompletedFacts, GatesCongruence
  <2>3. QED BY <1>0, <1>14, <2>2, GateMove DEF AttemptSucceeds
<1>15. ASSUME NEW p \in Procs, NEW c \in Categories,
              AttemptRaises(p, c) \/ AttemptReportsFailure(p, c)
       PROVE  GateNotBypassed'
  <2> DEFINE stopped == [mem[p] EXCEPT !.error = c]
             kept == IF c = "resource_pressure" THEN [stopped EXCEPT !.error = "none"]
                                                ELSE stopped
  <2>1. mem[p] \in PipelineState
    BY <1>15, Holding DEF AttemptRaises, AttemptReportsFailure, Loaded
  <2>2. stopped \in PipelineState /\ GatesRespected(stopped)
    BY <1>0, <2>1, Kinds, ErrorFacts, GatesWithError
  <2>3. GatesRespected(kept)
    BY <2>2, GatesWithError
  <2>4. /\ disk' = stopped
        /\ Return(p) \/ \E l \in PCs : Goto(p, l, kept)
    BY <1>15 DEF AttemptRaises, AttemptReportsFailure, Save, PCs
  <2> HIDE DEF stopped, kept
  <2>5. QED BY <2>2, <2>3, <2>4, GateMove, GateReturn
<1>16. ASSUME NEW p \in Procs, RecordFailure(p) PROVE GateNotBypassed'
  <2> DEFINE st == Completed(mem[p], "failed")
  <2>1. mem[p] \in PipelineState
    BY <1>16, Holding DEF RecordFailure, Loaded
  <2>2. GatesRespected(st)
    BY <1>0, <2>1, CompletedFacts, GatesCongruence
  <2>3. disk' = st /\ (Return(p) \/ Goto(p, "finish", st))
    BY <1>16 DEF RecordFailure, Save
  <2> HIDE DEF st
  <2>4. QED BY <2>2, <2>3, GateMove, GateReturn
<1>17. ASSUME NEW p \in Procs, FinishWithError(p) PROVE GateNotBypassed'
  BY <1>0, <1>17, GateReturn DEF FinishWithError
<1>18. ASSUME NEW p \in Procs, FinishBlocked(p) PROVE GateNotBypassed'
  <2>1. disk' = mem[p] /\ Return(p)
    BY <1>18 DEF FinishBlocked, Save
  <2>2. QED BY <1>0, <2>1, GateReturn
<1>19. ASSUME NEW p \in Procs, FinishTransition(p) PROVE GateNotBypassed'
  <2>1. mem[p] \in PipelineState /\ ~IsGated(mem[p].stage)
    BY <1>19, Holding DEF FinishTransition, Loaded, Executing
  <2>2. GatesRespected(Transitioned(mem[p]))
    BY <1>0, <2>1
  <2>3. QED BY <1>19, <2>2, GateMove DEF FinishTransition, Save
<1>20. ASSUME NEW p \in Procs, SaveDecision(p) PROVE GateNotBypassed'
  <2>1. mem[p] \in PipelineState /\ cmd[p] \in Decisions /\ IsGated(mem[p].stage)
    BY <1>20, Holding DEF SaveDecision, Loaded
  <2>2. GatesRespected(Decided(mem[p], cmd[p]))
    BY <1>0, <2>1
  <2>3. QED BY <1>20, <2>2, GateReturn DEF SaveDecision, Save
<1>21. ASSUME NEW p \in Procs, Crash(p) PROVE GateNotBypassed'
  BY <1>0, <1>21, GateReturn DEF Crash
<1>22. QED
  BY <1>1, <1>2, <1>3, <1>4, <1>5, <1>6, <1>7, <1>8, <1>9, <1>10, <1>11, <1>12, <1>13,
     <1>14, <1>15, <1>16, <1>17, <1>18, <1>19, <1>20, <1>21 DEF Next, Step

\* However many invocations overlap, retry, fail and are killed, no state in the
\* file or in memory is past a gate that was not accepted since the last refine.
THEOREM GatesHold == Spec => []GateNotBypassed
<1>1. Init => GateNotBypassed
  BY GateFacts DEF Init, GateNotBypassed
<1>2. TypeInv /\ GateNotBypassed /\ [Next]_vars => GateNotBypassed'
  BY GateStep
<1>3. QED BY <1>1, <1>2, TypeCorrect, PTL DEF Spec

----------------------------------------------------------------------------
(***************************************************************************)
(* One invocation alive at a time: what it holds in memory is what is in   *)
(* the file, but for what it has recorded since its load.                  *)
(***************************************************************************)

\* One invocation at a time.
Sole == \E p : Procs = {p}

\* What an invocation at label l, running command c with the copy st, knows of the file.
KnowsDisk(l, st, c) ==
  /\ l \in Loaded => /\ disk \in PipelineState
                     /\ st.stage = disk.stage
                     /\ st.approved = disk.approved
                     /\ st.gates = disk.gates
                     /\ NonRecoverable(disk) => NonRecoverable(st)
  /\ l = "resumed" => st = disk
  /\ l \in {"check", "unlink", "open", "attempt", "failed"} => c = "run_backtest"
  /\ l \in {"open", "resumed", "enter", "attempt"} /\ c = "run_backtest" =>
       disk = NoState \/ ~NonRecoverable(disk)

\* What the operator was told is what is recorded, also where there is no file.
Acknowledged == acked = IF disk = NoState THEN NoDecision ELSE disk.gates

\* The inductive invariant.
SoleInv ==
  /\ Acknowledged
  /\ \A p \in Procs : KnowsDisk(pc[p], mem[p], cmd[p])

----------------------------------------------------------------------------
(* What a step does to the file.                                           *)

\* The state is written again, with another record of what was executed.
Resaved ==
  /\ disk \in PipelineState /\ disk' \in PipelineState
  /\ disk'.stage = disk.stage /\ disk'.approved = disk.approved /\ disk'.gates = disk.gates
  /\ NonRecoverable(disk) => NonRecoverable(disk')
  /\ acked' = acked

Created == disk = NoState /\ disk' = NewState /\ acked' = acked

Advanced ==
  /\ disk \in PipelineState /\ disk' \in PipelineState
  /\ ~IsGated(disk.stage) /\ ~NonRecoverable(disk)
  /\ disk'.stage = ToStage(disk.stage)
  /\ disk'.approved = disk.approved /\ disk'.gates = disk.gates
  /\ acked' = acked

DecidedOn(d) ==
  /\ disk \in PipelineState /\ disk' \in PipelineState
  /\ IsGated(disk.stage)
  /\ NonRecoverable(disk) => NonRecoverable(disk')
  /\ disk'.gates = [disk.gates EXCEPT ![disk.stage] = d]
  /\ acked' = [acked EXCEPT ![disk.stage] = d]
  /\ d = "accept" => /\ disk'.stage = ToStage(disk.stage)
                     /\ disk'.approved = disk.approved \cup {disk.stage}
  /\ d = "reject" => disk'.stage = disk.stage /\ disk'.approved = disk.approved
  /\ d = "refine" => disk'.stage = STRATEGY_READY /\ disk'.approved = {}

Discarded == disk' = NoState /\ acked' = NoDecision

FileStep ==
  \/ UNCHANGED <<disk, acked>>
  \/ Resaved
  \/ Created
  \/ Advanced
  \/ \E d \in Decisions : DecidedOn(d)
  \/ Discarded

\* Whatever is done to the file, the operator still knows of every decision in it.
LEMMA AcknowledgedStep ==
  ASSUME TypeInv, Acknowledged, FileStep
  PROVE  Acknowledged'
<1> USE NewStateFacts
<1>1. CASE UNCHANGED <<disk, acked>>
  BY <1>1 DEF Acknowledged
<1>2. CASE Resaved
  BY <1>2 DEF Acknowledged, Resaved
<1>3. CASE Created
  BY <1>3 DEF Acknowledged, Created
<1>4. CASE Advanced
  BY <1>4 DEF Acknowledged, Advanced
<1>5. ASSUME NEW d \in Decisions, DecidedOn(d) PROVE Acknowledged'
  BY <1>5 DEF Acknowledged, DecidedOn
<1>6. CASE Discarded
  BY <1>6 DEF Acknowledged, Discarded
<1>7. QED BY <1>1, <1>2, <1>3, <1>4, <1>5, <1>6 DEF FileStep

----------------------------------------------------------------------------
(* Every step, with one invocation p.                                      *)

\* The error of a state is kept by all but the transition.
LEMMA ErrorKept ==
  ASSUME NEW st \in PipelineState
  PROVE  /\ \A o \in {"success", "skipped", "failed"} :
               NonRecoverable(st) => NonRecoverable(Completed(st, o))
         /\ \A d \in Decisions :
               NonRecoverable(st) => NonRecoverable(Decided(st, d))
<1>1. \A o \in {"success", "skipped", "failed"} : Completed(st, o).error = st.error
  BY CompletedFacts
<1>2. ASSUME NEW d \in Decisions PROVE Decided(st, d).error = st.error
  BY DEF Decided, Decisions, PipelineState
<1>3. QED BY <1>1, <1>2 DEF NonRecoverable

\* Where the invocation p is afterwards, and what it then knows, is all there is to show.
LEMMA SoleGoes ==
  ASSUME TypeInv, NEW p, Procs = {p}, SoleInv,
         FileStep, KnowsDisk(pc[p], mem[p], cmd[p])'
  PROVE  FileStep /\ SoleInv'
BY AcknowledgedStep DEF SoleInv

\* An invocation that returned, or was killed, knows nothing.
LEMMA SoleReturns ==
  ASSUME TypeInv, NEW p, Procs = {p}, SoleInv, FileStep, Return(p)
  PROVE  FileStep /\ SoleInv'
<1>1. pc'[p] = "idle"
  BY DEF Return, Goto, TypeInv, TypeOK
<1>2. KnowsDisk(pc[p], mem[p], cmd[p])'
  BY <1>1 DEF KnowsDisk, Loaded
<1>3. QED BY <1>2, SoleGoes

\* An invocation that saves what it has recorded since its load changes nothing
\* else in the file.
LEMMA SoleResaves ==
  ASSUME TypeInv, NEW p \in Procs, SoleInv, pc[p] \in Loaded,
         NEW st \in PipelineState, Save(st), UNCHANGED acked,
         st.stage = mem[p].stage, st.approved = mem[p].approved,
         st.gates = mem[p].gates,
         NonRecoverable(mem[p]) => NonRecoverable(st)
  PROVE  Resaved
BY DEF Resaved, SoleInv, KnowsDisk, Save

LEMMA SoleStep ==
  ASSUME TypeInv, NEW p, Procs = {p}, SoleInv, [Next]_vars
  PROVE  FileStep /\ SoleInv'
<1> USE NewStateFacts
<1>0. /\ p \in Procs /\ KnowsDisk(pc[p], mem[p], cmd[p])
      /\ pc \in [Procs -> PCs] /\ mem \in [Procs -> PipelineState \cup {NoState}]
      /\ cmd \in [Procs -> AllCommands \cup {"none"}]
      /\ disk \in PipelineState \cup {NoState}
  BY DEF SoleInv, TypeInv, TypeOK
<1>1. CASE UNCHANGED vars
  BY <1>1 DEF vars, FileStep, SoleInv, Acknowledged, KnowsDisk
<1>2. CASE StartRunBacktest(p)
  <2>1. KnowsDisk(pc[p], mem[p], cmd[p])'
    BY <1>0, <1>2 DEF StartRunBacktest, Goto, KnowsDisk, Loaded
  <2>2. QED BY <1>2, <2>1, SoleGoes DEF StartRunBacktest, FileStep
<1>3. CASE StartResumePipeline(p)
  <2>1. KnowsDisk(pc[p], mem[p], cmd[p])'
    BY <1>0, <1>3 DEF StartResumePipeline, Goto, KnowsDisk, Loaded
  <2>2. QED BY <1>3, <2>1, SoleGoes DEF StartResumePipeline, FileStep
<1>4. ASSUME NEW d \in Decisions, LoadForDecision(p, d) PROVE FileStep /\ SoleInv'
  <2>1. KnowsDisk(pc[p], mem[p], cmd[p])'
    BY <1>0, <1>4 DEF LoadForDecision, Goto, KnowsDisk, Loaded, Decisions
  <2>2. QED BY <1>4, <2>1, SoleGoes DEF LoadForDecision, FileStep
<1>5. CASE CheckPrevious(p)
  <2>1. KnowsDisk(pc[p], mem[p], cmd[p])'
    BY <1>0, <1>5 DEF CheckPrevious, Goto, KnowsDisk, Loaded
  <2>2. QED BY <1>5, <2>1, SoleGoes DEF CheckPrevious, FileStep
<1>6. CASE UnlinkState(p)
  <2>1. KnowsDisk(pc[p], mem[p], cmd[p])'
    BY <1>0, <1>6 DEF UnlinkState, Goto, KnowsDisk, Loaded
  <2>2. QED BY <1>6, <2>1, SoleGoes DEF UnlinkState, FileStep, Discarded
<1>7. CASE RunNew(p)
  <2>1. ~NonRecoverable(NewState)
    BY DEF NonRecoverable, NewState
  <2>2. KnowsDisk(pc[p], mem[p], cmd[p])'
    BY <1>0, <1>7, <2>1 DEF RunNew, Save, Goto, KnowsDisk, Loaded
  <2>3. FileStep
    BY <1>7 DEF RunNew, Save, FileStep, Created
  <2>4. QED BY <2>2, <2>3, SoleGoes
<1>8. CASE ResumeLoad(p)
  <2>1. KnowsDisk(pc[p], mem[p], cmd[p])'
    BY <1>0, <1>8 DEF ResumeLoad, Goto, KnowsDisk, Loaded
  <2>2. QED BY <1>8, <2>1, SoleGoes DEF ResumeLoad, FileStep
<1>9. CASE ResumeSave(p)
  <2>1. pc[p] \in Loaded /\ mem[p] = disk /\ mem[p] \in PipelineState
    BY <1>0, <1>9, Holding DEF ResumeSave, Loaded, KnowsDisk
  <2>2. FileStep
    BY <1>9, <2>1 DEF ResumeSave, Save, FileStep, Resaved
  <2>3. KnowsDisk(pc[p], mem[p], cmd[p])'
    BY <1>0, <1>9, <2>1 DEF ResumeSave, Save, Goto, KnowsDisk, Loaded
  <2>4. QED BY <2>2, <2>3, SoleGoes
<1>10. CASE ResumeVerificationFails(p)
  <2> DEFINE st == [mem[p] EXCEPT !.error = "data_logic"]
  <2>1. pc[p] \in Loaded /\ mem[p] \in PipelineState
    BY <1>0, <1>10, Holding DEF ResumeVerificationFails, Loaded
  <2>2. /\ st \in PipelineState
        /\ st.stage = mem[p].stage /\ st.approved = mem[p].approved
        /\ st.gates = mem[p].gates /\ NonRecoverable(st)
    BY <2>1, ErrorFacts DEF AllCategories, NonRecoverable, PipelineState
  <2>3. Save(st) /\ Return(p) /\ UNCHANGED acked
    BY <1>10 DEF ResumeVerificationFails
  <2> HIDE DEF st
  <2>4. Resaved
    BY <1>0, <2>1, <2>2, <2>3, SoleResaves
  <2>5. QED BY <2>3, <2>4, SoleReturns DEF FileStep
<1>11. CASE StopAtGate(p)
  <2>1. pc[p] \in Loaded /\ mem[p] \in PipelineState
    BY <1>0, <1>11, Holding DEF StopAtGate, Loaded
  <2>2. Save(mem[p]) /\ Return(p) /\ UNCHANGED acked
    BY <1>11 DEF StopAtGate
  <2>3. Resaved
    BY <1>0, <2>1, <2>2, SoleResaves
  <2>4. QED BY <2>2, <2>3, SoleReturns DEF FileStep
<1>12. CASE SkipStage(p)
  <2> DEFINE st == Completed(mem[p], "skipped")
  <2>1. mem[p] \in PipelineState
    BY <1>0, <1>12, Holding DEF SkipStage, Loaded
  <2>2. /\ st.stage = mem[p].stage /\ st.approved = mem[p].approved
        /\ st.gates = mem[p].gates
        /\ NonRecoverable(mem[p]) => NonRecoverable(st)
    BY <2>1, CompletedFacts DEF NonRecoverable
  <2>3. Goto(p, "finish", st) /\ pc[p] = "enter" /\ UNCHANGED <<disk, cmd, acked>>
    BY <1>12 DEF SkipStage
  <2> HIDE DEF st
  <2>4. KnowsDisk(pc[p], mem[p], cmd[p])'
    BY <1>0, <2>2, <2>3 DEF Goto, KnowsDisk, Loaded
  <2>5. QED BY <2>3, <2>4, SoleGoes DEF FileStep
<1>13. CASE BeginStage(p)
  <2>1. cmd[p] = "run_backtest"
    BY <1>13 DEF BeginStage, Executors
  <2>2. KnowsDisk(pc[p], mem[p], cmd[p])'
    BY <1>0, <1>13, <2>1 DEF BeginStage, Goto, KnowsDisk, Loaded
  <2>3. QED BY <1>13, <2>2, SoleGoes DEF BeginStage, FileStep
<1>14. CASE AttemptSucceeds(p)
  <2> DEFINE st == Completed(mem[p], "success")
  <2>1. mem[p] \in PipelineState
    BY <1>0, <1>14, Holding DEF AttemptSucceeds, Loaded
  <2>2. /\ st.stage = mem[p].stage /\ st.approved = mem[p].approved
        /\ st.gates = mem[p].gates
        /\ NonRecoverable(mem[p]) => NonRecoverable(st)
    BY <2>1, CompletedFacts DEF NonRecoverable
  <2>3. Goto(p, "finish", st) /\ pc[p] = "attempt" /\ UNCHANGED <<disk, cmd, acked>>
    BY <1>14 DEF AttemptSucceeds
  <2> HIDE DEF st
  <2>4. KnowsDisk(pc[p], mem[p], cmd[p])'
    BY <1>0, <2>2, <2>3 DEF Goto, KnowsDisk, Loaded
  <2>5. QED BY <2>3, <2>4, SoleGoes DEF FileStep
<1>15. ASSUME NEW c \in Categories, AttemptRaises(p, c) \/ AttemptReportsFailure(p, c)
       PROVE  FileStep /\ SoleInv'
  <2> DEFINE stopped == [mem[p] EXCEPT !.error = c]
             kept == IF c = "resource_pressure" THEN [stopped EXCEPT !.error = "none"]
                                                ELSE stopped
  <2>1. /\ pc[p] = "attempt" /\ mem[p] \in PipelineState
        /\ cmd[p] = "run_backtest" /\ ~NonRecoverable(disk)
        /\ disk \in PipelineState /\ mem[p].stage = disk.stage
        /\ mem[p].approved = disk.approved /\ mem[p].gates = disk.gates
    BY <1>0, <1>15, Holding DEF AttemptRaises, AttemptReportsFailure, KnowsDisk, Loaded
  <2>2. /\ stopped \in PipelineState /\ stopped.error = c
        /\ stopped.stage = disk.stage /\ stopped.approved = disk.approved
        /\ stopped.gates = disk.gates
    BY <2>1, Kinds, ErrorFacts DEF PipelineState
  <2>3. /\ kept.stage = disk.stage /\ kept.approved = disk.approved
        /\ kept.gates = disk.gates
        /\ c = "data_logic" => kept = stopped
    BY <2>2, ErrorFacts
  <2>4. disk' = stopped /\ acked' = acked
    BY <1>15 DEF AttemptRaises, AttemptReportsFailure, Save
  <2>5. \/ Return(p)
        \/ /\ UNCHANGED cmd
           /\ \/ Goto(p, "failed", kept) \/ Goto(p, "finish", kept)
              \/ c # "data_logic" /\ Goto(p, "attempt", kept)
    BY <1>15 DEF AttemptRaises, AttemptReportsFailure
  <2> HIDE DEF stopped, kept
  <2>6. FileStep
    BY <2>1, <2>2, <2>4 DEF FileStep, Resaved
  <2>7. NonRecoverable(stopped) => c = "data_logic" /\ NonRecoverable(kept)
    BY <2>2, <2>3 DEF NonRecoverable
  <2>8. ASSUME NEW l \in {"failed", "finish", "attempt"}, Goto(p, l, kept), UNCHANGED cmd,
               l = "attempt" => c # "data_logic"
        PROVE  KnowsDisk(pc[p], mem[p], cmd[p])'
    <3>1. pc'[p] = l /\ mem'[p] = kept /\ cmd'[p] = "run_backtest"
      BY <1>0, <2>1, <2>8 DEF Goto
    <3>2. QED BY <2>1, <2>2, <2>3, <2>4, <2>7, <2>8, <3>1 DEF KnowsDisk
  <2>9. QED BY <2>5, <2>6, <2>8, SoleGoes, SoleReturns
<1>16. CASE RecordFailure(p)
  <2> DEFINE st == Completed(mem[p], "failed")
  <2>1. pc[p] \in Loaded /\ mem[p] \in PipelineState
    BY <1>0, <1>16, Holding DEF RecordFailure, Loaded
  <2>2. /\ st \in PipelineState
        /\ st.stage = mem[p].stage /\ st.approved = mem[p].approved
        /\ st.gates = mem[p].gates
        /\ NonRecoverable(mem[p]) => NonRecoverable(st)
    BY <2>1, CompletedFacts DEF NonRecoverable
  <2>3. Save(st) /\ UNCHANGED acked
    BY <1>16 DEF RecordFailure
  <2> HIDE DEF st
  <2>4. FileStep
    BY <1>0, <2>1, <2>2, <2>3, SoleResaves DEF FileStep
  <2>5. CASE Goto(p, "finish", st) /\ UNCHANGED <<cmd, attempt>>
    <3>1. pc'[p] = "finish" /\ mem'[p] = st /\ disk' = st
      BY <1>0, <2>3, <2>5 DEF Goto, Save
    <3>2. KnowsDisk(pc[p], mem[p], cmd[p])'
      BY <2>2, <3>1 DEF KnowsDisk
    <3>3. QED BY <2>4, <3>2, SoleGoes
  <2>6. CASE Return(p)
    BY <2>4, <2>6, SoleReturns
  <2>7. QED BY <1>16, <2>5, <2>6 DEF RecordFailure, st
<1>17. CASE FinishWithError(p)
  BY <1>17, SoleReturns DEF FinishWithError, FileStep
<1>18. CASE FinishBlocked(p)
  <2>1. pc[p] \in Loaded /\ mem[p] \in PipelineState
    BY <1>0, <1>18, Holding DEF FinishBlocked, Loaded
  <2>2. Save(mem[p]) /\ Return(p) /\ UNCHANGED acked
    BY <1>18 DEF FinishBlocked
  <2>3. Resaved
    BY <1>0, <2>1, <2>2, SoleResaves
  <2>4. QED BY <2>2, <2>3, SoleReturns DEF FileStep
<1>19. CASE FinishTransition(p)
  <2> DEFINE st == Transitioned(mem[p])
  <2>1. /\ pc[p] = "finish" /\ mem[p].error = "none"
        /\ mem[p] \in PipelineState /\ ~IsGated(mem[p].stage)
    BY <1>0, <1>19, Holding DEF FinishTransition, PreconditionsMet, Loaded, Executing
  <2>2. /\ disk \in PipelineState /\ mem[p].stage = disk.stage
        /\ mem[p].approved = disk.approved /\ mem[p].gates = disk.gates
        /\ ~NonRecoverable(disk)
    BY <1>0, <2>1 DEF KnowsDisk, Loaded, NonRecoverable
  <2>3. /\ st \in PipelineState /\ st.stage = ToStage(disk.stage)
        /\ st.approved = disk.approved /\ st.gates = disk.gates
    BY <2>1, <2>2, TransitionedFacts
  <2>4. ~NonRecoverable(st)
    BY <2>1 DEF NonRecoverable, Transitioned, PipelineState
  <2>5. disk' = st /\ Goto(p, "enter", st) /\ UNCHANGED <<cmd, acked>>
    BY <1>19 DEF FinishTransition, Save
  <2> HIDE DEF st
  <2>6. FileStep
    BY <2>1, <2>2, <2>3, <2>5 DEF FileStep, Advanced
  <2>7. pc'[p] = "enter" /\ mem'[p] = st
    BY <1>0, <2>5 DEF Goto
  <2>8. KnowsDisk(pc[p], mem[p], cmd[p])'
    BY <2>3, <2>4, <2>5, <2>7 DEF KnowsDisk
  <2>9. QED BY <2>6, <2>8, SoleGoes
<1>20. CASE SaveDecision(p)
  <2> DEFINE st == Decided(mem[p], cmd[p])
  <2>1. /\ pc[p] = "decide" /\ mem[p] \in PipelineState
        /\ cmd[p] \in Decisions /\ IsGated(mem[p].stage)
    BY <1>0, <1>20, Holding DEF SaveDecision, Loaded
  <2>2. /\ disk \in PipelineState /\ mem[p].stage = disk.stage
        /\ mem[p].approved = disk.approved /\ mem[p].gates = disk.gates
        /\ NonRecoverable(disk) => NonRecoverable(mem[p])
    BY <1>0, <2>1 DEF KnowsDisk, Loaded
  <2>3. NonRecoverable(disk) => NonRecoverable(st)
    BY <2>1, <2>2, ErrorKept
  <2>4. /\ disk' = st /\ Return(p)
        /\ acked' = [acked EXCEPT ![mem[p].stage] = cmd[p]]
    BY <1>20 DEF SaveDecision, Save
  <2>5. /\ st \in PipelineState
        /\ st.gates = [disk.gates EXCEPT ![disk.stage] = cmd[p]]
        /\ cmd[p] = "accept" => /\ st.stage = ToStage(disk.stage)
                                /\ st.approved = disk.approved \cup {disk.stage}
        /\ cmd[p] = "reject" => st.stage = disk.stage /\ st.approved = disk.approved
        /\ cmd[p] = "refine" => st.stage = STRATEGY_READY /\ st.approved = {}
    BY <2>1, <2>2, DecidedFacts
  <2> HIDE DEF st
  <2>6. DecidedOn(cmd[p])
    BY <2>1, <2>2, <2>3, <2>4, <2>5 DEF DecidedOn
  <2>7. FileStep
    BY <2>1, <2>6 DEF FileStep
  <2>8. QED BY <2>4, <2>7, SoleReturns
<1>21. CASE Crash(p)
  BY <1>21, SoleReturns DEF Crash, FileStep
<1>22. QED
  BY <1>0, <1>1, <1>2, <1>3, <1>4, <1>5, <1>6, <1>7, <1>8, <1>9, <1>10, <1>11, <1>12, <1>13,
     <1>14, <1>15, <1>16, <1>17, <1>18, <1>19, <1>20, <1>21 DEF Next, Step

----------------------------------------------------------------------------
(* The theorems.                                                           *)

LEMMA SoleInit == ASSUME Init PROVE SoleInv
BY DEF Init, SoleInv, Acknowledged, KnowsDisk, Loaded

LEMMA SoleCorrect == Sole => (Spec => [](TypeInv /\ SoleInv))
<1> SUFFICES ASSUME Sole PROVE Spec => [](TypeInv /\ SoleInv)
  OBVIOUS
<1>1. Init => TypeInv /\ SoleInv
  BY TypeInit, SoleInit
<1>2. TypeInv /\ SoleInv /\ [Next]_vars => (TypeInv /\ SoleInv)'
  BY TypeStep, SoleStep DEF Sole
<1>3. QED BY <1>1, <1>2, PTL DEF Spec

\* With one invocation alive at a time, whatever is killed, retried or resumed, no
\* decision the operator was told is recorded is lost from the state file.
THEOREM DecisionsStay == Sole => (Spec => []DecisionsDurable)
<1> SUFFICES ASSUME Sole PROVE Spec => []DecisionsDurable
  OBVIOUS
<1>1. SoleInv => DecisionsDurable
  BY DEF SoleInv, Acknowledged, DecisionsDurable
<1>2. QED BY <1>1, SoleCorrect, PTL

\* With one invocation alive at a time a data/logic error leaves the state file
\* only together with the file.
THEOREM FatalSticks == Sole => (Spec => FatalErrorSticks)
<1> SUFFICES ASSUME Sole PROVE Spec => FatalErrorSticks
  OBVIOUS
<1>1. TypeInv /\ SoleInv /\ [Next]_vars
        => [disk # NoState /\ NonRecoverable(disk) /\ disk' # NoState
              => NonRecoverable(disk')]_disk
  <2> SUFFICES ASSUME TypeInv, SoleInv, [Next]_vars,
                      disk # NoState, NonRecoverable(disk), disk' # NoState
               PROVE  NonRecoverable(disk')
    OBVIOUS
  <2>1. FileStep
    BY SoleStep DEF Sole
  <2>2. QED BY <2>1 DEF FileStep, Resaved, Created, Advanced, DecidedOn, Discarded
<1>2. QED BY <1>1, SoleCorrect, PTL DEF FatalErrorSticks, Spec

\* With one invocation alive at a time the state file goes only through the moves
\* of ApprovedPipeline: every save maps to a move of it or to a stutter.
THEOREM Implements == Sole => (Spec => ImplementsApprovedPipeline)
<1> SUFFICES ASSUME Sole PROVE Spec => ImplementsApprovedPipeline
  OBVIOUS
<1> DEFINE approved == IF disk = NoState THEN {} ELSE disk.approved
<1>1. Init => Abstract!Init
  BY DEF Init, Abstract!Init, NoState
<1>2. TypeInv /\ SoleInv /\ [Next]_vars
        => [Abstract!Next]_<<disk.stage, approved>>
  <2> SUFFICES ASSUME TypeInv, SoleInv, [Next]_vars
               PROVE  [Abstract!Next]_<<disk.stage, approved>>
    OBVIOUS
  <2>1. FileStep
    BY SoleStep DEF Sole
  <2> USE NewStateFacts DEF Abstract!Next
  <2>2. CASE UNCHANGED <<disk, acked>>
    BY <2>2
  <2>3. CASE Resaved
    BY <2>3 DEF Resaved
  <2>4. CASE Created
    <3>1. /\ disk.stage = 0 /\ disk'.stage = 1
          /\ disk' # NoState /\ disk'.approved = {}
      BY <2>4 DEF Created, NoState
    <3>2. Abstract!Start
      BY <3>1 DEF Abstract!Start, Abstract!DATA_READY
    <3>3. QED BY <3>2
  <2>5. CASE Advanced
    <3>1. disk.stage \in PipelineStage
      BY <2>5 DEF Advanced, PipelineState
    <3>2. /\ disk.stage # 0 /\ ~Abstract!IsGated(disk.stage)
          /\ disk'.stage = Abstract!ToStage(disk.stage)
      BY <2>5, <3>1
         DEF Advanced, PipelineStage, ToStage, IsGated, GatedStages, Abstract!ToStage,
             Abstract!IsGated, Abstract!GatedStages, Abstract!REVIEW_PENDING,
             Abstract!SCORING_COMPLETE, Abstract!SELECTION_COMPLETE
    <3>3. disk # NoState /\ disk' # NoState /\ disk'.approved = disk.approved
      BY <2>5 DEF Advanced
    <3>4. Abstract!Proceed
      BY <3>2, <3>3 DEF Abstract!Proceed
    <3>5. QED BY <3>4
  <2>6. ASSUME NEW d \in Decisions, DecidedOn(d)
        PROVE  [Abstract!Next]_<<disk.stage, approved>>
    <3>1. Abstract!IsGated(disk.stage) /\ disk # NoState /\ disk' # NoState
      BY <2>6 DEF DecidedOn, IsGated, GatedStages, Abstract!IsGated, Abstract!GatedStages,
                  Abstract!REVIEW_PENDING, Abstract!SCORING_COMPLETE,
                  Abstract!SELECTION_COMPLETE
    <3>2. CASE d = "accept"
      <4>1. disk'.stage = Abstract!ToStage(disk.stage)
        BY <2>6, <3>2 DEF DecidedOn, ToStage, Abstract!ToStage, Abstract!SELECTION_COMPLETE
      <4>2. disk'.approved = disk.approved \cup {disk.stage}
        BY <2>6, <3>2 DEF DecidedOn
      <4>3. Abstract!Accept
        BY <3>1, <4>1, <4>2 DEF Abstract!Accept
      <4>4. QED BY <4>3
    <3>3. CASE d = "reject"
      BY <2>6, <3>1, <3>3 DEF DecidedOn
    <3>4. CASE d = "refine"
      <4>1. disk'.stage = Abstract!STRATEGY_READY /\ disk'.approved = {}
        BY <2>6, <3>4 DEF DecidedOn, Abstract!STRATEGY_READY
      <4>2. Abstract!Refine
        BY <3>1, <4>1 DEF Abstract!Refine
      <4>3. QED BY <4>2
    <3>5. QED BY <3>2, <3>3, <3>4 DEF Decisions
  <2>7. CASE Discarded
    <3>1. disk = NoState \/ disk.stage # 0
      BY DEF TypeInv, TypeOK, PipelineState, PipelineStage
    <3>2. disk'.stage = 0 /\ disk' = NoState
      BY <2>7 DEF Discarded, NoState
    <3>3. disk # NoState => Abstract!Discard
      BY <3>1, <3>2 DEF Abstract!Discard
    <3>4. disk = NoState => UNCHANGED <<disk.stage, approved>>
      BY <3>2
    <3>5. QED BY <3>3, <3>4
  <2>8. QED BY <2>1, <2>2, <2>3, <2>4, <2>5, <2>6, <2>7 DEF FileStep
<1>3. QED BY <1>1, <1>2, SoleCorrect, PTL DEF ImplementsApprovedPipeline, Abstract!Spec, Spec

----------------------------------------------------------------------------
(***************************************************************************)
(* An operator who never refines and never resumes.  Every copy of the     *)
(* state, whichever invocation made it, then has on its own what the       *)
(* review relies on, so that overlapping invocations do no harm to it.     *)
(***************************************************************************)

BacktestStages == {BACKTEST_RUNNING, BACKTEST_COMPLETE}

\* st was never refined: a backtest stage is behind it only with a success that still is
\* its last outcome, no gate ahead has a decision, and the gate it waits at has one
\* exactly if it was decided since st came to it.
Unrefined(st) ==
  /\ \A s \in BacktestStages : /\ st.done[s] # "skipped"
                               /\ st.done[s] = "success" <=> s \in st.fresh
                               /\ s < st.stage => s \in st.fresh
  /\ \A g \in GatedStages : g > st.stage => st.gates[g] = "none"
  /\ IsGated(st.stage) => (st.gates[st.stage] = "none" <=> st.decided # st.stage)

\* The inductive invariant.
InsistentInv ==
  operator = "insistent" =>
    /\ disk # NoState => Unrefined(disk)
    /\ \A p \in Procs :
         /\ cmd[p] \in InsistentCommands
         /\ pc[p] \in Loaded => Unrefined(mem[p])
         /\ pc[p] \notin {"idle", "decide"} => cmd[p] = "run_backtest"

LEMMA UnrefinedNew == Unrefined(NewState)
BY DEF Unrefined, NewState, BacktestStages, IsGated, GatedStages, PipelineStage

LEMMA UnrefinedError ==
  ASSUME NEW st \in PipelineState, Unrefined(st), NEW e \in {"none"} \cup AllCategories
  PROVE  Unrefined([st EXCEPT !.error = e])
<1> DEFINE r == [st EXCEPT !.error = e]
<1>1. /\ r.stage = st.stage /\ r.done = st.done /\ r.fresh = st.fresh
      /\ r.gates = st.gates /\ r.decided = st.decided
  BY DEF PipelineState
<1> HIDE DEF r
<1>2. Unrefined(r)
  BY <1>1 DEF Unrefined
<1>3. QED BY <1>2 DEF r

\* A stage is recorded where the strategy is, not behind it.
LEMMA UnrefinedCompleted ==
  ASSUME NEW st \in PipelineState, Unrefined(st), ~IsGated(st.stage),
         NEW o \in {"success", "skipped", "failed"},
         o = "skipped" => st.stage \notin BacktestStages
  PROVE  Unrefined(Completed(st, o))
<1> DEFINE r == Completed(st, o)
<1>1. /\ st.stage \in PipelineStage
      /\ st.done \in [PipelineStage -> {"none", "success", "skipped", "failed"}]
      /\ st.fresh \in SUBSET PipelineStage
  BY DEF PipelineState
<1>2. /\ r.stage = st.stage /\ r.gates = st.gates /\ r.decided = st.decided
      /\ r.done = [st.done EXCEPT ![st.stage] = o]
      /\ r.fresh = IF o = "success" THEN st.fresh \cup {st.stage} ELSE st.fresh \ {st.stage}
  BY DEF Completed, PipelineState
<1> HIDE DEF r
<1>3. ASSUME NEW s \in BacktestStages
      PROVE  /\ r.done[s] # "skipped"
             /\ r.done[s] = "success" <=> s \in r.fresh
             /\ s < r.stage => s \in r.fresh
  <2>1. s \in PipelineStage
    BY DEF BacktestStages, PipelineStage
  <2>2. CASE s = st.stage
    BY <1>1, <1>2, <2>1, <2>2 DEF PipelineStage
  <2>3. CASE s # st.stage
    <3>1. r.done[s] = st.done[s] /\ (s \in r.fresh <=> s \in st.fresh)
      BY <1>1, <1>2, <2>1, <2>3
    <3>2. QED BY <1>2, <3>1 DEF Unrefined
  <2>4. QED BY <2>2, <2>3
<1>4. Unrefined(r)
  BY <1>2, <1>3 DEF Unrefined
<1>5. QED BY <1>4 DEF r

\* A backtest stage is left only with a success.
LEMMA UnrefinedTransitioned ==
  ASSUME NEW st \in PipelineState, Unrefined(st), ~IsGated(st.stage),
         PreconditionsMet(st, TRUE)
  PROVE  Unrefined(Transitioned(st))
<1> DEFINE r == Transitioned(st)
<1>1. /\ st.stage \in PipelineStage /\ st.stage # SELECTION_COMPLETE
  BY DEF PipelineState, IsGated, GatedStages
<1>2. /\ r.stage = st.stage + 1 /\ r.done = st.done /\ r.fresh = st.fresh
      /\ r.gates = st.gates /\ r.decided = 0
  BY <1>1 DEF Transitioned, ToStage, PipelineState
<1> HIDE DEF r
<1>3. ASSUME NEW s \in BacktestStages, s < r.stage PROVE s \in r.fresh
  <2>1. CASE s < st.stage
    BY <1>2, <2>1 DEF Unrefined
  <2>2. CASE s = st.stage
    BY <1>2, <2>2 DEF Unrefined, PreconditionsMet
  <2>3. QED BY <1>1, <1>2, <1>3, <2>1, <2>2 DEF BacktestStages, PipelineStage
<1>4. \A g \in GatedStages : /\ g > r.stage => r.gates[g] = "none"
                             /\ g = r.stage => r.gates[g] = "none" /\ r.decided # g
  BY <1>1, <1>2 DEF Unrefined, GatedStages, PipelineStage
<1>5. Unrefined(r)
  BY <1>2, <1>3, <1>4 DEF Unrefined, IsGated
<1>6. QED BY <1>5 DEF r

\* A decision is recorded for the gate the strategy waits at.
LEMMA UnrefinedDecided ==
  ASSUME NEW st \in PipelineState, Unrefined(st), IsGated(st.stage),
         NEW d \in {"accept", "reject"}
  PROVE  Unrefined(Decided(st, d))
<1> DEFINE r == Decided(st, d)
<1>1. /\ st.stage \in GatedStages /\ st.stage \in PipelineStage
      /\ st.gates \in [GatedStages -> {"none"} \cup Decisions]
  BY DEF PipelineState, IsGated
<1>2. /\ r.gates = [st.gates EXCEPT ![st.stage] = d]
      /\ r.stage = IF d = "accept" THEN ToStage(st.stage) ELSE st.stage
  BY DecidedFacts DEF Decisions
<1>3. r.done = st.done /\ r.fresh = st.fresh /\ r.decided = st.stage
  BY DEF Decided, PipelineState
<1> HIDE DEF r
<1>4. \A s \in BacktestStages : s < r.stage => s < st.stage
  BY <1>1, <1>2 DEF BacktestStages, GatedStages, ToStage
<1>5. \A g \in GatedStages : g > r.stage => g > st.stage /\ g # st.stage
  BY <1>1, <1>2 DEF GatedStages, ToStage
<1>6. r.gates[st.stage] = d /\ \A g \in GatedStages \ {st.stage} : r.gates[g] = st.gates[g]
  BY <1>1, <1>2
<1>7. IsGated(r.stage) => r.stage = st.stage
  BY <1>1, <1>2 DEF IsGated, GatedStages, ToStage
<1>8. Unrefined(r)
  BY <1>3, <1>4, <1>5, <1>6, <1>7 DEF Unrefined
<1>9. QED BY <1>8 DEF r

----------------------------------------------------------------------------
\* Where the invocation p goes with its copy, and what it saves, is all there is to show.
LEMMA InsistentGoes ==
  ASSUME TypeInv, InsistentInv, operator = "insistent", NEW p \in Procs, NEW l, NEW st,
         NEW c \in InsistentCommands, Goto(p, l, st), cmd' = [cmd EXCEPT ![p] = c],
         disk' = disk \/ disk' = NoState \/ Unrefined(disk'),
         l \in Loaded => Unrefined(st),
         l \notin {"idle", "decide"} => c = "run_backtest"
  PROVE  InsistentInv'
<1>1. disk' # NoState => Unrefined(disk')
  BY DEF InsistentInv
<1>2. ASSUME NEW q \in Procs
      PROVE  /\ cmd'[q] \in InsistentCommands
             /\ pc'[q] \in Loaded => Unrefined(mem'[q])
             /\ pc'[q] \notin {"idle", "decide"} => cmd'[q] = "run_backtest"
  <2>1. CASE q = p
    BY <2>1 DEF Goto, TypeInv, TypeOK
  <2>2. CASE q # p
    <3>1. pc'[q] = pc[q] /\ mem'[q] = mem[q] /\ cmd'[q] = cmd[q]
      BY <2>2 DEF Goto, TypeInv, TypeOK
    <3>2. QED BY <3>1 DEF InsistentInv
  <2>3. QED BY <2>1, <2>2
<1>3. QED BY <1>1, <1>2 DEF InsistentInv, Unrefined

LEMMA InsistentStays ==
  ASSUME TypeInv, InsistentInv, operator = "insistent", NEW p \in Procs, NEW l, NEW st,
         Goto(p, l, st), UNCHANGED cmd,
         disk' = disk \/ disk' = NoState \/ Unrefined(disk'),
         l \in Loaded => Unrefined(st),
         l \notin {"idle", "decide"} => cmd[p] = "run_backtest"
  PROVE  InsistentInv'
<1>1. cmd' = [cmd EXCEPT ![p] = cmd[p]] /\ cmd[p] \in InsistentCommands
  BY DEF TypeInv, TypeOK, InsistentInv
<1>2. QED BY <1>1, InsistentGoes

LEMMA InsistentReturns ==
  ASSUME TypeInv, InsistentInv, operator = "insistent", NEW p \in Procs, Return(p),
         disk' = disk \/ disk' = NoState \/ Unrefined(disk')
  PROVE  InsistentInv'
<1>1. "none" \in InsistentCommands /\ "idle" \notin Loaded
  BY DEF InsistentCommands, Loaded
<1>2. Goto(p, "idle", NoState) /\ cmd' = [cmd EXCEPT ![p] = "none"]
  BY DEF Return
<1>3. QED BY <1>1, <1>2, InsistentGoes

LEMMA InsistentStep ==
  ASSUME TypeInv, InsistentInv, [OperatorNext]_<<vars, operator>>
  PROVE  InsistentInv'
<1>1. CASE UNCHANGED <<vars, operator>>
  BY <1>1 DEF InsistentInv, vars
<1> SUFFICES ASSUME OperatorNext, operator = "insistent" PROVE InsistentInv'
  BY <1>1 DEF OperatorNext, InsistentInv
<1>2. PICK p \in Procs :
        \/ StartRunBacktest(p) \/ StartResumePipeline(p)
        \/ \E d \in Decisions : LoadForDecision(p, d)
        \/ Step(p) \/ Crash(p)
  BY DEF OperatorNext, Next
<1>3. /\ disk # NoState => Unrefined(disk) /\ disk \in PipelineState
      /\ cmd'[p] \in InsistentCommands
      /\ pc[p] \in Loaded => Unrefined(mem[p]) /\ mem[p] \in PipelineState
      /\ pc[p] \in Executing => ~IsGated(mem[p].stage)
      /\ pc[p] \notin {"idle", "decide"} => cmd[p] = "run_backtest"
      /\ cmd \in [Procs -> AllCommands \cup {"none"}]
  <2>1. /\ disk \in PipelineState \cup {NoState}
        /\ cmd \in [Procs -> AllCommands \cup {"none"}]
    BY DEF TypeInv, TypeOK
  <2>2. /\ disk # NoState => Unrefined(disk)
        /\ pc[p] \in Loaded => Unrefined(mem[p])
        /\ pc[p] \notin {"idle", "decide"} => cmd[p] = "run_backtest"
    BY DEF InsistentInv
  <2>3. cmd'[p] \in InsistentCommands
    BY DEF OperatorNext
  <2>4. /\ pc[p] \in Loaded => mem[p] \in PipelineState
        /\ pc[p] \in Executing => ~IsGated(mem[p].stage)
    BY Holding DEF Executing, Loaded
  <2>5. QED BY <2>1, <2>2, <2>3, <2>4
<1>4. CASE StartRunBacktest(p)
  <2>1. "run_backtest" \in InsistentCommands /\ "check" \notin Loaded
    BY DEF InsistentCommands, Loaded
  <2>2. QED BY <1>4, <2>1, InsistentGoes DEF StartRunBacktest
<1>5. CASE StartResumePipeline(p)
  <2>1. cmd'[p] = "resume_pipeline"
    BY <1>3, <1>5 DEF StartResumePipeline
  <2>2. QED BY <1>3, <2>1 DEF InsistentCommands
<1>6. ASSUME NEW d \in Decisions, LoadForDecision(p, d) PROVE InsistentInv'
  <2>1. cmd'[p] = d
    BY <1>3, <1>6 DEF LoadForDecision
  <2>2. QED BY <1>3, <1>6, <2>1, InsistentGoes DEF LoadForDecision
<1>7. CASE CheckPrevious(p)
  <2>1. "open" \notin Loaded /\ "unlink" \notin Loaded
    BY DEF Loaded
  <2>2. cmd[p] = "run_backtest"
    BY <1>3, <1>7 DEF CheckPrevious
  <2>3. QED BY <1>7, <2>1, <2>2, InsistentStays DEF CheckPrevious
<1>8. CASE UnlinkState(p)
  <2>1. "open" \notin Loaded /\ cmd[p] = "run_backtest"
    BY <1>3, <1>8 DEF UnlinkState, Loaded
  <2>2. QED BY <1>8, <2>1, InsistentStays DEF UnlinkState
<1>9. CASE RunNew(p)
  <2>1. cmd[p] = "run_backtest"
    BY <1>3, <1>9 DEF RunNew
  <2>2. QED BY <1>9, <2>1, UnrefinedNew, InsistentStays DEF RunNew, Save
<1>10. CASE ResumeLoad(p)
  <2>1. cmd[p] = "run_backtest"
    BY <1>3, <1>10 DEF ResumeLoad
  <2>2. QED BY <1>3, <1>10, <2>1, InsistentStays DEF ResumeLoad
<1>11. CASE ResumeSave(p)
  <2>1. cmd[p] = "run_backtest" /\ Unrefined(mem[p])
    BY <1>3, <1>11 DEF ResumeSave, Loaded
  <2>2. QED BY <1>11, <2>1, InsistentStays DEF ResumeSave, Save
<1>12. CASE ResumeVerificationFails(p)
  <2> DEFINE stopped == [mem[p] EXCEPT !.error = "data_logic"]
  <2>1. mem[p] \in PipelineState /\ Unrefined(mem[p])
    BY <1>3, <1>12 DEF ResumeVerificationFails, Loaded
  <2>2. Unrefined(stopped)
    BY <2>1, UnrefinedError DEF AllCategories
  <2>3. disk' = stopped /\ Return(p)
    BY <1>12 DEF ResumeVerificationFails, Save
  <2> HIDE DEF stopped
  <2>4. QED BY <2>2, <2>3, InsistentReturns
<1>13. CASE StopAtGate(p)
  <2>1. Unrefined(mem[p])
    BY <1>3, <1>13 DEF StopAtGate, Loaded
  <2>2. QED BY <1>13, <2>1, InsistentReturns DEF StopAtGate, Save
<1>14. CASE SkipStage(p)
  <2>1. /\ mem[p] \in PipelineState /\ Unrefined(mem[p]) /\ ~IsGated(mem[p].stage)
        /\ cmd[p] = "run_backtest"
    BY <1>3, <1>14 DEF SkipStage, Loaded
  <2>2. mem[p].stage \notin BacktestStages
    BY <1>14, <2>1 DEF SkipStage, Executors, BacktestStages
  <2>3. Unrefined(Completed(mem[p], "skipped"))
    BY <2>1, <2>2, UnrefinedCompleted
  <2>4. QED BY <1>14, <2>1, <2>3, InsistentStays DEF SkipStage
<1>15. CASE BeginStage(p)
  <2>1. Unrefined(mem[p]) /\ cmd[p] = "run_backtest"
    BY <1>3, <1>15 DEF BeginStage, Loaded
  <2>2. QED BY <1>15, <2>1, InsistentStays DEF BeginStage
<1>16. CASE AttemptSucceeds(p)
  <2>1. /\ mem[p] \in PipelineState /\ Unrefined(mem[p]) /\ ~IsGated(mem[p].stage)
        /\ cmd[p] = "run_backtest"
    BY <1>3, <1>16 DEF AttemptSucceeds, Loaded, Executing
  <2>2. Unrefined(Completed(mem[p], "success"))
    BY <2>1, UnrefinedCompleted
  <2>3. QED BY <1>16, <2>1, <2>2, InsistentStays DEF AttemptSucceeds
<1>17. ASSUME NEW c \in Categories, AttemptRaises(p, c) \/ AttemptReportsFailure(p, c)
       PROVE  InsistentInv'
  <2> DEFINE stopped == [mem[p] EXCEPT !.error = c]
             kept == IF c = "resource_pressure" THEN [stopped EXCEPT !.error = "none"]
                                                ELSE stopped
  <2>1. mem[p] \in PipelineState /\ Unrefined(mem[p]) /\ cmd[p] = "run_backtest"
    BY <1>3, <1>17 DEF AttemptRaises, AttemptReportsFailure, Loaded
  <2>2. stopped \in PipelineState /\ Unrefined(stopped)
    BY <2>1, Kinds, ErrorFacts, UnrefinedError
  <2>3. Unrefined(kept)
    BY <2>2, UnrefinedError
  <2>4. disk' = stopped
    BY <1>17 DEF AttemptRaises, AttemptReportsFailure, Save
  <2>5. \/ Return(p)
        \/ \E l \in {"attempt", "failed", "finish"} : Goto(p, l, kept) /\ UNCHANGED cmd
    BY <1>17 DEF AttemptRaises, AttemptReportsFailure
  <2> HIDE DEF stopped, kept
  <2>6. QED BY <2>1, <2>2, <2>3, <2>4, <2>5, InsistentReturns, InsistentStays
<1>18. CASE RecordFailure(p)
  <2> DEFINE st == Completed(mem[p], "failed")
  <2>1. /\ mem[p] \in PipelineState /\ Unrefined(mem[p]) /\ ~IsGated(mem[p].stage)
        /\ cmd[p] = "run_backtest"
    BY <1>3, <1>18 DEF RecordFailure, Loaded, Executing
  <2>2. Unrefined(st)
    BY <2>1, UnrefinedCompleted
  <2>3. /\ disk' = st
        /\ Return(p) \/ (Goto(p, "finish", st) /\ UNCHANGED cmd)
    BY <1>18 DEF RecordFailure, Save
  <2> HIDE DEF st
  <2>4. QED BY <2>1, <2>2, <2>3, InsistentReturns, InsistentStays
<1>19. CASE FinishWithError(p)
  BY <1>19, InsistentReturns DEF FinishWithError
<1>20. CASE FinishBlocked(p)
  <2>1. Unrefined(mem[p])
    BY <1>3, <1>20 DEF FinishBlocked, Loaded
  <2>2. QED BY <1>20, <2>1, InsistentReturns DEF FinishBlocked, Save
<1>21. CASE FinishTransition(p)
  <2> DEFINE st == Transitioned(mem[p])
  <2>1. /\ mem[p] \in PipelineState /\ Unrefined(mem[p]) /\ ~IsGated(mem[p].stage)
        /\ cmd[p] = "run_backtest" /\ PreconditionsMet(mem[p], TRUE)
    BY <1>3, <1>21 DEF FinishTransition, Loaded, Executing
  <2>2. Unrefined(st)
    BY <2>1, UnrefinedTransitioned
  <2>3. disk' = st /\ Goto(p, "enter", st) /\ UNCHANGED cmd
    BY <1>21 DEF FinishTransition, Save
  <2> HIDE DEF st
  <2>4. QED BY <2>1, <2>2, <2>3, InsistentStays
<1>22. CASE SaveDecision(p)
  <2>1. /\ mem[p] \in PipelineState /\ Unrefined(mem[p]) /\ IsGated(mem[p].stage)
        /\ cmd[p] \in Decisions /\ cmd[p] \in InsistentCommands
    BY <1>3, <1>22, Holding DEF SaveDecision, Loaded, InsistentInv
  <2>2. Unrefined(Decided(mem[p], cmd[p]))
    BY <2>1, UnrefinedDecided DEF Decisions, InsistentCommands
  <2>3. QED BY <1>22, <2>2, InsistentReturns DEF SaveDecision, Save
<1>23. CASE Crash(p)
  BY <1>23, InsistentReturns DEF Crash
<1>24. QED
  BY <1>2, <1>4, <1>5, <1>6, <1>7, <1>8, <1>9, <1>10, <1>11, <1>12, <1>13, <1>14, <1>15,
     <1>16, <1>17, <1>18, <1>19, <1>20, <1>21, <1>22, <1>23 DEF Step

LEMMA InsistentInit == OperatorInit => InsistentInv
BY DEF OperatorInit, Init, InsistentInv, InsistentCommands, Loaded

(* Under an operator who never refines and never resumes, for any number   *)
(* of overlapping invocations, failures and kills: no strategy is under    *)
(* review, or past it, whose backtest has not run with success, and the    *)
(* status asks for a decision exactly when one is due (_execute_stages,    *)
(* GateManager.advance and get_status).                                    *)
THEOREM ReviewedAfterBacktest == OperatorSpec => []ReviewWithoutRefine
<1>1. OperatorInit => TypeInv /\ InsistentInv
  BY TypeInit, InsistentInit DEF OperatorInit
<1>2. TypeInv /\ InsistentInv /\ [OperatorNext]_<<vars, operator>> => (TypeInv /\ InsistentInv)'
  <2>1. [OperatorNext]_<<vars, operator>> => [Next]_vars
    BY DEF OperatorNext
  <2>2. QED BY <2>1, TypeStep, InsistentStep
<1>3. TypeInv /\ InsistentInv => ReviewWithoutRefine
  <2> SUFFICES ASSUME TypeInv, InsistentInv, operator = "insistent"
               PROVE  BacktestedBeforeReview /\ StatusAsksForDecision
    BY DEF ReviewWithoutRefine
  <2>1. CASE disk = NoState
    BY <2>1 DEF BacktestedBeforeReview, StatusAsksForDecision, NoState
  <2>2. CASE disk # NoState
    <3>1. disk \in PipelineState /\ Unrefined(disk)
      BY <2>2 DEF TypeInv, TypeOK, InsistentInv
    <3>2. BacktestedBeforeReview
      BY <3>1 DEF Unrefined, BacktestedBeforeReview, BacktestStages, PipelineState,
                  PipelineStage
    <3>3. StatusAsksForDecision
      BY <3>1 DEF Unrefined, StatusAsksForDecision, DecisionRequired
    <3>4. QED BY <3>2, <3>3
  <2>3. QED BY <2>1, <2>2
<1>4. QED BY <1>1, <1>2, <1>3, PTL DEF OperatorSpec
=============================================================================
