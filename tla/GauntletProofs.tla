-------------------------- MODULE GauntletProofs --------------------------
(***************************************************************************)
(* Theorems about Gauntlet, for any candidates, lists of any length, and   *)
(* any number of runs and failures; and about ValidationWindows, for any   *)
(* length of the data, any number of folds, windows or groups, any purge   *)
(* and embargo and any scores: training is apart from testing, no bar is   *)
(* tested twice, and the gate of the combinations follows their ranks;     *)
(* and about Selection, for any tables, results and configurations: what   *)
(* is selected has passed its gates, and is as many, as good and as        *)
(* diverse as the survivors allow.                                         *)
(***************************************************************************)
EXTENDS MCGauntlet, FiniteSetTheorems, WellFoundedInduction, TLAPS

\* The list being validated is a promoted one, and the run is within it.
Control ==
  /\ pc # "down" => list \in Lists
  /\ pc \in {"stage", "save"} => Len(finished) < Len(list)
  /\ pc = "manifest" => Len(finished) = Len(list)
  /\ pc = "save" => at <= Len(StageOrder)

\* The inductive invariant behind the type invariant.
TypeInv == TypeOK /\ Control

\* R has every stage of S for the parameters p.
Covers(R, p, S) == \A s \in S : <<p, s>> \in R

FirstStages(n) == {StageOrder[k] : k \in 1 .. n}

\* What a checkpoint has at a position was run on the candidate of that position.
SoundProgress(R, saved) ==
  \A l \in Lists : \A i \in 1 .. Len(l) : i <= Len(saved) => Covers(R, l[i], saved[i])

\* A candidate the run is done with has its stages, and all of them unless it is overfit.
SoundResult(R, p, result) ==
  /\ Covers(R, p, result.stages)
  /\ p \in Overfit \/ Covers(R, p, Stages)

\* The first n stages were run on the current candidate, or it is overfit; a sound
\* candidate has no failed gate.
SoundCurrent(n) ==
  /\ Covers(ran, list[Current], cv.stages)
  /\ \/ list[Current] \in Overfit
     \/ (cv.failures = {} /\ Covers(ran, list[Current], FirstStages(n)))

\* The inductive invariant behind the two coverage properties.
CoverageInv ==
  /\ SoundProgress(ran, progress)
  /\ SoundProgress(ran, resumed)
  /\ pc # "down" =>
       \A i \in 1 .. Len(finished) : SoundResult(ran, list[i], finished[i])
  /\ pc = "stage" => SoundCurrent(at - 1)
  /\ pc = "save" => SoundCurrent(at)
  /\ EveryStageRan

\* After n stages, run or passed over, the candidate c with parameters p has failed
\* no gate and run them all, or has run none after the failed CPCV gate.
GatedUpTo(p, c, n) ==
  IF p \in Overfit /\ n >= 3
  THEN /\ c.failures = {"cpcv"} /\ c.stages = FirstStages(3)
       /\ n = 3 \/ (n = 5 /\ c.short_circuited)
  ELSE c.failures = {} /\ c.stages = FirstStages(n) /\ ~c.short_circuited

\* The inductive invariant behind the validity gate of a run that resumed nothing.
FreshInv ==
  resumed = NoProgress /\ pc # "down" =>
    /\ \A i \in 1 .. Len(finished) : GatedUpTo(list[i], finished[i], 5)
    /\ pc = "stage" => GatedUpTo(list[Current], cv, at - 1)
    /\ pc = "save" => GatedUpTo(list[Current], cv, at)

----------------------------------------------------------------------------
(* Lemmas about the stages, the lists and the checkpoint.                  *)

\* The five stages by position.
LEMMA StageFacts ==
  /\ Len(StageOrder) = 5
  /\ \A k \in 1 .. 5 : StageOrder[k] \in Stages
  /\ FirstStages(5) = Stages
  /\ Stages = {"perturbation", "walk_forward", "cpcv", "monte_carlo", "regime"}
  /\ FirstStages(3) = {"perturbation", "walk_forward", "cpcv"}
  /\ FirstStages(0) = {}
  /\ StageOrder[3] = "cpcv"
  /\ \A k \in 1 .. 5 : StageOrder[k] = "cpcv" => k = 3
BY DEF StageOrder, Stages, Range, FirstStages

\* One more stage.
LEMMA NextStage ==
  ASSUME NEW n \in 1 .. 5
  PROVE  FirstStages(n) = FirstStages(n - 1) \cup {StageOrder[n]}
BY DEF FirstStages

\* A promoted list is a non-empty sequence of parameters.
LEMMA ListFacts ==
  ASSUME NEW l \in Lists
  PROVE  /\ Len(l) \in Nat /\ Len(l) > 0
         /\ \A i \in 1 .. Len(l) : l[i] \in Params
BY ListsAssumption

\* The parts of a CandidateValidation, and what updating them gives.
LEMMA CandidateFacts ==
  ASSUME NEW c \in Candidate, NEW s \in Stages, NEW f \in SUBSET Stages
  PROVE  /\ c.stages \in SUBSET Stages /\ c.failures \in SUBSET Stages
         /\ [c EXCEPT !.short_circuited = TRUE] \in Candidate
         /\ [c EXCEPT !.stages = @ \cup {s}, !.failures = f] \in Candidate
<1>1. c.stages \cup {s} \in SUBSET Stages
  BY DEF Candidate
<1>2. QED BY <1>1 DEF Candidate

\* The checkpoint written has the stages of the candidates of this run.
LEMMA ProgressFacts ==
  ASSUME finished \in Seq(Candidate), cv \in Candidate
  PROVE  /\ AllProgress \in Seq(SUBSET Stages)
         /\ Len(AllProgress) = Len(finished) + 1
         /\ \A i \in 1 .. Len(finished) : AllProgress[i] = finished[i].stages
         /\ AllProgress[Len(finished) + 1] = cv.stages
<1> DEFINE n == Len(finished) + 1
           F(i) == IF i = n THEN cv.stages ELSE finished[i].stages
<1>1. n \in Nat /\ n > 0 /\ \A i \in 1 .. Len(finished) : i \in 1 .. n /\ i # n
  OBVIOUS
<1>2. \A i \in 1 .. n : F(i) \in SUBSET Stages
  <2>1. cv.stages \in SUBSET Stages
    BY DEF Candidate
  <2>2. ASSUME NEW i \in 1 .. n, i # n PROVE finished[i].stages \in SUBSET Stages
    <3>1. i \in 1 .. Len(finished)
      BY <2>2
    <3>2. finished[i] \in Candidate
      BY <3>1
    <3>3. QED BY <3>2 DEF Candidate
  <2>3. QED BY <2>1, <2>2
<1>3. AllProgress = [i \in 1 .. n |-> F(i)]
  BY DEF AllProgress, Current
<1> HIDE DEF F
<1>4. AllProgress \in Seq(SUBSET Stages) /\ Len(AllProgress) = n
  BY <1>1, <1>2, <1>3
<1>5. \A i \in 1 .. n : AllProgress[i] = F(i)
  BY <1>3
<1>6. n \in 1 .. n
  BY <1>1
<1>7. QED BY <1>1, <1>4, <1>5, <1>6 DEF F

----------------------------------------------------------------------------
(* Type correctness.                                                       *)

\* While stages are run, the current position is one of the list.
LEMMA CurrentFacts ==
  ASSUME TypeInv, pc \in {"stage", "save"}
  PROVE  /\ list \in Lists /\ Current \in 1 .. Len(list) /\ list[Current] \in Params
         /\ Len(finished) \in Nat /\ Current = Len(finished) + 1
<1>1. list \in Lists /\ Len(finished) < Len(list)
  BY DEF TypeInv, Control
<1>2. Len(finished) \in Nat
  BY DEF TypeInv, TypeOK
<1>3. QED BY <1>1, <1>2, ListFacts DEF Current

\* The inductive invariant holds initially, and every step keeps it.
LEMMA TypeInit == Init => TypeInv
BY StageFacts, LimitsAssumption
   DEF Init, TypeInv, TypeOK, Control, NoProgress, NewCandidate, Candidate, Stages

LEMMA TypeStep == TypeInv /\ [Next]_vars => TypeInv'
<1> SUFFICES ASSUME TypeInv, [Next]_vars PROVE TypeInv'
  OBVIOUS
<1> USE StageFacts, LimitsAssumption DEF TypeInv
<1>1. ASSUME NEW l \in Lists, Start(l) PROVE TypeInv'
  BY <1>1, ListFacts DEF Start, TypeOK, Control, files, NewCandidate, Candidate
<1>2. CASE SkipResumed
  BY <1>2 DEF SkipResumed, TypeOK, Control, files
<1>3. CASE ShortCircuit
  <2>1. cv' \in Candidate
    BY <1>3, CandidateFacts DEF ShortCircuit, TypeOK
  <2>2. QED BY <1>3, <2>1 DEF ShortCircuit, TypeOK, Control, files
<1>4. CASE RunStage
  <2>1. StageOrder[at] \in Stages /\ list[Current] \in Params
    <3>1. pc = "stage" /\ at \in 1 .. 5
      BY <1>4 DEF RunStage, TypeOK
    <3>2. QED BY <3>1, CurrentFacts
  <2>2. cv' \in Candidate
    <3> DEFINE f == IF StagePassed(StageOrder[at], list[Current]) THEN cv.failures
                    ELSE cv.failures \cup {StageOrder[at]}
    <3>1. f \in SUBSET Stages
      BY <2>1, CandidateFacts DEF TypeOK
    <3>2. cv' = [cv EXCEPT !.stages = @ \cup {StageOrder[at]}, !.failures = f]
      BY <1>4 DEF RunStage
    <3>3. QED BY <2>1, <3>1, <3>2, CandidateFacts DEF TypeOK
  <2>3. ran' \in SUBSET (Params \X Stages)
    BY <1>4, <2>1 DEF RunStage, TypeOK
  <2>4. QED BY <1>4, <2>2, <2>3 DEF RunStage, TypeOK, Control, files
<1>5. CASE Checkpoint
  BY <1>5, ProgressFacts DEF Checkpoint, TypeOK, Control
<1>6. CASE EndCandidate
  <2>1. finished' \in Seq(Candidate) /\ Len(finished') = Len(finished) + 1
    BY <1>6 DEF EndCandidate, TypeOK
  <2>2. cv' \in Candidate
    BY <1>6 DEF EndCandidate, NewCandidate, Candidate
  <2>3. Control'
    BY <1>6, <2>1, ListFacts DEF EndCandidate, TypeOK, Control, Current
  <2>4. QED BY <1>6, <2>1, <2>2, <2>3 DEF EndCandidate, TypeOK, files
<1>7. ASSUME NEW passed \in BOOLEAN, WriteManifest(passed) PROVE TypeInv'
  <2>1. \A i \in DOMAIN manifest' : manifest'[i].params \in Params
    BY <1>7, ListFacts DEF WriteManifest, TypeOK, Control
  <2>2. dsr' \in {"none", "passed", "failed"}
    BY <1>7 DEF WriteManifest
  <2>3. QED BY <1>7, <2>1, <2>2 DEF WriteManifest, TypeOK, Control
<1>8. CASE Abort
  BY <1>8 DEF Abort, TypeOK, Control, files
<1>9. CASE UNCHANGED vars
  BY <1>9 DEF vars, files, TypeOK, Control
<1>10. QED
  BY <1>1, <1>2, <1>3, <1>4, <1>5, <1>6, <1>7, <1>8, <1>9 DEF Next, Run

\* Every variable of the gauntlet keeps its type, whatever lists are promoted and
\* whenever a run is killed; the run never reads past its list or the stage order.
THEOREM TypeCorrect == Spec => []TypeInv
<1>1. QED BY TypeInit, TypeStep, PTL DEF Spec

\* In particular the type invariant holds in every state.
THEOREM WellFormed == Spec => []TypeOK
<1>1. TypeInv => TypeOK
  BY DEF TypeInv
<1>2. QED BY <1>1, TypeCorrect, PTL

----------------------------------------------------------------------------
(* The validity gate of a run that resumed nothing.                        *)

\* Nothing is skipped in such a run.
LEMMA NothingResumed ==
  ASSUME resumed = NoProgress, NEW s
  PROVE  ~AlreadyComplete(s)
<1>1. Len(resumed) = 0
  BY DEF NoProgress
<1>2. QED BY <1>1 DEF AlreadyComplete, Current

\* FreshInv holds initially; FreshStep: every step keeps it.
LEMMA FreshInit == Init => FreshInv
BY DEF Init, FreshInv

\* Running stage n: the failed CPCV gate is the only failure.
LEMMA GatedRun ==
  ASSUME NEW p, NEW c \in Candidate, NEW n \in 1 .. 5,
         GatedUpTo(p, c, n - 1), c.failures = {},
         NEW d \in Candidate,
         d.stages = c.stages \cup {StageOrder[n]},
         d.failures = (IF StagePassed(StageOrder[n], p) THEN {} ELSE {StageOrder[n]}),
         d.short_circuited = c.short_circuited
  PROVE  GatedUpTo(p, d, n)
<1>1. ~(p \in Overfit /\ n - 1 >= 3)
  BY DEF GatedUpTo
<1>2. c.stages = FirstStages(n - 1) /\ ~c.short_circuited
  BY <1>1 DEF GatedUpTo
<1>3. d.stages = FirstStages(n) /\ ~d.short_circuited
  BY <1>2, NextStage
<1>4. CASE p \in Overfit /\ n >= 3
  <2>1. n = 3
    BY <1>1, <1>4
  <2>2. d.failures = {"cpcv"}
    BY <1>4, <2>1, StageFacts DEF StagePassed
  <2>3. QED BY <1>3, <1>4, <2>1, <2>2 DEF GatedUpTo
<1>5. CASE ~(p \in Overfit /\ n >= 3)
  <2>1. StagePassed(StageOrder[n], p)
    BY <1>5, StageFacts DEF StagePassed
  <2>2. QED BY <1>3, <1>5, <2>1 DEF GatedUpTo
<1>6. QED BY <1>4, <1>5

LEMMA FreshStep == TypeInv /\ TypeInv' /\ FreshInv /\ [Next]_vars => FreshInv'
<1> SUFFICES ASSUME TypeInv, TypeInv', FreshInv, [Next]_vars,
                    (resumed = NoProgress)', (pc # "down")'
             PROVE  /\ (\A i \in 1 .. Len(finished) : GatedUpTo(list[i], finished[i], 5))'
                    /\ (pc = "stage" => GatedUpTo(list[Current], cv, at - 1))'
                    /\ (pc = "save" => GatedUpTo(list[Current], cv, at))'
  BY DEF FreshInv
<1> DEFINE Goal == /\ \A i \in 1 .. Len(finished) : GatedUpTo(list[i], finished[i], 5)
                   /\ pc = "stage" => GatedUpTo(list[Current], cv, at - 1)
                   /\ pc = "save" => GatedUpTo(list[Current], cv, at)
<1>0. resumed = NoProgress /\ pc # "down" => Goal
  BY DEF FreshInv
<1>1. ASSUME NEW l \in Lists, Start(l) PROVE Goal'
  <2>1. finished' = <<>> /\ cv' = NewCandidate /\ at' = 1 /\ pc' = "stage"
    BY <1>1 DEF Start
  <2>2. GatedUpTo(list'[Current'], cv', at' - 1)
    BY <2>1, StageFacts DEF GatedUpTo, NewCandidate
  <2>3. QED BY <2>1, <2>2 DEF GatedUpTo
<1>2. CASE SkipResumed
  <2>1. resumed = NoProgress
    BY <1>2 DEF SkipResumed
  <2>2. QED BY <1>2, <2>1, NothingResumed DEF SkipResumed
<1>3. CASE ShortCircuit
  <2>1. /\ pc = "stage" /\ pc' = "stage" /\ resumed = NoProgress /\ cv.failures # {}
        /\ finished' = finished /\ list' = list /\ Current' = Current
        /\ at' = 6
    BY <1>3, StageFacts DEF ShortCircuit, ShortCircuits, Current
  <2>2. /\ cv'.stages = cv.stages /\ cv'.failures = cv.failures /\ cv'.short_circuited
    BY <1>3 DEF ShortCircuit, TypeInv, TypeOK, Candidate
  <2>3. GatedUpTo(list[Current], cv, at - 1)
    BY <1>0, <2>1
  <2>4. GatedUpTo(list[Current], cv', 5)
    BY <2>1, <2>2, <2>3 DEF GatedUpTo
  <2>5. \A i \in 1 .. Len(finished) : GatedUpTo(list[i], finished[i], 5)
    BY <1>0, <2>1
  <2>6. QED BY <2>1, <2>4, <2>5 DEF GatedUpTo
<1>4. CASE RunStage
  <2>1. /\ pc = "stage" /\ pc' = "save" /\ resumed = NoProgress /\ cv.failures = {}
        /\ finished' = finished /\ list' = list /\ Current' = Current
        /\ at' = at /\ at \in 1 .. 5
    BY <1>4, StageFacts DEF RunStage, ShortCircuits, Current, TypeInv, TypeOK
  <2>2. /\ cv'.stages = cv.stages \cup {StageOrder[at]}
        /\ cv'.failures = (IF StagePassed(StageOrder[at], list[Current]) THEN {}
                           ELSE {StageOrder[at]})
        /\ cv'.short_circuited = cv.short_circuited
        /\ cv \in Candidate /\ cv' \in Candidate
    BY <1>4, <2>1 DEF RunStage, TypeInv, TypeOK, Candidate
  <2>3. GatedUpTo(list[Current], cv, at - 1)
    BY <1>0, <2>1
  <2>4. GatedUpTo(list[Current], cv', at)
    BY <2>1, <2>2, <2>3, GatedRun
  <2>5. \A i \in 1 .. Len(finished) : GatedUpTo(list[i], finished[i], 5)
    BY <1>0, <2>1
  <2>6. QED BY <2>1, <2>4, <2>5 DEF GatedUpTo
<1>5. CASE Checkpoint
  <2>1. /\ pc = "save" /\ pc' = "stage" /\ resumed = NoProgress /\ at' - 1 = at
        /\ finished' = finished /\ list' = list /\ Current' = Current /\ cv' = cv
    BY <1>5, StageFacts DEF Checkpoint, Current, TypeInv, TypeOK
  <2>2. QED BY <1>0, <2>1 DEF GatedUpTo
<1>6. CASE EndCandidate
  <2>1. /\ pc = "stage" /\ resumed = NoProgress /\ at = 6 /\ list' = list
        /\ finished' = Append(finished, cv) /\ cv' = NewCandidate /\ at' = 1
        /\ pc' # "save"
    BY <1>6, StageFacts DEF EndCandidate, TypeInv, TypeOK
  <2>2. GatedUpTo(list[Current], cv, 5)
    BY <1>0, <2>1
  <2>3. \A i \in 1 .. Len(finished') : GatedUpTo(list'[i], finished'[i], 5)
    <3>1. /\ Len(finished') = Len(finished) + 1 /\ Len(finished) \in Nat
          /\ \A i \in 1 .. Len(finished) : finished'[i] = finished[i]
          /\ finished'[Len(finished) + 1] = cv
      BY <2>1 DEF TypeInv, TypeOK
    <3>2. \A i \in 1 .. Len(finished) : GatedUpTo(list[i], finished[i], 5)
      BY <1>0, <2>1
    <3>3. \A i \in 1 .. Len(finished') : i \in 1 .. Len(finished) \/ i = Len(finished) + 1
      BY <3>1
    <3>4. QED BY <2>1, <2>2, <3>1, <3>2, <3>3 DEF Current
  <2>4. GatedUpTo(list'[Current'], cv', at' - 1)
    BY <2>1, StageFacts DEF GatedUpTo, NewCandidate
  <2>5. QED BY <2>1, <2>3, <2>4 DEF GatedUpTo
<1>7. ASSUME NEW passed \in BOOLEAN, WriteManifest(passed) PROVE Goal'
  BY <1>7 DEF WriteManifest
<1>8. CASE Abort
  BY <1>8 DEF Abort
<1>9. CASE UNCHANGED vars
  BY <1>0, <1>9 DEF vars, GatedUpTo, Current
<1>10. QED
  BY <1>1, <1>2, <1>3, <1>4, <1>5, <1>6, <1>7, <1>8, <1>9 DEF Next, Run

\* What a run that resumed nothing writes to the manifest.
LEMMA ManifestStep ==
  TypeInv /\ FreshInv /\ [Next]_vars =>
    [resumed = NoProgress => \A i \in DOMAIN manifest' : GateApplied(manifest'[i])]_manifest
<1> SUFFICES ASSUME TypeInv, FreshInv, [Next]_vars, manifest' # manifest,
                    resumed = NoProgress, NEW i \in DOMAIN manifest'
             PROVE  GateApplied(manifest'[i])
  OBVIOUS
<1>1. PICK passed \in BOOLEAN : WriteManifest(passed)
  BY DEF Next, Run, vars, files, Start, SkipResumed, ShortCircuit, RunStage, Checkpoint,
         EndCandidate, Abort
<1>2. pc = "manifest" /\ i \in 1 .. Len(finished) /\ i \in DOMAIN finished
  BY <1>1 DEF WriteManifest, TypeInv, TypeOK
<1>3. GatedUpTo(list[i], finished[i], 5)
  BY <1>2 DEF FreshInv
<1>4. /\ manifest'[i].params = list[i]
      /\ manifest'[i].stages = finished[i].stages
      /\ manifest'[i].short_circuited = finished[i].short_circuited
      /\ manifest'[i].failures \in {finished[i].failures, finished[i].failures \cup {"dsr"}}
  BY <1>1, <1>2 DEF WriteManifest
<1>5. QED BY <1>3, <1>4, StageFacts DEF GatedUpTo, GateApplied

\* In a run that resumed nothing, every overfit candidate is stopped by its failed
\* CPCV gate, and every other candidate goes through all the stages: whatever lists
\* are promoted, and whatever runs and kills came before.
THEOREM FreshGate == Spec => FreshRunAppliesGate
<1>1. Init => TypeInv /\ FreshInv
  BY TypeInit, FreshInit
<1>2. TypeInv /\ FreshInv /\ [Next]_vars => TypeInv' /\ FreshInv'
  BY TypeStep, FreshStep
<1>3. QED BY <1>1, <1>2, ManifestStep, PTL DEF Spec, FreshRunAppliesGate

----------------------------------------------------------------------------
(* Resumption: what the checkpoint lets a run skip was run before.  The    *)
(* checkpoint names a candidate by its position only, so this holds when   *)
(* every run is given the same list.                                       *)

\* Every run of the gauntlet validates the same list.
OneListOnly == \A l, m \in Lists : l = m

\* What was run stays run.
LEMMA CoversMore ==
  ASSUME NEW R, NEW T, R \subseteq T
  PROVE  /\ \A p, S : Covers(R, p, S) => Covers(T, p, S)
         /\ \A saved : SoundProgress(R, saved) => SoundProgress(T, saved)
         /\ \A p, result : SoundResult(R, p, result) => SoundResult(T, p, result)
BY DEF Covers, SoundProgress, SoundResult

\* CoverageInv holds initially; CoverageStep: every step keeps it.
LEMMA CoverageInit == Init => CoverageInv
<1> SUFFICES ASSUME Init PROVE CoverageInv
  OBVIOUS
<1>1. SoundProgress(ran, NoProgress)
  BY DEF SoundProgress, NoProgress
<1>2. QED BY <1>1 DEF Init, CoverageInv, EveryStageRan

LEMMA CoverageStep ==
  OneListOnly /\ TypeInv /\ TypeInv' /\ CoverageInv /\ [Next]_vars => CoverageInv'
<1> SUFFICES ASSUME OneListOnly, TypeInv, TypeInv', CoverageInv, [Next]_vars
             PROVE  CoverageInv'
  OBVIOUS
<1>1. ASSUME NEW l \in Lists, Start(l) PROVE CoverageInv'
  <2>1. /\ finished' = <<>> /\ cv' = NewCandidate /\ at' = 1 /\ pc' = "stage"
        /\ resumed' = progress /\ UNCHANGED <<progress, manifest, ran>>
    BY <1>1 DEF Start, files
  <2>2. Covers(ran', list'[Current'], cv'.stages) /\ cv'.failures = {}
    BY <2>1 DEF NewCandidate, Covers
  <2>3. Covers(ran', list'[Current'], FirstStages(at' - 1))
    BY <2>1, StageFacts DEF Covers
  <2>4. SoundCurrent(at - 1)'
    BY <2>2, <2>3 DEF SoundCurrent
  <2>5. QED BY <2>1, <2>4 DEF CoverageInv, EveryStageRan
<1>2. CASE SkipResumed
  <2>1. /\ pc = "stage" /\ pc' = "stage" /\ at \in 1 .. 5 /\ at' - 1 = at
        /\ Current' = Current /\ AlreadyComplete(StageOrder[at])
        /\ UNCHANGED <<progress, manifest, ran, resumed, finished, list, cv>>
    BY <1>2, StageFacts DEF SkipResumed, files, Current, TypeInv, TypeOK
  <2>2. <<list[Current], StageOrder[at]>> \in ran
    <3>1. Covers(ran, list[Current], resumed[Current])
      BY <2>1, CurrentFacts DEF AlreadyComplete, CoverageInv, SoundProgress
    <3>2. QED BY <2>1, <3>1 DEF Covers, AlreadyComplete
  <2>3. SoundCurrent(at)
    BY <2>1, <2>2, NextStage DEF CoverageInv, SoundCurrent, Covers
  <2>4. SoundCurrent(at - 1)'
    BY <2>1, <2>3 DEF SoundCurrent
  <2>5. QED BY <2>1, <2>4 DEF CoverageInv, EveryStageRan
<1>3. CASE ShortCircuit
  <2>1. /\ pc = "stage" /\ pc' = "stage" /\ Current' = Current /\ cv.failures # {}
        /\ UNCHANGED <<progress, manifest, ran, resumed, finished, list>>
    BY <1>3 DEF ShortCircuit, ShortCircuits, files, Current
  <2>2. cv'.stages = cv.stages
    BY <1>3 DEF ShortCircuit, TypeInv, TypeOK, Candidate
  <2>3. list[Current] \in Overfit /\ Covers(ran, list[Current], cv.stages)
    BY <2>1 DEF CoverageInv, SoundCurrent
  <2>4. SoundCurrent(at - 1)'
    BY <2>1, <2>2, <2>3 DEF SoundCurrent
  <2>5. QED BY <2>1, <2>4 DEF CoverageInv, EveryStageRan
<1>4. CASE RunStage
  <2>1. /\ pc = "stage" /\ pc' = "save" /\ at \in 1 .. 5 /\ at' = at
        /\ Current' = Current /\ cv.failures = {}
        /\ ran' = ran \cup {<<list[Current], StageOrder[at]>>}
        /\ UNCHANGED <<progress, manifest, resumed, finished, list>>
    BY <1>4, StageFacts DEF RunStage, ShortCircuits, files, Current, TypeInv, TypeOK
  <2>2. /\ cv'.stages = cv.stages \cup {StageOrder[at]}
        /\ list[Current] \notin Overfit => cv'.failures = {}
    BY <1>4, <2>1 DEF RunStage, StagePassed, TypeInv, TypeOK, Candidate
  <2>3. ran \subseteq ran' /\ <<list[Current], StageOrder[at]>> \in ran'
    BY <2>1
  <2>4. SoundCurrent(at)'
    <3>1. SoundCurrent(at - 1)
      BY <2>1 DEF CoverageInv
    <3>2. Covers(ran', list[Current], cv'.stages)
      BY <2>2, <2>3, <3>1 DEF SoundCurrent, Covers
    <3>3. list[Current] \notin Overfit => Covers(ran', list[Current], FirstStages(at))
      BY <2>1, <2>3, <3>1, NextStage DEF SoundCurrent, Covers
    <3>4. QED BY <2>1, <2>2, <3>2, <3>3 DEF SoundCurrent
  <2>5. SoundProgress(ran', progress) /\ SoundProgress(ran', resumed)
    BY <2>3, CoversMore DEF CoverageInv
  <2>6. \A i \in 1 .. Len(finished) : SoundResult(ran', list[i], finished[i])
    BY <2>1, <2>3, CoversMore DEF CoverageInv
  <2>7. EveryStageRan'
    BY <2>1, <2>3 DEF CoverageInv, EveryStageRan
  <2>8. QED BY <2>1, <2>4, <2>5, <2>6, <2>7 DEF CoverageInv
<1>5. CASE Checkpoint
  <2>1. /\ pc = "save" /\ pc' = "stage" /\ at' - 1 = at /\ Current' = Current
        /\ progress' = AllProgress
        /\ UNCHANGED <<manifest, ran, resumed, finished, list, cv>>
    BY <1>5, StageFacts DEF Checkpoint, Current, TypeInv, TypeOK
  <2>2. SoundCurrent(at)
    BY <2>1 DEF CoverageInv
  <2>3. SoundProgress(ran, AllProgress)
    <3> SUFFICES ASSUME NEW l \in Lists, NEW i \in 1 .. Len(l), i <= Len(AllProgress)
                 PROVE  Covers(ran, l[i], AllProgress[i])
      BY DEF SoundProgress
    <3>1. l = list
      BY <2>1, CurrentFacts DEF OneListOnly
    <3>2. finished \in Seq(Candidate) /\ cv \in Candidate /\ Len(finished) \in Nat
      BY DEF TypeInv, TypeOK
    <3>3. i \in 1 .. Len(finished) \/ i = Len(finished) + 1
      BY <3>2, ProgressFacts
    <3>4. CASE i \in 1 .. Len(finished)
      <4>1. SoundResult(ran, list[i], finished[i])
        BY <2>1, <3>4 DEF CoverageInv
      <4>2. QED BY <3>1, <3>2, <3>4, <4>1, ProgressFacts DEF SoundResult
    <3>5. CASE i = Len(finished) + 1
      BY <2>2, <3>1, <3>2, <3>5, ProgressFacts DEF SoundCurrent, Current
    <3>6. QED BY <3>3, <3>4, <3>5
  <2>4. SoundCurrent(at - 1)'
    BY <2>1, <2>2 DEF SoundCurrent
  <2>5. QED BY <2>1, <2>3, <2>4 DEF CoverageInv, EveryStageRan
<1>6. CASE EndCandidate
  <2>1. /\ pc = "stage" /\ pc' # "save" /\ at = 6 /\ at' = 1
        /\ finished' = Append(finished, cv) /\ cv' = NewCandidate
        /\ UNCHANGED <<progress, manifest, ran, resumed, list>>
    BY <1>6, StageFacts DEF EndCandidate, files, TypeInv, TypeOK
  <2>2. SoundResult(ran, list[Current], cv)
    <3>1. SoundCurrent(at - 1) /\ at - 1 = 5
      BY <2>1 DEF CoverageInv
    <3>2. SoundCurrent(5)
      BY <3>1
    <3>3. QED BY <3>2, StageFacts DEF SoundCurrent, SoundResult
  <2>3. \A i \in 1 .. Len(finished') : SoundResult(ran, list[i], finished'[i])
    <3>1. /\ Len(finished') = Len(finished) + 1 /\ Len(finished) \in Nat
          /\ \A i \in 1 .. Len(finished) : finished'[i] = finished[i]
          /\ finished'[Len(finished) + 1] = cv
      BY <2>1 DEF TypeInv, TypeOK
    <3>2. \A i \in 1 .. Len(finished) : SoundResult(ran, list[i], finished[i])
      BY <2>1 DEF CoverageInv
    <3>3. \A i \in 1 .. Len(finished') : i \in 1 .. Len(finished) \/ i = Len(finished) + 1
      BY <3>1
    <3>4. QED BY <2>2, <3>1, <3>2, <3>3 DEF Current
  <2>4. SoundCurrent(at - 1)'
    <3>1. Covers(ran', list'[Current'], cv'.stages) /\ cv'.failures = {}
      BY <2>1 DEF NewCandidate, Covers
    <3>2. Covers(ran', list'[Current'], FirstStages(at' - 1))
      BY <2>1, StageFacts DEF Covers
    <3>3. QED BY <3>1, <3>2 DEF SoundCurrent
  <2>5. QED BY <2>1, <2>3, <2>4 DEF CoverageInv, EveryStageRan
<1>7. ASSUME NEW passed \in BOOLEAN, WriteManifest(passed) PROVE CoverageInv'
  <2>1. /\ pc = "manifest" /\ pc' = "down"
        /\ UNCHANGED <<progress, ran, resumed>>
    BY <1>7 DEF WriteManifest
  <2>2. ASSUME NEW i \in DOMAIN manifest'
        PROVE  manifest'[i].params \in Overfit \/ {manifest'[i].params} \X Stages \subseteq ran
    <3>1. i \in 1 .. Len(finished) /\ manifest'[i].params = list[i]
      BY <1>7, <2>2 DEF WriteManifest, TypeInv, TypeOK
    <3>2. SoundResult(ran, list[i], finished[i])
      BY <2>1, <3>1 DEF CoverageInv
    <3>3. QED BY <3>1, <3>2 DEF SoundResult, Covers
  <2>3. EveryStageRan'
    BY <2>1, <2>2 DEF EveryStageRan
  <2>4. QED BY <2>1, <2>3 DEF CoverageInv
<1>8. CASE Abort
  BY <1>8 DEF Abort, files, CoverageInv, EveryStageRan
<1>9. CASE UNCHANGED vars
  BY <1>9 DEF vars, files, CoverageInv, EveryStageRan, SoundCurrent, Current
<1>10. QED
  BY <1>1, <1>2, <1>3, <1>4, <1>5, <1>6, <1>7, <1>8, <1>9 DEF Next, Run

\* Whatever the checkpoint lets a run skip was run before on that very candidate, and
\* every sound candidate that reaches the manifest went through every stage, over
\* any number of kills and resumptions: provided that all runs are given one list.
THEOREM Coverage == OneListOnly => (Spec => [](SkippedStagesRan /\ EveryStageRan))
<1> SUFFICES ASSUME OneListOnly PROVE Spec => [](SkippedStagesRan /\ EveryStageRan)
  OBVIOUS
<1>1. Init => TypeInv /\ CoverageInv
  BY TypeInit, CoverageInit
<1>2. TypeInv /\ CoverageInv /\ [Next]_vars => TypeInv' /\ CoverageInv'
  BY TypeStep, CoverageStep
<1>3. TypeInv /\ CoverageInv => SkippedStagesRan /\ EveryStageRan
  <2> SUFFICES ASSUME TypeInv, CoverageInv, pc \in {"stage", "save"},
                      NEW i \in 1 .. Len(list), i <= Len(resumed)
               PROVE  {list[i]} \X resumed[i] \subseteq ran
    BY DEF SkippedStagesRan, CoverageInv
  <2>1. Covers(ran, list[i], resumed[i])
    BY CurrentFacts DEF CoverageInv, SoundProgress
  <2>2. QED BY <2>1 DEF Covers
<1>4. QED BY <1>1, <1>2, <1>3, PTL DEF Spec

----------------------------------------------------------------------------
(* Lemmas about numbers.                                                   *)

\* Blocks of the quotient's length fit into a, and one more would not.
LEMMA DivisionFacts ==
  ASSUME NEW a \in Nat, NEW d \in Nat \ {0}
  PROVE  /\ a \div d \in Nat
         /\ d * (a \div d) <= a
         /\ a < d * ((a \div d) + 1)
BY SMT

\* A later block begins no earlier.
LEMMA BlocksInOrder ==
  ASSUME NEW i \in Nat, NEW j \in Nat, NEW size \in Nat, i <= j
  PROVE  /\ i * size \in Nat /\ j * size \in Nat
         /\ i * size <= j * size
         /\ (i + 1) * size = i * size + size
BY SMT

\* What JobsAssumption says of the job at hand.
LEMMA JobFacts ==
  ASSUME job \in Jobs
  PROVE  /\ job.length \in Nat /\ job.n \in Nat \ {0}
         /\ job.tenths \in 1 .. 9 /\ job.purge \in Nat /\ job.embargo \in Nat
BY JobsAssumption

----------------------------------------------------------------------------
(* Folds.                                                                  *)

\* Every fold has a block of the same length before the last one's rest.
LEMMA FoldBlockFacts ==
  ASSUME job \in Jobs
  PROVE  FoldBlock \in Nat /\ (job.n + 1) * FoldBlock <= job.length
<1>1. job.length \in Nat /\ job.n + 1 \in Nat \ {0}
  BY JobFacts
<1>2. QED BY <1>1, DivisionFacts DEF FoldBlock

\* Where a fold trains and tests, by its number.
LEMMA FoldFacts ==
  ASSUME job \in Jobs, NEW i \in 0 .. job.n - 1
  PROVE  /\ Fold(i).test_start = (i + 1) * FoldBlock
         /\ (i + 1) * FoldBlock > job.embargo =>
              Fold(i).train_end = (i + 1) * FoldBlock - job.embargo
         /\ (i + 1) * FoldBlock <= job.embargo => Fold(i).train_end = (i + 1) * FoldBlock
         /\ i < job.n - 1 => Fold(i).test_end = (i + 2) * FoldBlock
         /\ i = job.n - 1 => Fold(i).test_end = job.length
<1>1. /\ job.n \in Nat /\ job.embargo \in Nat /\ FoldBlock \in Nat /\ i \in Nat
      /\ i + 1 \in Nat
  BY JobFacts, FoldBlockFacts
<1>2. (i + 1) * FoldBlock \in Nat
  BY <1>1, BlocksInOrder
<1>3. QED BY <1>1, <1>2 DEF Fold, Clipped

----------------------------------------------------------------------------
(* Walk-forward windows.                                                   *)

\* The size of a window, and where its test begins, before the embargo.
LEMMA WindowSizeFacts ==
  ASSUME job \in Jobs
  PROVE  /\ WindowSize \in Nat /\ job.n * WindowSize <= job.length
         /\ (WindowSize * job.tenths) \div 10 \in Nat
<1>1. job.length \in Nat /\ job.n \in Nat \ {0} /\ job.tenths \in Nat
  BY JobFacts
<1>2. WindowSize \in Nat /\ job.n * WindowSize <= job.length
  BY <1>1, DivisionFacts DEF WindowSize
<1>3. WindowSize * job.tenths \in Nat
  BY <1>1, <1>2
<1>4. QED BY <1>2, <1>3

\* One window has a test if and only if every other has.
LEMMA TestsAlike ==
  ASSUME job \in Jobs, NEW i \in Nat
  PROVE  HasTest(Window(i)) <=>
           (WindowSize * job.tenths) \div 10 + job.embargo < WindowSize
<1> DEFINE size == WindowSize
           half == (size * job.tenths) \div 10
<1>1. size \in Nat /\ half \in Nat /\ job.embargo \in Nat
  BY JobFacts, WindowSizeFacts
<1>2. HasTest(Window(i)) <=> (i * size + half) + job.embargo < (i + 1) * size
  BY DEF HasTest, Window
<1> HIDE DEF size, half
<1>3. i * size \in Nat /\ (i + 1) * size = i * size + size
  BY <1>1, BlocksInOrder
<1>4. QED BY <1>1, <1>2, <1>3 DEF size, half

\* The windows that are kept are all or none, and in their order.
LEMMA KeptFacts ==
  ASSUME job \in Jobs
  PROVE  \/ Cardinality(Kept) = 0
         \/ /\ \A i \in 1 .. job.n : HasTest(Window(i - 1))
            /\ Cardinality(Kept) = job.n
            /\ \A k \in 1 .. job.n : NthKept(k) = k
<1>1. job.n \in Nat
  BY JobFacts
<1>2. \A i \in 1 .. job.n : i - 1 \in Nat
  BY <1>1
<1>3. CASE (WindowSize * job.tenths) \div 10 + job.embargo < WindowSize
  <2>1. \A i \in 1 .. job.n : HasTest(Window(i - 1))
    BY <1>2, <1>3, TestsAlike
  <2>2. Kept = 1 .. job.n
    BY <2>1 DEF Kept
  <2>3. Cardinality(1 .. job.n) = job.n
    BY <1>1, FS_Interval
  <2>4. ASSUME NEW k \in 1 .. job.n PROVE NthKept(k) = k
    <3>1. ASSUME NEW i \in Kept PROVE Cardinality({l \in Kept : l <= i}) = i
      <4>1. i \in 1 .. job.n
        BY <2>2, <3>1
      <4>2. {l \in Kept : l <= i} = 1 .. i
        BY <1>1, <2>2, <4>1
      <4>3. Cardinality(1 .. i) = i
        BY <4>1, FS_Interval
      <4>4. QED BY <4>2, <4>3
    <3>2. k \in Kept
      BY <2>2
    <3>3. QED BY <3>1, <3>2 DEF NthKept
  <2>5. QED BY <2>1, <2>2, <2>3, <2>4
<1>4. CASE ~((WindowSize * job.tenths) \div 10 + job.embargo < WindowSize)
  <2>1. Kept = {}
    BY <1>2, <1>4, TestsAlike DEF Kept
  <2>2. QED BY <2>1, FS_EmptySet
<1>5. QED BY <1>3, <1>4

\* The bounds of a window are numbers.
LEMMA WindowBounds ==
  ASSUME job \in Jobs, NEW i \in Nat
  PROVE  Window(i).test_start \in Nat /\ Window(i).test_end \in Nat
<1>1. /\ WindowSize \in Nat /\ (WindowSize * job.tenths) \div 10 \in Nat
      /\ job.embargo \in Nat
  BY JobFacts, WindowSizeFacts
<1>2. i * WindowSize \in Nat /\ (i + 1) * WindowSize \in Nat
  BY <1>1, BlocksInOrder
<1>3. QED BY <1>1, <1>2 DEF Window

\* However the windows are numbered, none trains on bars that it or a later window
\* tests, nor within purge and embargo of them, and a later one tests later bars.
LEMMA WindowsApart ==
  ASSUME job \in Jobs, job.kind = "walk_forward",
         NEW i \in Nat, NEW j \in Nat, i <= j
  PROVE  /\ Window(i).train_end + Gap(Window(i)) <= Window(j).test_start
         /\ i < j => Window(i).test_end <= Window(j).test_start
<1> DEFINE size == WindowSize
           half == (size * job.tenths) \div 10
<1>1. /\ job.length \in Nat /\ job.n \in Nat \ {0} /\ job.tenths \in Nat
      /\ job.purge \in Nat /\ job.embargo \in Nat
  BY JobFacts
<1>2. size \in Nat
  BY WindowSizeFacts
<1>4. half \in Nat
  BY WindowSizeFacts
<1>5. /\ Window(i).train_end = Clipped((i * size + half) - job.purge)
      /\ Window(i).test_end = (i + 1) * size
      /\ Window(j).test_start = (j * size + half) + job.embargo
  BY DEF Window
<1> HIDE DEF size, half
<1>6. /\ i * size \in Nat /\ j * size \in Nat /\ i * size <= j * size
      /\ i < j => (i + 1) * size <= j * size
  BY <1>2, BlocksInOrder
<1>7. Window(i).train_end + Gap(Window(i)) <= (i * size + half) + job.embargo
  <2>1. Gap(Window(i)) = IF Window(i).train_end > 0 THEN job.purge + job.embargo
                         ELSE job.embargo
    BY DEF Gap
  <2>2. QED BY <1>1, <1>4, <1>5, <1>6, <2>1 DEF Clipped
<1>8. Gap(Window(i)) \in Nat /\ Window(i).train_end \in Nat
  BY <1>1, <1>4, <1>5, <1>6 DEF Gap, Clipped
<1>9. /\ Window(i).train_end + Gap(Window(i)) <= Window(j).test_start
  BY <1>1, <1>4, <1>5, <1>6, <1>7, <1>8
<1>10. i < j => Window(i).test_end <= Window(j).test_start
  <2>1. (i + 1) * size \in Nat
    BY <1>2, BlocksInOrder
  <2>2. QED BY <1>1, <1>4, <1>5, <1>6, <2>1
<1>11. QED BY <1>9, <1>10

----------------------------------------------------------------------------
(* The inductive invariant: the ranges are none, the folds or the windows. *)

AreFolds ==
  /\ status = "done" /\ job.kind = "folds"
  /\ job.length >= job.n * 2 /\ job.n >= 2
  /\ ranges = [i \in 1 .. job.n |-> Fold(i - 1)]

AreWindows ==
  /\ job.kind = "walk_forward"
  /\ \A i \in 1 .. job.n : HasTest(Window(i - 1))
  /\ ranges = [i \in 1 .. job.n |-> Window(i - 1)]

AreNone == ranges = <<>> /\ (job.kind = "folds" => status # "done")

RangesInv == job \in Jobs /\ (AreNone \/ AreFolds \/ AreWindows)

LEMMA RangesInvHolds == WindowsSpec => []RangesInv
<1>1. WindowsInit => RangesInv
  BY DEF WindowsInit, RangesInv, AreNone
<1>2. ASSUME RangesInv, [WindowsNext]_windows PROVE RangesInv'
  <2>1. CASE UNCHANGED windows
    BY <1>2, <2>1 DEF RangesInv, AreNone, AreFolds, AreWindows, windows, Fold, FoldBlock,
                      Window, WindowSize, HasTest
  <2>2. CASE ComputeFolds
    <3>1. CASE job.length < job.n * 2 \/ job.n < 2
      BY <1>2, <2>2, <3>1 DEF ComputeFolds, RangesInv, AreNone, AreFolds, AreWindows
    <3>2. CASE ~(job.length < job.n * 2 \/ job.n < 2)
      <4>1. job.length >= job.n * 2 /\ job.n >= 2
        BY <1>2, <3>2, JobFacts DEF RangesInv
      <4>2. QED BY <1>2, <2>2, <3>2, <4>1 DEF ComputeFolds, RangesInv, AreFolds, Fold, FoldBlock
    <3>3. QED BY <3>1, <3>2
  <2>3. CASE GenerateWindows
    <3>1. job \in Jobs /\ job' = job /\ job.kind = "walk_forward"
      BY <1>2, <2>3 DEF GenerateWindows, RangesInv
    <3>2. \/ ranges' = <<>>
          \/ ranges' = [k \in 1 .. Cardinality(Kept) |-> Window(NthKept(k) - 1)]
      BY <2>3 DEF GenerateWindows
    <3>3. CASE ranges' = <<>>
      BY <3>1, <3>3 DEF RangesInv, AreNone
    <3>4. CASE ranges' = [k \in 1 .. Cardinality(Kept) |-> Window(NthKept(k) - 1)]
      <4>1. CASE Cardinality(Kept) = 0
        <5>1. ranges' = <<>>
          BY <3>4, <4>1
        <5>2. QED BY <3>1, <5>1 DEF RangesInv, AreNone
      <4>2. CASE Cardinality(Kept) # 0
        <5>1. /\ \A i \in 1 .. job.n : HasTest(Window(i - 1))
              /\ Cardinality(Kept) = job.n
              /\ \A k \in 1 .. job.n : NthKept(k) = k
          BY <3>1, <4>2, KeptFacts
        <5>2. ranges' = [k \in 1 .. job.n |-> Window(k - 1)]
          BY <3>4, <5>1
        <5>3. QED BY <3>1, <5>1, <5>2 DEF RangesInv, AreWindows, Window, WindowSize, HasTest
      <4>3. QED BY <4>1, <4>2
    <3>5. QED BY <3>2, <3>3, <3>4
  <2>4. CASE \E is, oos \in Sharpes \cup {0} : EvaluateCombination(is, oos)
    BY <1>2, <2>4 DEF EvaluateCombination, RangesInv, AreNone, AreFolds, AreWindows
  <2>5. CASE ApplyGate
    BY <1>2, <2>5 DEF ApplyGate, RangesInv, AreNone, AreFolds, AreWindows
  <2>6. QED BY <1>2, <2>1, <2>2, <2>3, <2>4, <2>5 DEF WindowsNext
<1>3. QED BY <1>1, <1>2, PTL DEF WindowsSpec

----------------------------------------------------------------------------
(* Training is apart from testing.                                         *)

\* No fold trains on bars that it or a later fold tests, nor within the embargo.
LEMMA FoldsNeverLookAhead ==
  ASSUME job \in Jobs, AreFolds
  PROVE  NoLookahead
<1>1. SUFFICES ASSUME NEW i \in DOMAIN ranges, NEW j \in DOMAIN ranges, i <= j
               PROVE  ranges[i].train_end + Gap(ranges[i]) <= ranges[j].test_start
  BY DEF NoLookahead
<1>2. /\ job \in Jobs /\ i \in 1 .. job.n /\ j \in 1 .. job.n
      /\ ranges[i] = Fold(i - 1) /\ ranges[j] = Fold(j - 1)
  BY DEF AreFolds
<1>3. /\ job.n \in Nat /\ job.embargo \in Nat /\ FoldBlock \in Nat
      /\ i \in Nat /\ j \in Nat /\ i - 1 \in 0 .. job.n - 1 /\ j - 1 \in 0 .. job.n - 1
  BY <1>2, JobFacts, FoldBlockFacts
<1>4. /\ ranges[j].test_start = j * FoldBlock
      /\ ranges[i].test_start = i * FoldBlock
      /\ i * FoldBlock > job.embargo => ranges[i].train_end = i * FoldBlock - job.embargo
      /\ i * FoldBlock <= job.embargo => ranges[i].train_end = i * FoldBlock
  <2>1. (i - 1) + 1 = i /\ (j - 1) + 1 = j
    BY <1>3
  <2>2. QED BY <1>2, <1>3, <2>1, FoldFacts
<1>5. Gap(ranges[i]) = IF i * FoldBlock > job.embargo THEN job.embargo ELSE 0
  BY <1>4 DEF Gap, AreFolds
<1>6. i * FoldBlock \in Nat /\ i * FoldBlock <= j * FoldBlock
  BY <1>1, <1>3, BlocksInOrder
<1>7. QED BY <1>3, <1>4, <1>5, <1>6

\* No window does.
LEMMA WindowsNeverLookAhead ==
  ASSUME job \in Jobs, AreWindows
  PROVE  NoLookahead
<1>1. SUFFICES ASSUME NEW i \in DOMAIN ranges, NEW j \in DOMAIN ranges, i <= j
               PROVE  ranges[i].train_end + Gap(ranges[i]) <= ranges[j].test_start
  BY DEF NoLookahead
<1>2. /\ i \in 1 .. job.n /\ j \in 1 .. job.n /\ job.n \in Nat
      /\ ranges[i] = Window(i - 1) /\ ranges[j] = Window(j - 1)
  BY JobFacts DEF AreWindows
<1>3. i - 1 \in Nat /\ j - 1 \in Nat /\ i - 1 <= j - 1
  BY <1>1, <1>2
<1>4. QED BY <1>2, <1>3, WindowsApart DEF AreWindows

(* No fold of the optimization and no walk-forward window trains on bars   *)
(* that it or a later one tests, nor on those within purge and embargo     *)
(* before them (_compute_folds, generate_walk_forward_windows).            *)
THEOREM TrainingNeverLooksAhead == WindowsSpec => []NoLookahead
<1>1. AreNone => NoLookahead
  BY DEF AreNone, NoLookahead
<1>2. RangesInv => NoLookahead
  BY <1>1, FoldsNeverLookAhead, WindowsNeverLookAhead DEF RangesInv
<1>3. QED BY <1>2, RangesInvHolds, PTL

----------------------------------------------------------------------------
(* No bar is tested twice.                                                 *)

\* Every bar behind the first block is tested by one fold and no bar by two.
LEMMA FoldsTestOnce ==
  ASSUME job \in Jobs, AreFolds
  PROVE  TestedOnce
<1> DEFINE n == job.n
           size == FoldBlock
<1>1. /\ job \in Jobs /\ n \in Nat /\ n >= 2 /\ job.length \in Nat /\ size \in Nat
      /\ job.length >= n * 2
      /\ (n + 1) * size <= job.length
      /\ ranges = [i \in 1 .. n |-> Fold(i - 1)]
  BY JobFacts, FoldBlockFacts DEF AreFolds
<1>2. ASSUME NEW i \in 1 .. n
      PROVE  /\ ranges[i].test_start = i * size
             /\ i < n => ranges[i].test_end = (i + 1) * size
             /\ i = n => ranges[i].test_end = job.length
  <2>1. /\ i - 1 \in 0 .. n - 1 /\ (i - 1) + 1 = i /\ (i - 1) + 2 = i + 1
        /\ (i < n => i - 1 < n - 1) /\ (i = n => i - 1 = n - 1)
    BY <1>1
  <2>2. ranges[i] = Fold(i - 1)
    BY <1>1
  <2>3. QED BY <1>1, <2>1, <2>2, FoldFacts
<1> HIDE DEF n, size
<1>3. ASSUME NEW b \in Nat, NEW i \in 1 .. n, NEW j \in 1 .. n, i < j,
             b < ranges[i].test_end, ranges[j].test_start <= b
      PROVE  FALSE
  <2>1. /\ ranges[i].test_end = (i + 1) * size /\ ranges[j].test_start = j * size
        /\ i + 1 \in Nat /\ j \in Nat /\ i + 1 <= j
    BY <1>1, <1>2, <1>3
  <2>2. (i + 1) * size <= j * size /\ (i + 1) * size \in Nat /\ j * size \in Nat
    BY <1>1, <2>1, BlocksInOrder
  <2>3. QED BY <1>3, <2>1, <2>2
<1>4. ASSUME NEW b \in Nat, size <= b, b < job.length
      PROVE  \E i \in 1 .. n : ranges[i].test_start <= b /\ b < ranges[i].test_end
  <2>1. CASE b < n * size
    <3>1. size \in Nat \ {0}
      BY <1>1, <2>1, <1>4
    <3> DEFINE i == b \div size
    <3>2. i \in Nat /\ size * i <= b /\ b < size * (i + 1)
      BY <3>1, DivisionFacts
    <3> HIDE DEF i
    <3>3. i * size <= b /\ b < (i + 1) * size
      BY <3>1, <3>2
    <3>4. i >= 1
      <4>1. i # 0
        BY <1>4, <3>1, <3>3
      <4>2. QED BY <3>2, <4>1
    <3>5. i < n
      <4>1. ~(n <= i)
        <5>1. n <= i => n * size <= i * size /\ n * size \in Nat /\ i * size \in Nat
          BY <1>1, <3>2, BlocksInOrder
        <5>2. QED BY <2>1, <3>3, <5>1
      <4>2. QED BY <1>1, <3>2, <4>1
    <3>6. i \in 1 .. n /\ ranges[i].test_start <= b /\ b < ranges[i].test_end
      BY <1>1, <1>2, <3>2, <3>3, <3>4, <3>5
    <3>7. QED BY <3>6
  <2>2. CASE n * size <= b
    <3>1. n \in 1 .. n
      BY <1>1
    <3>2. QED BY <1>2, <1>4, <2>2, <3>1
  <2>3. QED
    <3>1. n * size \in Nat
      BY <1>1
    <3>2. QED BY <2>1, <2>2, <3>1
<1>5. DOMAIN ranges = 1 .. n
  BY <1>1
<1>6. ASSUME NEW b \in BarsOf(0, job.length)
      PROVE  LET testing == {i \in DOMAIN ranges : ranges[i].test_start <= b
                                                   /\ b < ranges[i].test_end}
             IN  /\ \A i, j \in testing : i = j
                 /\ job.kind = "folds" /\ status = "done" /\ b >= FoldBlock
                      => testing # {}
  <2>1. b \in Nat /\ b < job.length
    BY <1>1 DEF BarsOf
  <2> DEFINE testing == {i \in 1 .. n : ranges[i].test_start <= b
                                        /\ b < ranges[i].test_end}
  <2>2. ASSUME NEW i \in testing, NEW j \in testing PROVE i = j
    <3>1. ~(i < j) /\ ~(j < i)
      BY <1>3, <2>1
    <3>2. QED BY <1>1, <3>1
  <2>3. b >= FoldBlock => testing # {}
    <3>1. b >= FoldBlock => size <= b
      BY <1>1 DEF size
    <3>2. QED BY <1>4, <2>1, <3>1
  <2>4. QED BY <1>5, <2>2, <2>3
<1>7. QED BY <1>6 DEF TestedOnce

\* No bar is tested by two windows.
LEMMA WindowsTestOnce ==
  ASSUME job \in Jobs, AreWindows
  PROVE  TestedOnce
<1>1. /\ job.n \in Nat /\ job.length \in Nat
      /\ DOMAIN ranges = 1 .. job.n /\ job.kind = "walk_forward"
      /\ \A i \in 1 .. job.n : ranges[i] = Window(i - 1)
  BY JobFacts DEF AreWindows
<1>2. ASSUME NEW b \in BarsOf(0, job.length), NEW i \in 1 .. job.n, NEW j \in 1 .. job.n,
             i < j, b < ranges[i].test_end, ranges[j].test_start <= b
      PROVE  FALSE
  <2>1. i - 1 \in Nat /\ j - 1 \in Nat /\ i - 1 < j - 1 /\ i - 1 <= j - 1
    BY <1>1, <1>2
  <2>2. ranges[i].test_end <= ranges[j].test_start
    BY <1>1, <2>1, WindowsApart
  <2>3. ranges[i].test_end \in Int /\ ranges[j].test_start \in Int /\ b \in Int
    <3>1. b \in Int
      BY <1>1 DEF BarsOf
    <3>2. QED BY <1>1, <2>1, <3>1, WindowBounds
  <2>4. QED BY <1>2, <2>2, <2>3
<1>3. ASSUME NEW b \in BarsOf(0, job.length)
      PROVE  \A i, j \in {k \in DOMAIN ranges : ranges[k].test_start <= b
                                                /\ b < ranges[k].test_end} : i = j
  <2>1. SUFFICES ASSUME NEW i \in 1 .. job.n, NEW j \in 1 .. job.n,
                        ranges[i].test_start <= b, b < ranges[i].test_end,
                        ranges[j].test_start <= b, b < ranges[j].test_end
                 PROVE  i = j
    BY <1>1
  <2>2. ~(i < j) /\ ~(j < i)
    BY <1>2, <2>1
  <2>3. QED BY <1>1, <2>2
<1>4. QED BY <1>1, <1>3 DEF TestedOnce

(* Every bar behind the first block is tested by one fold, although the    *)
(* length of the data need not be a multiple of the number of blocks, and  *)
(* no bar by two folds or windows.                                         *)
THEOREM NoBarTestedTwice == WindowsSpec => []TestedOnce
<1>1. AreNone => TestedOnce
  BY DEF AreNone, TestedOnce
<1>2. RangesInv => TestedOnce
  BY <1>1, FoldsTestOnce, WindowsTestOnce DEF RangesInv
<1>3. QED BY <1>2, RangesInvHolds, PTL

----------------------------------------------------------------------------
(* Sorting.                                                                *)

\* A set of numbers has a smallest one: induction, by the smallest counterexample.
LessThan == {p \in Nat \X Nat : p[1] < p[2]}
LEMMA LeastElement ==
  ASSUME NEW T \in SUBSET Nat, T # {}
  PROVE  \E n \in T : \A m \in T : n <= m
<1>1. IsWellFoundedOn(LessThan, Nat)
  BY NatLessThanWellFounded DEF OpToRel, LessThan
<1>2. PICK n \in T : \A m \in T : ~(<<m, n>> \in LessThan)
  BY <1>1, WFMin
<1>3. ASSUME NEW m \in T PROVE n <= m
  <2>1. ~(<<m, n>> \in LessThan) /\ m \in Nat /\ n \in Nat
    BY <1>2
  <2>2. QED BY <2>1 DEF LessThan
<1>4. QED BY <1>3

\* Induction up to n, for a set of numbers.
LEMMA Upwards ==
  ASSUME NEW n \in Nat, NEW G, 0 \in G, \A k \in 1 .. n : k - 1 \in G => k \in G
  PROVE  \A k \in 0 .. n : k \in G
<1> DEFINE T == (0 .. n) \ G
<1>1. SUFFICES ASSUME T # {} PROVE FALSE
  OBVIOUS
<1>2. PICK k \in T : \A l \in T : k <= l
  <2>1. T \in SUBSET Nat
    OBVIOUS
  <2>2. QED BY <1>1, <2>1, LeastElement
<1>3. k \in 1 .. n /\ k - 1 \in 0 .. n /\ k \notin G
  BY <1>2
<1>4. k - 1 \in G
  <2>1. ~(k <= k - 1)
    BY <1>3
  <2>2. QED BY <1>2, <1>3, <2>1
<1>5. QED BY <1>3, <1>4

\* A function is defined by its first value and by how each value follows from the one
\* before.
Follows(f, b, step, n) == f[0] = b /\ \A k \in 1 .. n : f[k] = step[<<k, f[k - 1]>>]

\* There is a function for every first value and every step, up to any number.
LEMMA RecursionExists ==
  ASSUME NEW n \in Nat, NEW V, NEW b \in V, NEW step \in [(1 .. n) \X V -> V]
  PROVE  \E f \in [0 .. n -> V] : Follows(f, b, step, n)
<1> DEFINE G == {m \in 0 .. n : \E f \in [0 .. m -> V] : Follows(f, b, step, m)}
<1>1. 0 \in G
  <2> DEFINE f == [k \in 0 .. 0 |-> b]
  <2>1. f \in [0 .. 0 -> V] /\ Follows(f, b, step, 0)
    BY DEF Follows
  <2> HIDE DEF f
  <2>2. QED BY <2>1
<1>2. ASSUME NEW m \in 1 .. n, m - 1 \in G PROVE m \in G
  <2>1. PICK f \in [0 .. (m - 1) -> V] : Follows(f, b, step, m - 1)
    BY <1>2
  <2> DEFINE x == step[<<m, f[m - 1]>>]
             g == [k \in 0 .. m |-> IF k = m THEN x ELSE f[k]]
  <2>2. f[m - 1] \in V /\ x \in V
    OBVIOUS
  <2>3. g \in [0 .. m -> V]
    <3> HIDE DEF x
    <3>1. \A k \in 0 .. m : k # m => k \in 0 .. (m - 1)
      OBVIOUS
    <3>2. QED BY <2>2, <3>1
  <2>4. g[m] = x /\ \A k \in 0 .. (m - 1) : g[k] = f[k]
    <3> HIDE DEF x
    <3>1. QED OBVIOUS
  <2> HIDE DEF g
  <2>5. g[0] = b
    BY <2>1, <2>4 DEF Follows
  <2>6. ASSUME NEW k \in 1 .. m PROVE g[k] = step[<<k, g[k - 1]>>]
    <3>1. k - 1 \in 0 .. (m - 1)
      OBVIOUS
    <3>2. g[k - 1] = f[k - 1]
      BY <2>4, <3>1
    <3>3. CASE k = m
      BY <2>4, <3>2, <3>3
    <3>4. CASE k # m
      <4>1. k \in 1 .. (m - 1) /\ k \in 0 .. (m - 1)
        BY <3>4
      <4>2. f[k] = step[<<k, f[k - 1]>>]
        BY <2>1, <4>1 DEF Follows
      <4>3. QED BY <2>4, <3>2, <4>1, <4>2
    <3>5. QED BY <3>3, <3>4
  <2>7. Follows(g, b, step, m)
    BY <2>5, <2>6 DEF Follows
  <2>8. QED BY <2>3, <2>7
<1>3. \A m \in 0 .. n : m \in G
  <2> HIDE DEF G
  <2>1. QED BY <1>1, <1>2, Upwards
<1>4. QED BY <1>3

\* The smaller of two numbers.
LEMMA MinOfTwo ==
  ASSUME NEW a \in Int, NEW b \in Int
  PROVE  /\ a <= b => Min({a, b}) = a
         /\ b <= a => Min({a, b}) = b
<1>1. \A x \in {a, b} : (\A y \in {a, b} : x <= y) => x <= a /\ x <= b
  OBVIOUS
<1>2. \E x \in {a, b} : \A y \in {a, b} : x <= y
  OBVIOUS
<1>3. Min({a, b}) \in {a, b} /\ \A y \in {a, b} : Min({a, b}) <= y
  BY <1>2, Zenon DEF Min
<1>4. QED BY <1>3

\* Rows, or survivors, that can be sorted.
Keyed(S) ==
  /\ IsFiniteSet(S)
  /\ \A r \in S : r.topsis \in Int /\ r.id \in Int
  /\ \A r, s \in S : r.id = s.id => r = s

Above(r, S) == {s \in S : Better(s, r)}

\* Of two rows one is better, and what is better than a better one is better.
LEMMA BetterFacts ==
  ASSUME NEW S, Keyed(S), NEW r \in S, NEW s \in S, NEW t \in S
  PROVE  /\ ~Better(r, r)
         /\ Better(r, s) => ~Better(s, r)
         /\ r # s => Better(r, s) \/ Better(s, r)
         /\ Better(r, s) /\ Better(s, t) => Better(r, t)
<1>1. /\ r.topsis \in Int /\ r.id \in Int /\ s.topsis \in Int /\ s.id \in Int
      /\ t.topsis \in Int /\ t.id \in Int
      /\ r # s => r.id # s.id
  BY DEF Keyed
<1>2. QED BY <1>1 DEF Better

\* Rows are numbered by how many are above them.
LEMMA AboveFacts ==
  ASSUME NEW S, Keyed(S), NEW r \in S
  PROVE  /\ Cardinality(S) \in Nat
         /\ Cardinality(Above(r, S)) \in 0 .. (Cardinality(S) - 1)
         /\ \A s \in S : Better(s, r) => Cardinality(Above(s, S)) < Cardinality(Above(r, S))
<1>1. /\ IsFiniteSet(S) /\ Cardinality(S) \in Nat
      /\ \A s \in S : IsFiniteSet(Above(s, S)) /\ Cardinality(Above(s, S)) \in Nat
  <2>1. \A s \in S : Above(s, S) \in SUBSET S
    BY DEF Above
  <2>2. IsFiniteSet(S)
    BY DEF Keyed
  <2>3. QED BY <2>1, <2>2, FS_Subset, FS_CardinalityType
<1>2. Cardinality(Above(r, S)) < Cardinality(S)
  <2>1. Above(r, S) \in SUBSET S /\ r \notin Above(r, S)
    BY BetterFacts DEF Above
  <2>2. Cardinality(Above(r, S)) <= Cardinality(S) /\ Cardinality(Above(r, S)) # Cardinality(S)
    BY <1>1, <2>1, FS_Subset
  <2>3. QED BY <1>1, <2>2
<1>3. ASSUME NEW s \in S, Better(s, r) PROVE Cardinality(Above(s, S)) < Cardinality(Above(r, S))
  <2>1. Above(s, S) \in SUBSET Above(r, S)
    BY <1>3, BetterFacts DEF Above
  <2>2. s \in Above(r, S) /\ s \notin Above(s, S)
    BY <1>3, BetterFacts DEF Above
  <2>3. /\ Cardinality(Above(s, S)) <= Cardinality(Above(r, S))
        /\ Cardinality(Above(s, S)) # Cardinality(Above(r, S))
    BY <1>1, <2>1, <2>2, FS_Subset
  <2>4. Cardinality(Above(s, S)) \in Nat /\ Cardinality(Above(r, S)) \in Nat
    BY <1>1
  <2>5. QED BY <2>3, <2>4
<1>4. QED BY <1>1, <1>2, <1>3

Places(S) == [r \in S |-> Cardinality(Above(r, S)) + 1]

\* Each row has a place of its own, and each place a row.
LEMMA PlacesFacts ==
  ASSUME NEW S, Keyed(S)
  PROVE  /\ Places(S) \in Injection(S, 1 .. Cardinality(S))
         /\ Places(S) \in Surjection(S, 1 .. Cardinality(S))
<1>1. Cardinality(S) \in Nat /\ IsFiniteSet(S)
  BY FS_CardinalityType DEF Keyed
<1>2. Places(S) \in [S -> 1 .. Cardinality(S)]
  <2>1. ASSUME NEW r \in S PROVE Cardinality(Above(r, S)) + 1 \in 1 .. Cardinality(S)
    BY <1>1, AboveFacts
  <2>2. QED BY <2>1 DEF Places
<1>3. ASSUME NEW r \in S, NEW s \in S, Places(S)[r] = Places(S)[s] PROVE r = s
  <2>1. SUFFICES ASSUME r # s PROVE FALSE
    OBVIOUS
  <2>2. Better(r, s) \/ Better(s, r)
    BY <2>1, BetterFacts
  <2>3. Cardinality(Above(r, S)) \in Int /\ Cardinality(Above(s, S)) \in Int
    BY AboveFacts
  <2>4. Cardinality(Above(r, S)) # Cardinality(Above(s, S))
    <3>1. CASE Better(r, s)
      <4>1. Cardinality(Above(r, S)) < Cardinality(Above(s, S))
        BY <3>1, AboveFacts
      <4>2. QED BY <2>3, <4>1
    <3>2. CASE Better(s, r)
      <4>1. Cardinality(Above(s, S)) < Cardinality(Above(r, S))
        BY <3>2, AboveFacts
      <4>2. QED BY <2>3, <4>1
    <3>3. QED BY <2>2, <3>1, <3>2
  <2>5. QED BY <1>3, <2>3, <2>4 DEF Places
<1>4. Places(S) \in Injection(S, 1 .. Cardinality(S))
  <2>1. \A r, s \in S : Places(S)[r] = Places(S)[s] => r = s
    BY <1>3
  <2>2. QED BY <1>2, <2>1 DEF Injection, IsInjective
<1>5. IsFiniteSet(1 .. Cardinality(S)) /\ Cardinality(1 .. Cardinality(S)) = Cardinality(S)
  <2>1. 1 \in Int /\ Cardinality(S) \in Int
    BY <1>1
  <2>2. QED BY <1>1, <2>1, FS_Interval
<1>6. QED BY <1>4, <1>5, FS_Injection

NthBest(S, i) == CHOOSE r \in S : Cardinality({s \in S : Better(s, r)}) = i - 1

\* Sorting rearranges: each row has one place, and better rows are before worse ones.
LEMMA SortedFacts ==
  ASSUME NEW S, Keyed(S)
  PROVE  /\ Cardinality(S) \in Nat
         /\ Sorted(S) \in Seq(S) /\ Len(Sorted(S)) = Cardinality(S)
         /\ \A r \in S : \E i \in 1 .. Cardinality(S) : Sorted(S)[i] = r
         /\ \A i, j \in 1 .. Cardinality(S) : i < j => Better(Sorted(S)[i], Sorted(S)[j])
         /\ \A i, j \in 1 .. Cardinality(S) : Sorted(S)[i] = Sorted(S)[j] => i = j
<1> DEFINE n == Cardinality(S)
<1>1. n \in Nat
  BY FS_CardinalityType DEF Keyed
<1>2. ASSUME NEW i \in 1 .. n
      PROVE  Sorted(S)[i] \in S /\ Places(S)[Sorted(S)[i]] = i
  <2>1. PICK r \in S : Places(S)[r] = i
    BY PlacesFacts DEF Surjection
  <2>2. \A s \in S : Places(S)[s] = Cardinality({q \in S : Better(q, s)}) + 1
    BY DEF Places, Above
  <2>3. \A s \in S : Cardinality({q \in S : Better(q, s)}) \in Nat
    <3>1. \A s \in S : Cardinality(Above(s, S)) \in Nat
      BY <1>1, AboveFacts
    <3>2. QED BY <3>1 DEF Above
  <2>4. Cardinality({q \in S : Better(q, r)}) = i - 1
    BY <2>1, <2>2, <2>3
  <2>5. Sorted(S)[i] = CHOOSE s \in S : Cardinality({q \in S : Better(q, s)}) = i - 1
    BY DEF Sorted
  <2>6. Sorted(S)[i] \in S /\ Cardinality({q \in S : Better(q, Sorted(S)[i])}) = i - 1
    BY <2>4, <2>5, Zenon
  <2>7. QED BY <2>2, <2>6
<1>3. Sorted(S) \in Seq(S) /\ Len(Sorted(S)) = n
  <2>1. Sorted(S) = [i \in 1 .. n |-> NthBest(S, i)]
    BY Zenon DEF Sorted, NthBest
  <2>2. \A i \in 1 .. n : NthBest(S, i) \in S
    BY <1>2, <2>1
  <2>3. Sorted(S) \in [1 .. n -> S]
    BY <2>1, <2>2
  <2>4. QED BY <1>1, <2>3
<1>4. ASSUME NEW r \in S PROVE \E i \in 1 .. n : Sorted(S)[i] = r
  <2>1. Places(S)[r] \in 1 .. n
    BY PlacesFacts DEF Injection
  <2>2. Sorted(S)[Places(S)[r]] \in S /\ Places(S)[Sorted(S)[Places(S)[r]]] = Places(S)[r]
    BY <1>2, <2>1
  <2>3. Sorted(S)[Places(S)[r]] = r
    BY <2>2, PlacesFacts DEF Injection, IsInjective
  <2>4. QED BY <2>1, <2>3
<1>5. ASSUME NEW i \in 1 .. n, NEW j \in 1 .. n, i < j PROVE Better(Sorted(S)[i], Sorted(S)[j])
  <2>1. /\ Sorted(S)[i] \in S /\ Places(S)[Sorted(S)[i]] = i
        /\ Sorted(S)[j] \in S /\ Places(S)[Sorted(S)[j]] = j
    BY <1>2
  <2>2. i \in Int /\ j \in Int /\ i # j
    BY <1>5
  <2>3. Better(Sorted(S)[i], Sorted(S)[j]) \/ Better(Sorted(S)[j], Sorted(S)[i])
    BY <2>1, <2>2, BetterFacts
  <2>4. ~Better(Sorted(S)[j], Sorted(S)[i])
    <3>1. ASSUME Better(Sorted(S)[j], Sorted(S)[i]) PROVE FALSE
      <4>1. Cardinality(Above(Sorted(S)[j], S)) < Cardinality(Above(Sorted(S)[i], S))
        BY <2>1, <3>1, AboveFacts
      <4>2. /\ Cardinality(Above(Sorted(S)[j], S)) \in Nat /\ Cardinality(Above(Sorted(S)[i], S)) \in Nat
            /\ Cardinality(Above(Sorted(S)[j], S)) + 1 = j /\ Cardinality(Above(Sorted(S)[i], S)) + 1 = i
        BY <1>1, <2>1, AboveFacts DEF Places
      <4>3. QED BY <1>5, <4>1, <4>2
    <3>2. QED BY <3>1
  <2>5. QED BY <2>3, <2>4
<1>6. ASSUME NEW i \in 1 .. n, NEW j \in 1 .. n, Sorted(S)[i] = Sorted(S)[j] PROVE i = j
  BY <1>2, <1>6
<1>7. QED BY <1>1, <1>3, <1>4, <1>5, <1>6

\* What is first of a sequence.
LEMMA FirstFacts ==
  ASSUME NEW S, NEW seq \in Seq(S), NEW n \in Nat
  PROVE  /\ First(n, seq) \in Seq(S)
         /\ n <= Len(seq) => Len(First(n, seq)) = n
         /\ Len(seq) <= n => Len(First(n, seq)) = Len(seq)
         /\ Len(First(n, seq)) <= n /\ Len(First(n, seq)) <= Len(seq)
         /\ \A i \in 1 .. Len(First(n, seq)) : First(n, seq)[i] = seq[i]
<1>1. Len(seq) \in Nat
  OBVIOUS
<1> DEFINE m == Min({n, Len(seq)})
<1>2. /\ m \in Nat /\ m <= n /\ m <= Len(seq)
      /\ (n <= Len(seq) => m = n) /\ (Len(seq) <= n => m = Len(seq))
  <2>1. n \in Int /\ Len(seq) \in Int
    BY <1>1
  <2>2. (n <= Len(seq) => m = n) /\ (Len(seq) <= n => m = Len(seq))
    BY <2>1, MinOfTwo
  <2>3. QED BY <1>1, <2>2
<1>3. First(n, seq) = SubSeq(seq, 1, m)
  BY DEF First
<1> HIDE DEF m
<1>4. /\ SubSeq(seq, 1, m) \in Seq(S) /\ Len(SubSeq(seq, 1, m)) = m
      /\ \A i \in 1 .. m : SubSeq(seq, 1, m)[i] = seq[i]
  BY <1>1, <1>2
<1>5. QED BY <1>2, <1>3, <1>4

----------------------------------------------------------------------------
(* Pareto ranks.                                                           *)

\* A finite set of numbers that is not empty has a greatest.
HasGreatest(S) == \E x \in S : \A y \in S : y <= x
LEMMA FiniteGreatest ==
  ASSUME NEW S \in SUBSET Int, S # {}, IsFiniteSet(S)
  PROVE  HasGreatest(S)
<1> DEFINE Bad == {n \in Nat : \E T \in SUBSET Int : /\ IsFiniteSet(T) /\ T # {}
                                                      /\ Cardinality(T) = n /\ ~HasGreatest(T)}
<1>1. SUFFICES ASSUME ~HasGreatest(S) PROVE FALSE
  OBVIOUS
<1>2. Cardinality(S) \in Bad
  BY <1>1, FS_CardinalityType
<1>3. PICK n \in Bad : \A m \in Bad : n <= m
  <2> HIDE DEF Bad
  <2>1. Bad \in SUBSET Nat
    BY DEF Bad
  <2>2. QED BY <1>2, <2>1, LeastElement
<1>4. PICK T \in SUBSET Int : IsFiniteSet(T) /\ T # {} /\ Cardinality(T) = n /\ ~HasGreatest(T)
  OBVIOUS
<1>5. PICK x \in T : TRUE
  BY <1>4
<1> DEFINE U == T \ {x}
<1>6. IsFiniteSet(U) /\ Cardinality(U) = n - 1 /\ U \in SUBSET Int /\ n \in Nat
  BY <1>3, <1>4, <1>5, FS_RemoveElement
<1>7. U # {}
  BY <1>4, <1>5 DEF HasGreatest
<1>8. ~(n <= n - 1) /\ Cardinality(U) \in Nat
  BY <1>6, FS_CardinalityType
<1>9. Cardinality(U) \notin Bad
  <2> HIDE DEF Bad
  <2>1. QED BY <1>3, <1>6, <1>8
<1>10. HasGreatest(U)
  BY <1>6, <1>7, <1>8, <1>9
<1>11. PICK u \in U : \A y \in U : y <= u
  BY <1>10 DEF HasGreatest
<1>12. u \in Int /\ x \in Int /\ T = U \cup {x} /\ \A y \in T : y \in Int
  BY <1>5, <1>11
<1>13. CASE u <= x
  <2>1. \A y \in T : y <= x
    BY <1>11, <1>12, <1>13
  <2>2. QED BY <1>4, <1>5, <2>1 DEF HasGreatest
<1>14. CASE ~(u <= x)
  <2>1. \A y \in T : y <= u
    BY <1>11, <1>12, <1>14
  <2>2. QED BY <1>4, <1>12, <2>1 DEF HasGreatest
<1>15. QED BY <1>13, <1>14

\* Rows that can be compared.
Comparable(S) ==
  IsFiniteSet(S) /\ \A r \in S : r.topsis \in Int /\ r.k_ratio \in Int /\ Robustness(r) \in Int

Worth(S) == [r \in S |-> r.topsis + Robustness(r) + r.k_ratio]

\* Among rows there is one that no other dominates: one with the greatest sum.
LEMMA FrontFacts ==
  ASSUME NEW S, Comparable(S), S # {}
  PROVE  \E r \in S : \A s \in S : ~Dominates(s, r)
<1> DEFINE T == {Worth(S)[r] : r \in S}
<1>1. \A r \in S : Worth(S)[r] = r.topsis + Robustness(r) + r.k_ratio /\ Worth(S)[r] \in Int
  BY DEF Worth, Comparable
<1>2. T \in SUBSET Int /\ T # {}
  BY <1>1
<1>3. Worth(S) \in Surjection(S, T)
  <2>1. Worth(S) \in [S -> T]
    <3>1. Worth(S) = [r \in S |-> Worth(S)[r]]
      BY DEF Worth
    <3>2. QED BY <3>1
  <2>2. QED BY <2>1 DEF Surjection
<1>4. IsFiniteSet(T)
  <2> HIDE DEF T
  <2>1. QED BY <1>3, FS_Surjection DEF Comparable
<1>5. PICK x \in T : \A y \in T : y <= x
  <2> HIDE DEF T
  <2>1. QED BY <1>2, <1>4, FiniteGreatest DEF HasGreatest
<1>6. PICK r \in S : x = Worth(S)[r]
  OBVIOUS
<1>7. ASSUME NEW s \in S, Dominates(s, r) PROVE FALSE
  <2>1. Worth(S)[s] <= Worth(S)[r]
    BY <1>5, <1>6
  <2>2. /\ s.topsis \in Int /\ s.k_ratio \in Int /\ Robustness(s) \in Int
        /\ r.topsis \in Int /\ r.k_ratio \in Int /\ Robustness(r) \in Int
    BY DEF Comparable
  <2>3. /\ s.topsis >= r.topsis /\ Robustness(s) >= Robustness(r) /\ s.k_ratio >= r.k_ratio
        /\ s.topsis > r.topsis \/ Robustness(s) > Robustness(r) \/ s.k_ratio > r.k_ratio
    BY <1>7 DEF Dominates
  <2>4. /\ Worth(S)[s] = s.topsis + Robustness(s) + s.k_ratio
        /\ Worth(S)[r] = r.topsis + Robustness(r) + r.k_ratio
    BY <1>1
  <2>5. QED BY <2>1, <2>2, <2>3, <2>4
<1>8. QED BY <1>7

\* What each round adds.
Undominated(S, A) == {r \in S \ A : ~ \E s \in S \ A : Dominates(s, r)}

AssignedBy(S) == CHOOSE a : a = [k \in 0 .. Cardinality(S) |->
  IF k = 0 THEN {}
  ELSE a[k - 1] \cup {r \in S \ a[k - 1] : ~\E s \in S \ a[k - 1] : Dominates(s, r)}]

\* The rounds are well-defined.
LEMMA AssignedNamed ==
  ASSUME NEW S, Cardinality(S) \in Nat
  PROVE  Assigned(S) = [k \in 0 .. Cardinality(S) |->
           IF k = 0 THEN {} ELSE Assigned(S)[k - 1] \cup Undominated(S, Assigned(S)[k - 1])]
<1> DEFINE n == Cardinality(S)
           step == [p \in (1 .. n) \X SUBSET S |-> p[2] \cup Undominated(S, p[2])]
           Grown(f) == [k \in 0 .. n |-> IF k = 0 THEN {} ELSE f[k - 1] \cup Undominated(S, f[k - 1])]
<1>1. step \in [(1 .. n) \X SUBSET S -> SUBSET S]
  <2>1. \A A \in SUBSET S : A \cup Undominated(S, A) \in SUBSET S
    BY DEF Undominated
  <2>2. \A p \in (1 .. n) \X SUBSET S : p[2] \in SUBSET S
    OBVIOUS
  <2>3. QED BY <2>1, <2>2
<1>2. PICK f \in [0 .. n -> SUBSET S] : Follows(f, {}, step, n)
  <2> HIDE DEF step, n
  <2>1. {} \in SUBSET S /\ n \in Nat
    BY DEF n
  <2>2. QED BY <1>1, <2>1, RecursionExists
<1>3. f = Grown(f)
  <2>1. \A k \in 1 .. n : f[k] = f[k - 1] \cup Undominated(S, f[k - 1])
    <3>1. TAKE k \in 1 .. n
    <3>2. k - 1 \in 0 .. n /\ f[k] = step[<<k, f[k - 1]>>]
      <4> HIDE DEF step, n
      <4>1. k - 1 \in 0 .. n
        BY DEF n
      <4>2. QED BY <1>2, <4>1 DEF Follows
    <3>3. f[k - 1] \in SUBSET S
      <4> HIDE DEF step, n
      <4>1. QED BY <1>2, <3>2
    <3>4. <<k, f[k - 1]>> \in (1 .. n) \X SUBSET S
      BY <3>3
    <3>5. QED BY <3>2, <3>4
  <2>2. \A k \in 0 .. n : k # 0 => k \in 1 .. n
    OBVIOUS
  <2>3. f[0] = {}
    BY <1>2 DEF Follows
  <2> HIDE DEF n
  <2>4. QED BY <2>1, <2>2, <2>3
<1>4. AssignedBy(S) = Grown(AssignedBy(S))
  <2>1. \E a : a = Grown(a)
    BY <1>3
  <2>2. QED BY <2>1, Zenon DEF AssignedBy, Undominated
<1>5. Assigned(S) = AssignedBy(S)
  BY Zenon DEF Assigned, AssignedBy
<1>6. QED BY <1>4, <1>5

\* The rounds one by one.
LEMMA AssignedFacts ==
  ASSUME NEW S, Comparable(S)
  PROVE  /\ Cardinality(S) \in Nat
         /\ Assigned(S)[0] = {}
         /\ \A k \in 1 .. Cardinality(S) :
              Assigned(S)[k] = Assigned(S)[k - 1] \cup Undominated(S, Assigned(S)[k - 1])
<1>1. Cardinality(S) \in Nat
  BY FS_CardinalityType DEF Comparable
<1>3. Assigned(S) = [k \in 0 .. Cardinality(S) |->
        IF k = 0 THEN {} ELSE Assigned(S)[k - 1] \cup Undominated(S, Assigned(S)[k - 1])]
  BY <1>1, AssignedNamed
<1> HIDE DEF Assigned
<1>4. Assigned(S)[0] = {}
  BY <1>1, <1>3
<1>5. ASSUME NEW k \in 1 .. Cardinality(S)
      PROVE  Assigned(S)[k] = Assigned(S)[k - 1] \cup Undominated(S, Assigned(S)[k - 1])
  <2>1. k \in 0 .. Cardinality(S) /\ k # 0
    BY <1>1
  <2>2. QED BY <1>3, <2>1
<1>6. QED BY <1>1, <1>4, <1>5

\* Rounds only add, at least one row each while there are any, and so end with all.
LEMMA RoundsFacts ==
  ASSUME NEW S, Comparable(S)
  PROVE  /\ \A i, j \in 0 .. Cardinality(S) : i <= j => Assigned(S)[i] \subseteq Assigned(S)[j]
         /\ Assigned(S)[Cardinality(S)] = S
<1> DEFINE n == Cardinality(S)
           A == Assigned(S)
<1>1. n \in Nat /\ IsFiniteSet(S)
  BY AssignedFacts DEF Comparable
<1>2. \A k \in 1 .. n : A[k] = A[k - 1] \cup Undominated(S, A[k - 1])
  BY AssignedFacts
<1>3. A[0] = {}
  BY AssignedFacts
<1> HIDE DEF A, n
<1>4. ASSUME NEW i \in 0 .. n PROVE \A j \in 0 .. n : i <= j => A[i] \subseteq A[j]
  <2> DEFINE G == {j \in 0 .. n : i <= j => A[i] \subseteq A[j]}
  <2>1. 0 \in G
    <3>1. i <= 0 => i = 0
      BY <1>4
    <3>2. 0 \in 0 .. n
      BY <1>1
    <3>3. QED BY <3>1, <3>2
  <2>2. ASSUME NEW j \in 1 .. n, j - 1 \in G PROVE j \in G
    <3>1. j \in 0 .. n /\ (i <= j => i = j \/ i <= j - 1)
      BY <1>1, <1>4
    <3>2. A[j - 1] \subseteq A[j]
      BY <1>2
    <3>3. QED BY <2>2, <3>1, <3>2
  <2>3. \A j \in 0 .. n : j \in G
    <3> HIDE DEF G
    <3>1. QED BY <1>1, <2>1, <2>2, Upwards
  <2>4. QED BY <2>3
<1> DEFINE Enough == {k \in 0 .. n : A[k] \subseteq S /\ (A[k] = S \/ Cardinality(A[k]) >= k)}
<1>5. 0 \in Enough
  BY <1>1, <1>3, FS_EmptySet
<1>6. ASSUME NEW k \in 1 .. n, k - 1 \in Enough PROVE k \in Enough
  <2>1. A[k] = A[k - 1] \cup Undominated(S, A[k - 1]) /\ A[k - 1] \subseteq S /\ k \in 0 .. n /\ k \in Int
    BY <1>1, <1>2, <1>6
  <2>2. A[k] \subseteq S
    BY <2>1 DEF Undominated
  <2>3. CASE A[k - 1] = S
    BY <2>1, <2>2, <2>3
  <2>4. CASE A[k - 1] # S
    <3>1. Comparable(S \ A[k - 1]) /\ S \ A[k - 1] # {}
      <4>1. IsFiniteSet(S \ A[k - 1])
        BY <1>1, FS_Difference
      <4>2. QED BY <2>1, <2>4, <4>1 DEF Comparable
    <3>2. PICK r \in S \ A[k - 1] : \A s \in S \ A[k - 1] : ~Dominates(s, r)
      BY <3>1, FrontFacts
    <3>3. r \in A[k] /\ r \notin A[k - 1]
      BY <2>1, <3>2 DEF Undominated
    <3>4. IsFiniteSet(A[k]) /\ Cardinality(A[k]) \in Nat /\ Cardinality(A[k - 1]) \in Nat
      BY <1>1, <2>1, <2>2, FS_Subset, FS_CardinalityType
    <3>5. Cardinality(A[k - 1]) <= Cardinality(A[k]) /\ Cardinality(A[k - 1]) # Cardinality(A[k])
      <4>1. A[k - 1] \in SUBSET A[k]
        BY <2>1
      <4>2. QED BY <3>3, <3>4, <4>1, FS_Subset
    <3>6. Cardinality(A[k - 1]) >= k - 1
      BY <1>6, <2>4
    <3>7. Cardinality(A[k]) >= k
      BY <2>1, <3>4, <3>5, <3>6
    <3>8. QED BY <2>1, <2>2, <3>7
  <2>5. QED BY <2>3, <2>4
<1>7. n \in Enough
  <2>1. \A k \in 0 .. n : k \in Enough
    <3> HIDE DEF Enough
    <3>1. QED BY <1>1, <1>5, <1>6, Upwards
  <2>2. QED BY <1>1, <2>1
<1>8. A[n] = S
  <2>1. CASE Cardinality(A[n]) >= n
    <3>1. A[n] \in SUBSET S
      BY <1>7
    <3>2. Cardinality(A[n]) <= n /\ Cardinality(A[n]) \in Nat
      BY <1>1, <3>1, FS_Subset, FS_CardinalityType DEF n
    <3>3. Cardinality(S) = Cardinality(A[n])
      BY <1>1, <2>1, <3>2 DEF n
    <3>4. QED BY <1>1, <3>1, <3>3, FS_Subset
  <2>2. QED BY <1>7, <2>1
<1>9. QED BY <1>4, <1>8 DEF A, n

\* The rank of a row is the round that added it.
LEMMA RankFacts ==
  ASSUME NEW S, Comparable(S), NEW r \in S
  PROVE  /\ Cardinality(S) \in Nat
         /\ ParetoRank(r, S) \in 1 .. Cardinality(S)
         /\ r \in Assigned(S)[ParetoRank(r, S)] /\ r \notin Assigned(S)[ParetoRank(r, S) - 1]
<1> DEFINE T == {k \in 0 .. Cardinality(S) : r \in Assigned(S)[k]}
<1>1. Cardinality(S) \in T /\ T \in SUBSET Nat
  BY RoundsFacts, AssignedFacts
<1>2. PICK k \in T : \A l \in T : k <= l
  <2> HIDE DEF T
  <2>1. QED BY <1>1, LeastElement
<1>3. k \in 0 .. Cardinality(S) /\ k # 0 /\ r \in Assigned(S)[k]
  BY AssignedFacts
<1>4. k \in 1 .. Cardinality(S) /\ k - 1 \in 0 .. Cardinality(S) /\ ~(k <= k - 1)
  BY <1>3, AssignedFacts
<1>5. r \notin Assigned(S)[k - 1]
  BY <1>2, <1>4
<1>6. ParetoRank(r, S) \in 1 .. Cardinality(S)
      /\ r \in Assigned(S)[ParetoRank(r, S)] /\ r \notin Assigned(S)[ParetoRank(r, S) - 1]
  BY <1>3, <1>4, <1>5, Zenon DEF ParetoRank
<1>7. QED BY <1>6, AssignedFacts

\* No row dominates one of its own rank or of a better, and what is not on the front is
\* dominated from the rank before.
LEMMA DepthFacts ==
  ASSUME NEW S, Comparable(S), NEW r \in S
  PROVE  /\ \A s \in S : Dominates(s, r) => ParetoRank(s, S) < ParetoRank(r, S)
         /\ ParetoRank(r, S) > 1 =>
              \E s \in S : Dominates(s, r) /\ ParetoRank(s, S) = ParetoRank(r, S) - 1
<1> DEFINE k == ParetoRank(r, S)
           A == Assigned(S)
           n == Cardinality(S)
<1>1. n \in Nat /\ k \in 1 .. n /\ r \in A[k] /\ r \notin A[k - 1]
  BY RankFacts
<1>2. \A s \in S : /\ ParetoRank(s, S) \in 1 .. n
                   /\ s \in A[ParetoRank(s, S)] /\ s \notin A[ParetoRank(s, S) - 1]
  BY RankFacts
<1>3. \A i, j \in 0 .. n : i <= j => A[i] \subseteq A[j]
  BY RoundsFacts
<1>4. \A i \in 1 .. n : A[i] = A[i - 1] \cup Undominated(S, A[i - 1])
  BY AssignedFacts
<1> HIDE DEF k, A, n
<1>5. ASSUME NEW s \in S, Dominates(s, r) PROVE s \in A[k - 1]
  <2>1. r \in Undominated(S, A[k - 1])
    BY <1>1, <1>4
  <2>2. QED BY <1>5, <2>1 DEF Undominated
<1>6. ASSUME NEW s \in S, s \in A[k - 1] PROVE ParetoRank(s, S) <= k - 1
  <2> DEFINE q == ParetoRank(s, S)
  <2>1. q \in 1 .. n /\ s \notin A[q - 1]
    BY <1>2
  <2> HIDE DEF q
  <2>2. SUFFICES ASSUME ~(q <= k - 1) PROVE FALSE
    BY DEF q
  <2>3. k - 1 \in 0 .. n /\ q - 1 \in 0 .. n /\ k - 1 <= q - 1
    BY <1>1, <2>1, <2>2
  <2>4. A[k - 1] \subseteq A[q - 1]
    BY <1>3, <2>3
  <2>5. QED BY <1>6, <2>1, <2>4
<1>7. ASSUME NEW s \in S, Dominates(s, r) PROVE ParetoRank(s, S) < k
  <2>1. ParetoRank(s, S) <= k - 1 /\ ParetoRank(s, S) \in 1 .. n
    BY <1>2, <1>5, <1>6, <1>7
  <2>2. QED BY <1>1, <2>1
<1>8. ASSUME k > 1
      PROVE  \E s \in S : Dominates(s, r) /\ ParetoRank(s, S) = k - 1
  <2>1. k - 1 \in 1 .. n /\ k - 2 \in 0 .. n /\ (k - 1) - 1 = k - 2
    BY <1>1, <1>8
  <2>2. A[k - 1] = A[k - 2] \cup Undominated(S, A[k - 2])
    BY <1>4, <2>1
  <2>3. r \in S \ A[k - 2] /\ r \notin Undominated(S, A[k - 2])
    BY <1>1, <2>2
  <2>4. PICK s \in S \ A[k - 2] : Dominates(s, r)
    BY <2>3 DEF Undominated
  <2>5. s \in A[k - 1] /\ s \in S
    BY <1>5, <2>4
  <2> DEFINE q == ParetoRank(s, S)
  <2>6. q <= k - 1 /\ q \in 1 .. n /\ s \in A[q]
    BY <1>2, <1>6, <2>5
  <2> HIDE DEF q
  <2>7. ~(q <= k - 2)
    <3>1. SUFFICES ASSUME q <= k - 2 PROVE FALSE
      OBVIOUS
    <3>2. q \in 0 .. n
      BY <1>1, <2>6
    <3>3. A[q] \subseteq A[k - 2]
      BY <1>3, <2>1, <3>1, <3>2
    <3>4. QED BY <2>4, <2>6, <3>3
  <2>8. q = k - 1
    BY <1>1, <2>6, <2>7
  <2>9. QED BY <2>4, <2>5, <2>8 DEF q
<1>9. QED BY <1>7, <1>8 DEF k

----------------------------------------------------------------------------
(* The funnel.                                                             *)

\* What the definitions of Selection say of a state, for any values of its variables.
EntriesOf(src, sc, rs) ==
  CASE src = "none" -> {}
    [] src = "aggregate" -> IF sc = NoManifest THEN {} ELSE {Missing(e.id) : e \in sc}
    [] src = "manifests" -> LoadedManifests(rs)
PassesBy(row, es, cf) ==
  IF \E e \in es : e.id = row.id
  THEN \E e \in es : e.id = row.id /\ (cf.dsr_required => e.dsr) /\ PboGate(e) /\ CostStressGate(e)
  ELSE cf.dsr_required => row.dsr
Passing(rows, es, cf) == {r \in rows : PassesBy(r, es, cf)}
FunnelRows(rows, es, cf) ==
  {r \in Range(First(cf.top_n, Sorted(Passing(rows, es, cf)))) : r.stable}
SurvivorOf(r, rows, all) ==
  [id |-> r.id, topsis |-> r.topsis, cluster |-> ClusterOf(r, all), cell |-> r.cell,
   rank |-> ParetoRank(r, rows)]
Survivors(rows, es, cf) == Ranked(FunnelRows(rows, es, cf), rows)

FromFunnel(distinct) ==
  /\ Deduplicated(table, distinct)
  /\ survivors = Survivors(distinct, EntriesOf(source, scoring, results), config)

\* In a state these are what the definitions say.
LEMMA FunnelNamed ==
  /\ ScoringEntries = EntriesOf(source, scoring, results)
  /\ \A row : PassesGates(row) <=> PassesBy(row, ScoringEntries, config)
  /\ \A rows : Funnel(rows) = Survivors(rows, ScoringEntries, config)
<1>1. ScoringEntries = EntriesOf(source, scoring, results)
  BY Zenon DEF ScoringEntries, EntriesOf
<1>2. ASSUME NEW row PROVE PassesGates(row) <=> PassesBy(row, ScoringEntries, config)
  BY DEF PassesGates, PassesBy
<1>3. ASSUME NEW rows PROVE Funnel(rows) = Survivors(rows, ScoringEntries, config)
  <2>1. {r \in rows : PassesGates(r)} = Passing(rows, ScoringEntries, config)
    BY <1>2 DEF Passing
  <2>2. QED BY <2>1, Zenon DEF Funnel, Survivors, FunnelRows
<1>4. QED BY <1>1, <1>2, <1>3

\* The survivors are the image of the rows that are ranked.
LEMMA RankedNamed ==
  \A rows, all : Ranked(rows, all) = {SurvivorOf(r, rows, all) : r \in rows}
BY Zenon DEF Ranked, SurvivorOf

\* What a survivor takes over from its row.
LEMMA SurvivorFields ==
  ASSUME NEW r, NEW rows, NEW all
  PROVE  /\ SurvivorOf(r, rows, all).id = r.id /\ SurvivorOf(r, rows, all).topsis = r.topsis
         /\ SurvivorOf(r, rows, all).cluster = ClusterOf(r, all)
         /\ SurvivorOf(r, rows, all).cell = r.cell
         /\ SurvivorOf(r, rows, all).rank = ParetoRank(r, rows)
BY DEF SurvivorOf

\* The rows of a table can be sorted and compared.
LEMMA TableFacts ==
  ASSUME NEW t \in Tables, NEW rows \in SUBSET t
  PROVE  Keyed(rows) /\ Comparable(rows) /\ \A r \in rows : r.id \in Ids /\ r.label \in Int
<1>1. /\ IsFiniteSet(t)
      /\ \A r \in t : r.id \in Ids /\ {r.cv, r.topsis, r.k_ratio, r.label, r.prob} \subseteq Int
      /\ \A r, s \in t : r.id = s.id => r = s
  BY TablesAssumption
<1>2. IsFiniteSet(rows)
  BY <1>1, FS_Subset
<1>3. \A r \in rows : /\ r.id \in Ids /\ r.id \in Int /\ r.topsis \in Int /\ r.k_ratio \in Int
                      /\ r.label \in Int /\ r.prob \in Int
  BY <1>1, IdsAssumption
<1>4. \A r \in rows : Robustness(r) \in Int
  BY <1>3 DEF Robustness
<1>5. Keyed(rows)
  BY <1>1, <1>2, <1>3 DEF Keyed
<1>6. QED BY <1>2, <1>3, <1>4, <1>5 DEF Comparable

\* What the funnel lets through passes the gates.
LEMMA FunnelRowsFacts ==
  ASSUME NEW t \in Tables, NEW rows \in SUBSET t, NEW es, NEW cf \in Configs
  PROVE  /\ FunnelRows(rows, es, cf) \subseteq rows
         /\ \A r \in FunnelRows(rows, es, cf) : PassesBy(r, es, cf)
<1> DEFINE P == Passing(rows, es, cf)
<1>1. P \in SUBSET rows /\ P \in SUBSET t
  BY DEF Passing
<1> HIDE DEF P
<1>2. Sorted(P) \in Seq(P)
  BY <1>1, TableFacts, SortedFacts
<1>3. cf.top_n \in Nat
  BY ConfigsAssumption
<1>4. First(cf.top_n, Sorted(P)) \in Seq(P)
  BY <1>2, <1>3, FirstFacts
<1>5. Range(First(cf.top_n, Sorted(P))) \subseteq P
  BY <1>4 DEF Range
<1>6. FunnelRows(rows, es, cf) \subseteq P
  BY <1>5 DEF FunnelRows, P
<1>7. QED BY <1>1, <1>6 DEF P, Passing

\* The survivors are of rows that passed; they are typed and can be sorted.
SurvivorsTyped(t) ==
  [id : Ids, topsis : Int, cluster : Int, cell : {r.cell : r \in t}, rank : Nat \ {0}]

LEMMA SurvivorsFacts ==
  ASSUME NEW t \in Tables, NEW rows \in SUBSET t, NEW es, NEW cf \in Configs
  PROVE  /\ Keyed(Survivors(rows, es, cf))
         /\ Survivors(rows, es, cf) \subseteq SurvivorsTyped(t)
         /\ \A c \in Survivors(rows, es, cf) : \E r \in FunnelRows(rows, es, cf) :
              c = SurvivorOf(r, FunnelRows(rows, es, cf), rows)
<1> DEFINE F == FunnelRows(rows, es, cf)
           S == Survivors(rows, es, cf)
           image == [r \in F |-> SurvivorOf(r, F, rows)]
<1>1. F \in SUBSET rows /\ F \in SUBSET t
  BY FunnelRowsFacts
<1>2. S = {SurvivorOf(r, F, rows) : r \in F}
  BY RankedNamed DEF Survivors
<1>3. /\ Keyed(F) /\ Comparable(F)
      /\ \A r \in F : r.id \in Ids /\ r.label \in Int
  BY <1>1, TableFacts
<1>4. IsFiniteSet(S)
  <2>1. image \in Surjection(F, S)
    <3> HIDE DEF F
    <3>1. image \in [F -> S] /\ \A c \in S : \E r \in F : image[r] = c
      BY <1>2
    <3>2. QED BY <3>1 DEF Surjection
  <2> HIDE DEF F, S, image
  <2>2. IsFiniteSet(F)
    BY <1>3 DEF Keyed
  <2>3. QED BY <2>1, <2>2, FS_Surjection
<1> HIDE DEF F, S, image
<1>5. ASSUME NEW r \in F
      PROVE  /\ SurvivorOf(r, F, rows).id \in Int /\ SurvivorOf(r, F, rows).topsis \in Int
             /\ SurvivorOf(r, F, rows) \in SurvivorsTyped(t)
  <2>1. r.id \in Ids /\ r.id \in Int /\ r.topsis \in Int /\ r.label \in Int
    BY <1>3 DEF Keyed
  <2>2. ClusterOf(r, rows) \in Int
    BY <2>1 DEF ClusterOf
  <2>3. ParetoRank(r, F) \in Nat \ {0}
    <3>1. ParetoRank(r, F) \in 1 .. Cardinality(F) /\ Cardinality(F) \in Nat
      BY <1>3, RankFacts
    <3>2. QED BY <3>1
  <2>4. r.cell \in {q.cell : q \in t}
    BY <1>1
  <2>5. SurvivorOf(r, F, rows) \in SurvivorsTyped(t)
    BY <2>1, <2>2, <2>3, <2>4 DEF SurvivorOf, SurvivorsTyped
  <2>6. QED BY <2>1, <2>5, SurvivorFields
<1>6. \A c, d \in S : c.id = d.id => c = d
  <2>1. TAKE c, d \in S
  <2>2. HAVE c.id = d.id
  <2>3. PICK r \in F : c = SurvivorOf(r, F, rows)
    BY <1>2
  <2>4. PICK q \in F : d = SurvivorOf(q, F, rows)
    BY <1>2
  <2>5. r.id = q.id
    BY <2>2, <2>3, <2>4, SurvivorFields
  <2>6. r = q
    BY <1>3, <2>5 DEF Keyed
  <2>7. QED BY <2>3, <2>4, <2>6
<1>7. \A c \in S : \E r \in F : c = SurvivorOf(r, F, rows)
  BY <1>2
<1>8. Keyed(S)
  <2>1. \A c \in S : c.topsis \in Int /\ c.id \in Int
    BY <1>5, <1>7
  <2>2. QED BY <1>4, <1>6, <2>1 DEF Keyed
<1>9. S \subseteq SurvivorsTyped(t)
  BY <1>5, <1>7
<1>10. QED BY <1>7, <1>8, <1>9 DEF S, F

----------------------------------------------------------------------------
(* Diversity.                                                              *)

\* Targets and archive for any survivors and configuration.
TargetOf(sv, cf) == Min({cf.target, Cardinality(sv)})
DeterministicOf(sv, cf) ==
  LET n == (TargetOf(sv, cf) * cf.tenths) \div 10
  IN  IF n = 0 /\ cf.tenths > 0 /\ sv # {} THEN 1 ELSE n
BestOfCells(sv) == {c \in sv : \A d \in sv : d.cell = c.cell => ~Better(d, c)}

\* In a state the targets and the archive are these.
LEMMA DiversityNamed ==
  /\ Target = TargetOf(survivors, config)
  /\ Deterministic = DeterministicOf(survivors, config)
  /\ Archive = Sorted(BestOfCells(survivors))
BY Zenon DEF Target, TargetOf, Deterministic, DeterministicOf, Archive, BestOfCells

\* The targets are within what survives.
LEMMA TargetFacts ==
  ASSUME Keyed(survivors), config \in Configs
  PROVE  /\ Cardinality(survivors) \in Nat
         /\ Target \in Nat /\ Target <= Cardinality(survivors)
         /\ Deterministic \in Nat /\ Deterministic <= Target
<1>1. Cardinality(survivors) \in Nat /\ config.target \in Nat /\ config.tenths \in 0 .. 10
      /\ (survivors # {} => Cardinality(survivors) > 0) /\ config.target > 0
  <2>1. IsFiniteSet(survivors)
    BY DEF Keyed
  <2>2. QED BY <2>1, ConfigsAssumption, FS_CardinalityType, FS_EmptySet
<1>2. /\ config.target <= Cardinality(survivors) => Target = config.target
      /\ Cardinality(survivors) <= config.target => Target = Cardinality(survivors)
  <2>1. config.target \in Int /\ Cardinality(survivors) \in Int
    BY <1>1
  <2>2. QED BY <2>1, MinOfTwo DEF Target
<1>3. /\ Target \in Nat /\ Target <= Cardinality(survivors)
      /\ (survivors # {} => Target > 0)
  BY <1>1, <1>2
<1> DEFINE n == (Target * config.tenths) \div 10
<1>4. n \in Nat /\ n <= Target
  <2> DEFINE x == Target * config.tenths
  <2>1. x \in Nat /\ x <= 10 * Target
    <3>1. config.tenths \in {0, 1, 2, 3, 4, 5, 6, 7, 8, 9, 10}
      BY <1>1
    <3> HIDE DEF x
    <3>2. QED BY <1>3, <3>1 DEF x
  <2> HIDE DEF x
  <2>2. x \div 10 \in Nat /\ x \div 10 <= Target
    BY <1>3, <2>1
  <2>3. QED BY <2>2 DEF x
<1>5. Deterministic = IF n = 0 /\ config.tenths > 0 /\ survivors # {} THEN 1 ELSE n
  BY DEF Deterministic
<1> HIDE DEF n
<1>6. QED BY <1>1, <1>3, <1>4, <1>5

\* A sequence without repetitions has as many elements as places.
Distinct(seq) == \A i, j \in 1 .. Len(seq) : seq[i] = seq[j] => i = j

LEMMA DistinctFacts ==
  ASSUME NEW S, NEW seq \in Seq(S)
  PROVE  /\ IsFiniteSet(Range(seq)) /\ Range(seq) \subseteq S
         /\ Cardinality(Range(seq)) <= Len(seq)
         /\ Distinct(seq) <=> IsInjective(seq)
         /\ Distinct(seq) => Cardinality(Range(seq)) = Len(seq)
         /\ \A x : x \in Range(seq) <=> \E i \in 1 .. Len(seq) : seq[i] = x
<1>1. /\ Len(seq) \in Nat /\ DOMAIN seq = 1 .. Len(seq)
      /\ Range(seq) \subseteq S /\ seq \in [1 .. Len(seq) -> Range(seq)]
  BY DEF Range
<1>2. /\ \A x : x \in Range(seq) <=> \E i \in 1 .. Len(seq) : seq[i] = x
      /\ Distinct(seq) <=> IsInjective(seq)
  BY <1>1 DEF Range, Distinct, IsInjective
<1>3. seq \in Surjection(1 .. Len(seq), Range(seq))
  BY <1>1, <1>2 DEF Surjection
<1>4. IsFiniteSet(1 .. Len(seq)) /\ Cardinality(1 .. Len(seq)) = Len(seq)
  <2>1. 1 \in Int /\ Len(seq) \in Int
    BY <1>1
  <2>2. QED BY <1>1, <2>1, FS_Interval
<1>5. /\ IsFiniteSet(Range(seq)) /\ Cardinality(Range(seq)) <= Len(seq)
      /\ Cardinality(Range(seq)) = Len(seq) <=> seq \in Injection(1 .. Len(seq), Range(seq))
  BY <1>3, <1>4, FS_Surjection
<1>6. Distinct(seq) => seq \in Injection(1 .. Len(seq), Range(seq))
  BY <1>1, <1>2 DEF Injection
<1>7. QED BY <1>1, <1>2, <1>5, <1>6

\* One more element, and two sequences one after the other.
LEMMA AppendFacts ==
  ASSUME NEW S, NEW seq \in Seq(S), NEW x \in S
  PROVE  /\ Append(seq, x) \in Seq(S) /\ Len(Append(seq, x)) = Len(seq) + 1
         /\ Append(seq, x)[Len(seq) + 1] = x
         /\ \A i \in 1 .. Len(seq) : Append(seq, x)[i] = seq[i]
         /\ Range(Append(seq, x)) = Range(seq) \cup {x}
         /\ Distinct(seq) /\ x \notin Range(seq) => Distinct(Append(seq, x))
<1> DEFINE t == Append(seq, x)
           n == Len(seq)
<1>1. /\ n \in Nat /\ t \in Seq(S) /\ Len(t) = n + 1 /\ t[n + 1] = x
      /\ \A i \in 1 .. n : t[i] = seq[i]
  OBVIOUS
<1> HIDE DEF t
<1>2. /\ \A y : y \in Range(t) <=> \E i \in 1 .. n + 1 : t[i] = y
      /\ \A y : y \in Range(seq) <=> \E i \in 1 .. n : seq[i] = y
  BY <1>1, DistinctFacts
<1> HIDE DEF n
<1>3. Range(t) = Range(seq) \cup {x}
  <2>1. ASSUME NEW y PROVE y \in Range(t) <=> y \in Range(seq) \cup {x}
    <3>1. \A i \in 1 .. n + 1 : i \in 1 .. n \/ i = n + 1
      BY <1>1
    <3>2. \A i \in 1 .. n : i \in 1 .. n + 1
      BY <1>1
    <3>3. n + 1 \in 1 .. n + 1
      BY <1>1
    <3>4. QED BY <1>1, <1>2, <3>1, <3>2, <3>3
  <2>2. QED BY <2>1
<1>4. ASSUME Distinct(seq), x \notin Range(seq) PROVE Distinct(t)
  <2>1. SUFFICES ASSUME NEW i \in 1 .. n + 1, NEW j \in 1 .. n + 1, t[i] = t[j] PROVE i = j
    BY <1>1 DEF Distinct
  <2>2. (i \in 1 .. n \/ i = n + 1) /\ (j \in 1 .. n \/ j = n + 1)
    BY <1>1
  <2>3. \A k \in 1 .. n : t[k] # x
    BY <1>1, <1>2, <1>4
  <2>4. QED BY <1>1, <1>4, <2>1, <2>2, <2>3 DEF Distinct, n
<1>5. QED BY <1>1, <1>3, <1>4 DEF t, n

LEMMA ConcatFacts ==
  ASSUME NEW S, NEW s \in Seq(S), NEW u \in Seq(S)
  PROVE  /\ s \o u \in Seq(S) /\ Len(s \o u) = Len(s) + Len(u)
         /\ \A i \in 1 .. Len(s) : (s \o u)[i] = s[i]
         /\ Range(s \o u) = Range(s) \cup Range(u)
         /\ Distinct(s) /\ Distinct(u) /\ (\A x \in Range(u) : x \notin Range(s)) => Distinct(s \o u)
<1> DEFINE t == s \o u
           n == Len(s)
           m == Len(u)
<1>1. /\ n \in Nat /\ m \in Nat /\ t \in Seq(S) /\ Len(t) = n + m
      /\ \A i \in 1 .. n : t[i] = s[i]
      /\ \A i \in 1 .. n + m : i > n => t[i] = u[i - n]
  OBVIOUS
<1> HIDE DEF t
<1>2. /\ \A y : y \in Range(t) <=> \E i \in 1 .. n + m : t[i] = y
      /\ \A y : y \in Range(s) <=> \E i \in 1 .. n : s[i] = y
      /\ \A y : y \in Range(u) <=> \E i \in 1 .. m : u[i] = y
  BY <1>1, DistinctFacts
<1> HIDE DEF n, m
<1>3. ASSUME NEW i \in 1 .. n + m
      PROVE  \/ i \in 1 .. n /\ t[i] = s[i]
             \/ i > n /\ i - n \in 1 .. m /\ t[i] = u[i - n]
  BY <1>1
<1>4. ASSUME NEW i \in 1 .. m PROVE n + i \in 1 .. n + m /\ t[n + i] = u[i]
  <2>1. n + i \in 1 .. n + m /\ n + i > n /\ (n + i) - n = i
    BY <1>1
  <2>2. t[n + i] = u[(n + i) - n]
    BY <1>1, <2>1
  <2>3. QED BY <2>1, <2>2
<1>5. Range(t) = Range(s) \cup Range(u)
  <2>1. ASSUME NEW y \in Range(t) PROVE y \in Range(s) \cup Range(u)
    <3>1. PICK i \in 1 .. n + m : t[i] = y
      BY <1>2
    <3>2. QED BY <1>2, <1>3, <3>1
  <2>2. ASSUME NEW y \in Range(s) PROVE y \in Range(t)
    <3>1. PICK i \in 1 .. n : s[i] = y
      BY <1>2
    <3>2. i \in 1 .. n + m /\ t[i] = y
      BY <1>1, <3>1
    <3>3. QED BY <1>2, <3>2
  <2>3. ASSUME NEW y \in Range(u) PROVE y \in Range(t)
    <3>1. PICK i \in 1 .. m : u[i] = y
      BY <1>2
    <3>2. QED BY <1>2, <1>4, <3>1
  <2>4. QED BY <2>1, <2>2, <2>3
<1>6. ASSUME Distinct(s), Distinct(u), \A x \in Range(u) : x \notin Range(s) PROVE Distinct(t)
  <2>1. SUFFICES ASSUME NEW i \in 1 .. n + m, NEW j \in 1 .. n + m, t[i] = t[j] PROVE i = j
    BY <1>1 DEF Distinct
  <2>2. CASE i \in 1 .. n /\ j \in 1 .. n
    BY <1>1, <1>6, <2>1, <2>2 DEF Distinct, n
  <2>3. CASE i > n /\ i - n \in 1 .. m /\ j > n /\ j - n \in 1 .. m
    <3>1. t[i] = u[i - n] /\ t[j] = u[j - n]
      BY <1>1, <2>3
    <3>2. i - n = j - n
      BY <1>6, <2>1, <2>3, <3>1 DEF Distinct, m
    <3>3. QED BY <1>1, <3>2
  <2>4. CASE i \in 1 .. n /\ j > n /\ j - n \in 1 .. m
    <3>1. t[i] \in Range(s) /\ t[j] \in Range(u)
      BY <1>1, <1>2, <2>4
    <3>2. QED BY <1>6, <2>1, <3>1
  <2>5. CASE j \in 1 .. n /\ i > n /\ i - n \in 1 .. m
    <3>1. t[j] \in Range(s) /\ t[i] \in Range(u)
      BY <1>1, <1>2, <2>5
    <3>2. QED BY <1>6, <2>1, <3>1
  <2>6. QED BY <1>3, <2>2, <2>3, <2>4, <2>5
<1>7. QED BY <1>1, <1>5, <1>6 DEF t, n, m

\* The two passes over the cells are well-defined.
FirstBy(cells) == CHOOSE taken : taken = [k \in 0 .. Len(cells) |->
  IF k = 0 THEN <<>> ELSE Preferred(taken[k - 1], cells[k])]
SecondBy(cells) == CHOOSE taken : taken = [k \in 0 .. Len(cells) |->
  IF k = 0 THEN FirstPass(cells)[Len(cells)] ELSE Relaxed(taken[k - 1], cells[k])]

LEMMA FirstPassNamed ==
  ASSUME NEW S, NEW cells \in Seq(S)
  PROVE  /\ FirstPass(cells)[0] = <<>>
         /\ \A k \in 1 .. Len(cells) :
              FirstPass(cells)[k] = Preferred(FirstPass(cells)[k - 1], cells[k])
         /\ \A k \in 0 .. Len(cells) : FirstPass(cells)[k] \in Seq(S)
<1> DEFINE n == Len(cells)
           V == Seq(S)
           step == [p \in (1 .. n) \X V |-> Preferred(p[2], cells[p[1]])]
           Grown(f) == [k \in 0 .. n |-> IF k = 0 THEN <<>> ELSE Preferred(f[k - 1], cells[k])]
<1>1. n \in Nat /\ <<>> \in V /\ \A k \in 1 .. n : cells[k] \in S
  OBVIOUS
<1>2. \A t \in V, x \in S : Preferred(t, x) \in V
  <2>1. TAKE t \in V, x \in S
  <2>2. Append(t, x) \in V
    OBVIOUS
  <2>3. Preferred(t, x) = t \/ Preferred(t, x) = Append(t, x)
    BY Zenon DEF Preferred
  <2>4. QED BY <2>2, <2>3
<1>3. step \in [(1 .. n) \X V -> V]
  <2> HIDE DEF V, n
  <2>1. \A p \in (1 .. n) \X V : p[2] \in V /\ p[1] \in 1 .. n
    OBVIOUS
  <2>2. \A p \in (1 .. n) \X V : Preferred(p[2], cells[p[1]]) \in V
    BY <1>1, <1>2, <2>1
  <2>3. QED BY <2>2
<1>4. PICK f \in [0 .. n -> V] : Follows(f, <<>>, step, n)
  <2> HIDE DEF step, n, V
  <2>1. QED BY <1>1, <1>3, RecursionExists
<1>5. f = Grown(f)
  <2> HIDE DEF n, V
  <2>1. ASSUME NEW k \in 1 .. n PROVE f[k] = Preferred(f[k - 1], cells[k])
    <3>1. k - 1 \in 0 .. n /\ f[k] = step[<<k, f[k - 1]>>]
      <4> HIDE DEF step
      <4>1. QED BY <1>1, <1>4 DEF Follows
    <3>2. <<k, f[k - 1]>> \in (1 .. n) \X V
      BY <3>1
    <3>3. QED BY <3>1, <3>2
  <2>2. f[0] = <<>> /\ \A k \in 0 .. n : k # 0 => k \in 1 .. n
    BY <1>1, <1>4 DEF Follows
  <2>3. QED BY <2>1, <2>2
<1>6. FirstBy(cells) = Grown(FirstBy(cells)) /\ FirstPass(cells) = FirstBy(cells)
  <2>1. \E a : a = Grown(a)
    BY <1>5
  <2>2. FirstBy(cells) = Grown(FirstBy(cells))
    BY <2>1, Zenon DEF FirstBy
  <2>3. QED BY <2>2, Zenon DEF FirstPass, FirstBy
<1> DEFINE g == FirstPass(cells)
<1>7. g = Grown(g)
  BY <1>6, Zenon
<1> HIDE DEF g
<1>8. g[0] = <<>> /\ \A k \in 1 .. n : g[k] = Preferred(g[k - 1], cells[k])
  <2>1. 0 \in 0 .. n /\ \A k \in 1 .. n : k \in 0 .. n /\ k # 0
    BY <1>1
  <2> HIDE DEF n
  <2>2. QED BY <1>7, <2>1
<1> DEFINE G == {k \in 0 .. n : g[k] \in V}
<1>9. 0 \in G
  <2> HIDE DEF V
  <2>1. QED BY <1>1, <1>8
<1>10. ASSUME NEW k \in 1 .. n, k - 1 \in G PROVE k \in G
  <2>1. k \in 0 .. n /\ g[k] = Preferred(g[k - 1], cells[k]) /\ g[k - 1] \in V /\ cells[k] \in S
    BY <1>1, <1>8, <1>10
  <2> HIDE DEF V
  <2>2. QED BY <1>2, <2>1
<1>11. \A k \in 0 .. n : k \in G
  <2> HIDE DEF G, n
  <2>1. QED BY <1>1, <1>9, <1>10, Upwards
<1>12. QED BY <1>8, <1>11 DEF g

LEMMA SecondPassNamed ==
  ASSUME NEW S, NEW cells \in Seq(S)
  PROVE  /\ SecondPass(cells)[0] = FirstPass(cells)[Len(cells)]
         /\ \A k \in 1 .. Len(cells) :
              SecondPass(cells)[k] = Relaxed(SecondPass(cells)[k - 1], cells[k])
         /\ \A k \in 0 .. Len(cells) : SecondPass(cells)[k] \in Seq(S)
<1> DEFINE n == Len(cells)
           V == Seq(S)
           b == FirstPass(cells)[Len(cells)]
           step == [p \in (1 .. n) \X V |-> Relaxed(p[2], cells[p[1]])]
           Grown(f) == [k \in 0 .. n |-> IF k = 0 THEN b ELSE Relaxed(f[k - 1], cells[k])]
<1>1. n \in Nat /\ b \in V /\ \A k \in 1 .. n : cells[k] \in S
  <2>1. n \in Nat /\ n \in 0 .. n /\ \A k \in 1 .. n : cells[k] \in S
    OBVIOUS
  <2>2. QED BY <2>1, FirstPassNamed
<1>2. \A t \in V, x \in S : Relaxed(t, x) \in V
  <2>1. TAKE t \in V, x \in S
  <2>2. Append(t, x) \in V
    OBVIOUS
  <2>3. Relaxed(t, x) = t \/ Relaxed(t, x) = Append(t, x)
    BY Zenon DEF Relaxed
  <2>4. QED BY <2>2, <2>3
<1>3. step \in [(1 .. n) \X V -> V]
  <2> HIDE DEF V, n, b
  <2>1. \A p \in (1 .. n) \X V : p[2] \in V /\ p[1] \in 1 .. n
    OBVIOUS
  <2>2. \A p \in (1 .. n) \X V : Relaxed(p[2], cells[p[1]]) \in V
    BY <1>1, <1>2, <2>1
  <2>3. QED BY <2>2
<1>4. PICK f \in [0 .. n -> V] : Follows(f, b, step, n)
  <2> HIDE DEF step, n, V, b
  <2>1. QED BY <1>1, <1>3, RecursionExists
<1>5. f = Grown(f)
  <2> HIDE DEF n, V, b
  <2>1. ASSUME NEW k \in 1 .. n PROVE f[k] = Relaxed(f[k - 1], cells[k])
    <3>1. k - 1 \in 0 .. n /\ f[k] = step[<<k, f[k - 1]>>]
      <4> HIDE DEF step
      <4>1. QED BY <1>1, <1>4 DEF Follows
    <3>2. <<k, f[k - 1]>> \in (1 .. n) \X V
      BY <3>1
    <3>3. QED BY <3>1, <3>2
  <2>2. f[0] = b /\ \A k \in 0 .. n : k # 0 => k \in 1 .. n
    BY <1>1, <1>4 DEF Follows
  <2>3. QED BY <2>1, <2>2
<1>6. SecondBy(cells) = Grown(SecondBy(cells)) /\ SecondPass(cells) = SecondBy(cells)
  <2>1. \E a : a = Grown(a)
    BY <1>5
  <2>2. SecondBy(cells) = Grown(SecondBy(cells))
    BY <2>1, Zenon DEF SecondBy
  <2>3. QED BY <2>2, Zenon DEF SecondPass, SecondBy
<1> DEFINE g == SecondPass(cells)
<1>7. g = Grown(g)
  BY <1>6, Zenon
<1> HIDE DEF g, b
<1>8. g[0] = b /\ \A k \in 1 .. n : g[k] = Relaxed(g[k - 1], cells[k])
  <2>1. 0 \in 0 .. n /\ \A k \in 1 .. n : k \in 0 .. n /\ k # 0
    BY <1>1
  <2> HIDE DEF n
  <2>2. QED BY <1>7, <2>1
<1> DEFINE G == {k \in 0 .. n : g[k] \in V}
<1>9. 0 \in G
  <2> HIDE DEF V
  <2>1. QED BY <1>1, <1>8
<1>10. ASSUME NEW k \in 1 .. n, k - 1 \in G PROVE k \in G
  <2>1. k \in 0 .. n /\ g[k] = Relaxed(g[k - 1], cells[k]) /\ g[k - 1] \in V /\ cells[k] \in S
    BY <1>1, <1>8, <1>10
  <2> HIDE DEF V
  <2>2. QED BY <1>2, <2>1
<1>11. \A k \in 0 .. n : k \in G
  <2> HIDE DEF G, n
  <2>1. QED BY <1>1, <1>9, <1>10, Upwards
<1>12. QED BY <1>8, <1>11 DEF g, b

\* Clusters are as many as the candidates at most, and fewer candidates have no more.
LEMMA ClustersFacts ==
  ASSUME NEW S, IsFiniteSet(S)
  PROVE  /\ IsFiniteSet(Clusters(S)) /\ Cardinality(Clusters(S)) \in Nat
         /\ \A R \in SUBSET S : /\ Cardinality(Clusters(R)) \in Nat
                                /\ Cardinality(Clusters(R)) <= Cardinality(Clusters(S))
         /\ \A R, x : Clusters(R \cup {x}) = Clusters(R) \cup {x.cluster}
<1> DEFINE f == [c \in S |-> c.cluster]
<1>1. f \in Surjection(S, Clusters(S))
  BY DEF Surjection, Clusters
<1>2. IsFiniteSet(Clusters(S)) /\ Cardinality(Clusters(S)) \in Nat
  <2> HIDE DEF f
  <2>1. IsFiniteSet(Clusters(S))
    BY <1>1, FS_Surjection
  <2>2. QED BY <2>1, FS_CardinalityType
<1>3. ASSUME NEW R \in SUBSET S
      PROVE  /\ Cardinality(Clusters(R)) \in Nat
             /\ Cardinality(Clusters(R)) <= Cardinality(Clusters(S))
  <2>1. Clusters(R) \in SUBSET Clusters(S)
    BY DEF Clusters
  <2>2. QED BY <1>2, <2>1, FS_Subset, FS_CardinalityType
<1>4. \A R, x : Clusters(R \cup {x}) = Clusters(R) \cup {x.cluster}
  BY DEF Clusters
<1>5. QED BY <1>2, <1>3, <1>4

\* As many clusters as places, or all.
Spread(seq) ==
  \/ Cardinality(Clusters(Range(seq))) >= Len(seq)
  \/ Cardinality(Clusters(Range(seq))) >= Cardinality(Clusters(survivors))

\* What the first pass has taken after k cells: cells of different clusters, from the first
\* on; while there is room, none is passed over whose cluster is not taken.
AfterFirst(cells, k, seq) ==
  /\ Len(seq) <= Deterministic /\ Distinct(seq)
  /\ \A x \in Range(seq) : \E i \in 1 .. k : cells[i] = x
  /\ Spread(seq)
  /\ Len(seq) = Deterministic \/ \A i \in 1 .. k : cells[i].cluster \in Clusters(Range(seq))
  /\ k >= 1 /\ Deterministic >= 1 => Len(seq) >= 1 /\ seq[1] = cells[1]

\* One cell more keeps it so, ...
LEMMA FirstPassStep ==
  ASSUME NEW cells \in Seq(survivors), Distinct(cells), IsFiniteSet(survivors), Deterministic \in Nat,
         NEW k \in 1 .. Len(cells), NEW seq \in Seq(survivors), AfterFirst(cells, k - 1, seq)
  PROVE  AfterFirst(cells, k, Preferred(seq, cells[k]))
<1> DEFINE x == cells[k]
           next == Preferred(seq, x)
<1>1. /\ x \in survivors /\ Len(seq) \in Nat /\ k \in Nat /\ k - 1 \in Nat /\ Len(cells) \in Nat
      /\ \A i \in 1 .. k : i \in 1 .. (k - 1) \/ i = k
      /\ \A i \in 1 .. (k - 1) : i \in 1 .. k /\ i \in 1 .. Len(cells) /\ i # k
  OBVIOUS
<1>2. /\ Len(seq) <= Deterministic /\ Distinct(seq)
      /\ \A y \in Range(seq) : \E i \in 1 .. (k - 1) : cells[i] = y
      /\ Spread(seq)
      /\ Len(seq) = Deterministic \/ \A i \in 1 .. (k - 1) : cells[i].cluster \in Clusters(Range(seq))
      /\ k - 1 >= 1 /\ Deterministic >= 1 => Len(seq) >= 1 /\ seq[1] = cells[1]
  BY DEF AfterFirst
<1>3. k = 1 => Range(seq) = {} /\ Len(seq) = 0 /\ Clusters(Range(seq)) = {}
  <2>1. SUFFICES ASSUME k = 1 PROVE Range(seq) = {} /\ Len(seq) = 0 /\ Clusters(Range(seq)) = {}
    OBVIOUS
  <2>2. 1 .. (k - 1) = {}
    BY <2>1
  <2>3. Range(seq) = {}
    BY <1>2, <2>2
  <2>4. Len(seq) = 0
    <3>1. Cardinality(Range(seq)) = Len(seq)
      BY <1>2, DistinctFacts
    <3>2. QED BY <2>3, <3>1, FS_EmptySet
  <2>5. QED BY <2>3, <2>4 DEF Clusters
<1>4. IsFiniteSet(Range(seq)) /\ Range(seq) \in SUBSET survivors
  BY DistinctFacts
<1> HIDE DEF x
<1>5. CASE Len(seq) >= Deterministic
  <2>1. next = seq
    BY <1>5, Zenon DEF Preferred
  <2>2. Len(seq) = Deterministic
    BY <1>1, <1>2, <1>5
  <2>3. k >= 1 /\ Deterministic >= 1 => Len(seq) >= 1 /\ seq[1] = cells[1]
    <3>1. CASE k = 1
      BY <1>3, <2>2, <3>1
    <3>2. CASE k # 1
      <4>1. k - 1 >= 1
        BY <1>1, <3>2
      <4>2. QED BY <1>2, <4>1
    <3>3. QED BY <3>1, <3>2
  <2>4. \A y \in Range(seq) : \E i \in 1 .. k : cells[i] = y
    BY <1>1, <1>2
  <2>5. AfterFirst(cells, k, seq)
    BY <1>2, <2>2, <2>3, <2>4 DEF AfterFirst
  <2>6. QED BY <2>1, <2>5 DEF x
<1>6. CASE /\ ~(Len(seq) >= Deterministic)
           /\ x.cluster \in Clusters(Range(seq))
           /\ Cardinality(Clusters(Range(seq))) < Cardinality(Clusters(survivors))
  <2>1. next = seq
    BY <1>6, Zenon DEF Preferred
  <2>2. k - 1 >= 1
    BY <1>1, <1>3, <1>6
  <2>3. \A i \in 1 .. k : cells[i].cluster \in Clusters(Range(seq))
    BY <1>1, <1>2, <1>6 DEF x
  <2>4. \A y \in Range(seq) : \E i \in 1 .. k : cells[i] = y
    BY <1>1, <1>2
  <2>5. AfterFirst(cells, k, seq)
    BY <1>2, <2>2, <2>3, <2>4 DEF AfterFirst
  <2>6. QED BY <2>1, <2>5 DEF x
<1>7. CASE /\ ~(Len(seq) >= Deterministic)
           /\ ~(/\ x.cluster \in Clusters(Range(seq))
                /\ Cardinality(Clusters(Range(seq))) < Cardinality(Clusters(survivors)))
  <2>1. next = Append(seq, x)
    BY <1>7, Zenon DEF Preferred
  <2>2. /\ Append(seq, x) \in Seq(survivors) /\ Len(Append(seq, x)) = Len(seq) + 1
        /\ Append(seq, x)[Len(seq) + 1] = x
        /\ \A i \in 1 .. Len(seq) : Append(seq, x)[i] = seq[i]
        /\ Range(Append(seq, x)) = Range(seq) \cup {x}
        /\ Distinct(seq) /\ x \notin Range(seq) => Distinct(Append(seq, x))
    BY <1>1, AppendFacts
  <2>3. x \notin Range(seq)
    <3>1. \A i \in 1 .. (k - 1) : cells[i] # x
      BY <1>1 DEF x, Distinct
    <3>2. QED BY <1>2, <3>1
  <2> DEFINE t == Append(seq, x)
             C == Clusters(Range(seq))
  <2>4. Clusters(Range(t)) = C \cup {x.cluster}
    BY <1>4, <2>2, ClustersFacts
  <2> HIDE DEF t
  <2>5. IsFiniteSet(C) /\ Cardinality(C) \in Nat /\ Range(t) \in SUBSET survivors
    <3>1. Range(t) \in SUBSET survivors
      BY <1>1, <1>4, <2>2 DEF t
    <3>2. QED BY <1>4, <3>1, ClustersFacts
  <2>6. Cardinality(Clusters(Range(t))) \in Nat /\ Cardinality(Clusters(survivors)) \in Nat
    BY <2>5, ClustersFacts
  <2>7. /\ x.cluster \notin C => Cardinality(Clusters(Range(t))) = Cardinality(C) + 1
        /\ Cardinality(C) <= Cardinality(Clusters(Range(t)))
    <3>1. x.cluster \in C => Clusters(Range(t)) = C
      BY <2>4
    <3> HIDE DEF C
    <3>2. x.cluster \notin C => Cardinality(C \cup {x.cluster}) = Cardinality(C) + 1
      BY <2>5, FS_AddElement
    <3>3. CASE x.cluster \in C
      BY <2>5, <3>1, <3>3
    <3>4. CASE x.cluster \notin C
      <4>1. Cardinality(Clusters(Range(t))) = Cardinality(C) + 1
        BY <2>4, <3>2, <3>4
      <4>2. QED BY <2>5, <3>4, <4>1
    <3>5. QED BY <3>3, <3>4
  <2>8. Spread(t)
    <3>1. CASE x.cluster \notin C
      <4>1. CASE Cardinality(C) >= Len(seq)
        <5>1. Cardinality(Clusters(Range(t))) >= Len(t)
          BY <1>1, <2>2, <2>5, <2>7, <3>1, <4>1 DEF t
        <5>2. QED BY <5>1 DEF Spread
      <4>2. CASE Cardinality(C) >= Cardinality(Clusters(survivors))
        <5>1. Cardinality(Clusters(Range(t))) >= Cardinality(Clusters(survivors))
          BY <2>5, <2>6, <2>7, <4>2
        <5>2. QED BY <5>1 DEF Spread
      <4>3. QED BY <1>2, <4>1, <4>2 DEF Spread
    <3>2. CASE x.cluster \in C
      <4>1. Cardinality(C) >= Cardinality(Clusters(survivors))
        BY <1>7, <2>5, <2>6, <3>2
      <4>2. Cardinality(Clusters(Range(t))) >= Cardinality(Clusters(survivors))
        BY <2>5, <2>6, <2>7, <4>1
      <4>3. QED BY <4>2 DEF Spread
    <3>3. QED BY <3>1, <3>2
  <2>9. Len(t) <= Deterministic /\ Distinct(t)
    BY <1>1, <1>2, <1>7, <2>2, <2>3 DEF t
  <2>10. \A y \in Range(t) : \E i \in 1 .. k : cells[i] = y
    <3>1. k \in 1 .. k /\ cells[k] = x
      BY <1>1 DEF x
    <3>2. \A y \in Range(t) : y \in Range(seq) \/ y = x
      BY <2>2 DEF t
    <3>3. QED BY <1>1, <1>2, <3>1, <3>2
  <2>11. Len(t) = Deterministic \/ \A i \in 1 .. k : cells[i].cluster \in Clusters(Range(t))
    <3>1. Len(seq) # Deterministic
      BY <1>1, <1>7
    <3>2. \A i \in 1 .. (k - 1) : cells[i].cluster \in C
      BY <1>2, <3>1
    <3>3. \A i \in 1 .. k : cells[i].cluster \in Clusters(Range(t))
      BY <1>1, <2>4, <3>2 DEF x
    <3>4. QED BY <3>3
  <2>12. Len(t) >= 1 /\ t[1] = cells[1]
    <3>1. CASE k = 1
      <4>1. Len(seq) = 0 /\ Len(seq) + 1 = 1
        BY <1>3, <3>1
      <4>2. QED BY <2>2, <3>1, <4>1 DEF t, x
    <3>2. CASE k # 1
      <4>1. k - 1 >= 1 /\ Deterministic >= 1
        BY <1>1, <1>7, <3>2
      <4>2. Len(seq) >= 1 /\ seq[1] = cells[1] /\ 1 \in 1 .. Len(seq)
        BY <1>1, <1>2, <4>1
      <4>3. QED BY <1>1, <2>2, <4>2 DEF t
    <3>3. QED BY <3>1, <3>2
  <2>13. AfterFirst(cells, k, t)
    BY <2>8, <2>9, <2>10, <2>11, <2>12 DEF AfterFirst
  <2>14. QED BY <2>1, <2>13 DEF t, x
<1>8. QED BY <1>5, <1>6, <1>7

\* ... and so it is after the last one.
LEMMA FirstPassFacts ==
  ASSUME NEW cells \in Seq(survivors), Distinct(cells), IsFiniteSet(survivors), Deterministic \in Nat
  PROVE  /\ FirstPass(cells)[Len(cells)] \in Seq(survivors)
         /\ AfterFirst(cells, Len(cells), FirstPass(cells)[Len(cells)])
<1> DEFINE n == Len(cells)
           G == {k \in 0 .. n : AfterFirst(cells, k, FirstPass(cells)[k])}
<1>1. n \in Nat
  OBVIOUS
<1>2. 0 \in G
  <2>1. FirstPass(cells)[0] = <<>>
    BY FirstPassNamed
  <2>2. Len(<<>>) = 0 /\ Range(<<>>) = {} /\ Distinct(<<>>) /\ 1 .. 0 = {}
    BY DEF Range, Distinct
  <2>3. Cardinality(Clusters({})) >= 0
    <3>1. Clusters({}) = {}
      BY DEF Clusters
    <3>2. QED BY <3>1, FS_EmptySet
  <2>4. Spread(<<>>)
    BY <2>2, <2>3 DEF Spread
  <2>5. AfterFirst(cells, 0, <<>>)
    BY <2>2, <2>4 DEF AfterFirst
  <2>6. QED BY <1>1, <2>1, <2>5
<1>3. ASSUME NEW k \in 1 .. n, k - 1 \in G PROVE k \in G
  <2>1. /\ k \in 0 .. n /\ k - 1 \in 0 .. n
        /\ FirstPass(cells)[k] = Preferred(FirstPass(cells)[k - 1], cells[k])
        /\ FirstPass(cells)[k - 1] \in Seq(survivors)
        /\ AfterFirst(cells, k - 1, FirstPass(cells)[k - 1])
    BY <1>1, <1>3, FirstPassNamed
  <2>2. AfterFirst(cells, k, Preferred(FirstPass(cells)[k - 1], cells[k]))
    BY <2>1, FirstPassStep
  <2>3. QED BY <2>1, <2>2
<1>4. \A k \in 0 .. n : k \in G
  <2> HIDE DEF G, n
  <2>1. QED BY <1>1, <1>2, <1>3, Upwards
<1>5. n \in 0 .. n
  BY <1>1
<1>6. QED BY <1>4, <1>5, FirstPassNamed

\* The second pass only adds.
Extends(seq, begin) ==
  Len(begin) <= Len(seq) /\ \A i \in 1 .. Len(begin) : seq[i] = begin[i]

LEMMA SecondPassFacts ==
  ASSUME NEW cells \in Seq(survivors), Distinct(cells), IsFiniteSet(survivors), Deterministic \in Nat
  PROVE  LET seq == SecondPass(cells)[Len(cells)]
         IN  /\ seq \in Seq(survivors) /\ Distinct(seq) /\ Len(seq) <= Deterministic
             /\ Extends(seq, FirstPass(cells)[Len(cells)])
             /\ Range(seq) \subseteq Range(cells)
<1> DEFINE n == Len(cells)
           b == FirstPass(cells)[n]
           Good(seq) == /\ Distinct(seq) /\ Len(seq) <= Deterministic /\ Extends(seq, b)
                        /\ Range(seq) \subseteq Range(cells)
           G == {k \in 0 .. n : Good(SecondPass(cells)[k])}
<1>1. n \in Nat
  OBVIOUS
<1>2. b \in Seq(survivors) /\ AfterFirst(cells, n, b)
  BY FirstPassFacts
<1> HIDE DEF b
<1>3. 0 \in G
  <2>1. SecondPass(cells)[0] = b
    BY SecondPassNamed DEF b
  <2>2. Range(b) \subseteq Range(cells)
    BY <1>2, DistinctFacts DEF AfterFirst
  <2>3. Len(b) \in Nat
    BY <1>2
  <2>4. Good(b)
    BY <1>2, <2>2, <2>3 DEF AfterFirst, Extends
  <2>5. QED BY <1>1, <2>1, <2>4
<1>4. ASSUME NEW k \in 1 .. n, k - 1 \in G PROVE k \in G
  <2> DEFINE seq == SecondPass(cells)[k - 1]
             x == cells[k]
  <2>1. /\ k \in 0 .. n /\ k - 1 \in 0 .. n /\ x \in survivors /\ x \in Range(cells)
        /\ SecondPass(cells)[k] = Relaxed(seq, x) /\ seq \in Seq(survivors)
    <3>1. x \in Range(cells)
      BY <1>1 DEF Range
    <3>2. QED BY <1>1, <3>1, SecondPassNamed
  <2>2. Good(seq)
    BY <1>4
  <2> HIDE DEF seq, x
  <2>3. CASE Len(seq) >= Deterministic \/ x \in Range(seq)
    <3>1. Relaxed(seq, x) = seq
      BY <2>3, Zenon DEF Relaxed
    <3>2. QED BY <2>1, <2>2, <3>1
  <2>4. CASE ~(Len(seq) >= Deterministic \/ x \in Range(seq))
    <3>1. Relaxed(seq, x) = Append(seq, x)
      BY <2>4, Zenon DEF Relaxed
    <3>2. /\ Len(Append(seq, x)) = Len(seq) + 1
          /\ \A i \in 1 .. Len(seq) : Append(seq, x)[i] = seq[i]
          /\ Range(Append(seq, x)) = Range(seq) \cup {x}
          /\ Distinct(Append(seq, x))
      BY <2>1, <2>2, <2>4, AppendFacts
    <3>3. Len(seq) \in Nat /\ Len(b) \in Nat
      BY <1>2, <2>1
    <3>4. Len(Append(seq, x)) <= Deterministic
      BY <2>4, <3>2, <3>3
    <3>5. Extends(Append(seq, x), b)
      <4>1. Len(b) <= Len(seq) /\ \A i \in 1 .. Len(b) : i \in 1 .. Len(seq) /\ seq[i] = b[i]
        BY <2>2, <3>3 DEF Extends
      <4>2. QED BY <3>2, <3>3, <4>1 DEF Extends
    <3>6. Good(Append(seq, x))
      BY <2>1, <2>2, <3>2, <3>4, <3>5
    <3>7. QED BY <2>1, <3>1, <3>6
  <2>5. QED BY <2>3, <2>4
<1>5. \A k \in 0 .. n : k \in G
  <2> HIDE DEF G, n
  <2>1. QED BY <1>1, <1>3, <1>4, Upwards
<1>6. n \in 0 .. n /\ SecondPass(cells)[n] \in Seq(survivors)
  BY <1>1, SecondPassNamed
<1>7. QED BY <1>5, <1>6 DEF b

\* The archive begins with a best survivor.
LEMMA ArchiveFacts ==
  ASSUME Keyed(survivors)
  PROVE  /\ Archive \in Seq(survivors) /\ Distinct(Archive)
         /\ IsFiniteSet(Range(Archive)) /\ Range(Archive) \in SUBSET survivors
         /\ survivors # {} =>
              Len(Archive) >= 1 /\ \A c \in survivors : Archive[1].topsis >= c.topsis
<1> DEFINE B == BestOfCells(survivors)
           n == Cardinality(survivors)
<1>1. B \in SUBSET survivors /\ Archive = Sorted(B)
  BY DiversityNamed DEF BestOfCells
<1>2. Keyed(B)
  <2> HIDE DEF B
  <2>1. IsFiniteSet(B)
    BY <1>1, FS_Subset DEF Keyed
  <2>2. QED BY <1>1, <2>1 DEF Keyed
<1> HIDE DEF B
<1>3. /\ Cardinality(B) \in Nat /\ Archive \in Seq(B) /\ Len(Archive) = Cardinality(B)
      /\ \A r \in B : \E i \in 1 .. Len(Archive) : Archive[i] = r
      /\ \A i, j \in 1 .. Len(Archive) : i < j => Better(Archive[i], Archive[j])
      /\ \A i, j \in 1 .. Len(Archive) : Archive[i] = Archive[j] => i = j
  BY <1>1, <1>2, SortedFacts
<1>4. Archive \in Seq(survivors) /\ Distinct(Archive)
  BY <1>1, <1>3 DEF Distinct
<1>5. ASSUME survivors # {}
      PROVE  Len(Archive) >= 1 /\ \A c \in survivors : Archive[1].topsis >= c.topsis
  <2>1. /\ n \in Nat /\ Sorted(survivors) \in Seq(survivors) /\ Len(Sorted(survivors)) = n
        /\ \A r \in survivors : \E i \in 1 .. n : Sorted(survivors)[i] = r
        /\ \A i, j \in 1 .. n : i < j => Better(Sorted(survivors)[i], Sorted(survivors)[j])
    BY SortedFacts
  <2> DEFINE b == Sorted(survivors)[1]
  <2>2. 1 \in 1 .. n /\ b \in survivors
    <3>1. PICK r \in survivors : TRUE
      BY <1>5
    <3>2. n >= 1
      BY <2>1
    <3>3. QED BY <2>1, <3>2
  <2>3. \A c \in survivors : c = b \/ Better(b, c)
    <3>1. TAKE c \in survivors
    <3>2. PICK i \in 1 .. n : Sorted(survivors)[i] = c
      BY <2>1
    <3>3. i = 1 \/ 1 < i
      BY <2>1
    <3>4. QED BY <2>1, <2>2, <3>2, <3>3
  <2> HIDE DEF b, n
  <2>4. \A c \in survivors : ~Better(c, b)
    BY <2>2, <2>3, BetterFacts
  <2>5. b \in B
    BY <2>2, <2>4 DEF B, BestOfCells
  <2>6. PICK i \in 1 .. Len(Archive) : Archive[i] = b
    BY <1>3, <2>5
  <2>7. i \in Nat /\ 1 <= i /\ i <= Len(Archive) /\ Len(Archive) \in Nat
    BY <1>3
  <2>8. 1 \in 1 .. Len(Archive)
    BY <2>7
  <2>9. Archive[1] \in survivors
    BY <1>4, <2>8
  <2>10. ~(1 < i)
    <3>1. 1 < i => Better(Archive[1], b)
      BY <1>3, <2>6, <2>8
    <3>2. QED BY <2>4, <2>9, <3>1
  <2>11. Archive[1] = b
    BY <2>6, <2>7, <2>10
  <2>12. \A c \in survivors : b.topsis >= c.topsis
    <3>1. TAKE c \in survivors
    <3>2. b.topsis \in Int /\ c.topsis \in Int
      BY <2>2 DEF Keyed
    <3>3. QED BY <2>3, <3>2 DEF Better
  <2>13. QED BY <2>7, <2>11, <2>12
<1>6. QED BY <1>4, <1>5, DistinctFacts

\* A set in some order.
LEMMA DrawFacts ==
  ASSUME NEW D, IsFiniteSet(D)
  PROVE  /\ SetToSeq(D) \in Seq(D) /\ Len(SetToSeq(D)) = Cardinality(D)
         /\ Cardinality(D) \in Nat
         /\ Distinct(SetToSeq(D))
<1>1. Cardinality(D) \in Nat /\ ExistsBijection(1 .. Cardinality(D), D)
  BY FS_CardinalityType
<1>2. \E f \in [1 .. Cardinality(D) -> D] : IsInjective(f)
  BY <1>1 DEF ExistsBijection, Bijection, Injection
<1>3. SetToSeq(D) \in [1 .. Cardinality(D) -> D] /\ IsInjective(SetToSeq(D))
  BY <1>2, Zenon DEF SetToSeq
<1>4. SetToSeq(D) \in Seq(D) /\ Len(SetToSeq(D)) = Cardinality(D)
  BY <1>1, <1>3
<1>5. QED BY <1>1, <1>3, <1>4, DistinctFacts

\* What is right about a selection.
WellChosen(ch, sv, cf) ==
  /\ ch \in Seq(sv) /\ Distinct(ch) /\ Len(ch) = TargetOf(sv, cf)
  /\ DeterministicOf(sv, cf) > 0 =>
       /\ \A c \in sv : ch[1].topsis >= c.topsis
       /\ Cardinality(Clusters(Range(First(DeterministicOf(sv, cf), ch))))
            >= Min({DeterministicOf(sv, cf), Cardinality(Clusters(Range(Sorted(BestOfCells(sv)))))})

\* A selection made as select_diverse_candidates makes it is right, whatever is drawn.
LEMMA ChosenFacts ==
  ASSUME Keyed(survivors), config \in Configs,
         NEW drawn \in SUBSET (Range(Archive) \ Range(DiverseChoice)),
         Cardinality(drawn)
           = Min({Target - Deterministic, Cardinality(Range(Archive) \ Range(DiverseChoice))})
  PROVE  WellChosen(Backfilled(DiverseChoice \o SetToSeq(drawn)), survivors, config)
<1> DEFINE begin == FirstPass(Archive)[Len(Archive)]
           others == Range(Archive) \ Range(DiverseChoice)
           q == SetToSeq(drawn)
           taken == DiverseChoice \o q
           rest == survivors \ Range(taken)
           ch == Backfilled(taken)
<1>1. /\ IsFiniteSet(survivors) /\ Cardinality(survivors) \in Nat
      /\ Target \in Nat /\ Target <= Cardinality(survivors)
      /\ Deterministic \in Nat /\ Deterministic <= Target
  BY TargetFacts DEF Keyed
<1>2. /\ Archive \in Seq(survivors) /\ Distinct(Archive)
      /\ IsFiniteSet(Range(Archive)) /\ Range(Archive) \in SUBSET survivors
      /\ survivors # {} =>
           Len(Archive) >= 1 /\ \A c \in survivors : Archive[1].topsis >= c.topsis
  BY ArchiveFacts
<1>3. begin \in Seq(survivors) /\ AfterFirst(Archive, Len(Archive), begin)
  BY <1>1, <1>2, FirstPassFacts
<1>4. /\ DiverseChoice \in Seq(survivors) /\ Distinct(DiverseChoice)
      /\ Len(DiverseChoice) <= Deterministic /\ Extends(DiverseChoice, begin)
  BY <1>1, <1>2, SecondPassFacts DEF DiverseChoice
<1>5. /\ IsFiniteSet(others) /\ Cardinality(others) \in Nat
      /\ IsFiniteSet(drawn) /\ Cardinality(drawn) \in Nat
      /\ Cardinality(drawn) <= Target - Deterministic
  <2>1. IsFiniteSet(others)
    BY <1>2, FS_Difference
  <2> HIDE DEF others
  <2>2. Cardinality(others) \in Nat /\ IsFiniteSet(drawn) /\ Cardinality(drawn) \in Nat
    BY <2>1, FS_Subset, FS_CardinalityType DEF others
  <2>3. Target - Deterministic \in Int /\ Cardinality(others) \in Int
    BY <1>1, <2>2
  <2>4. /\ Target - Deterministic <= Cardinality(others) => Cardinality(drawn) = Target - Deterministic
        /\ Cardinality(others) <= Target - Deterministic => Cardinality(drawn) = Cardinality(others)
    BY <2>3, MinOfTwo DEF others
  <2>5. QED BY <2>1, <2>2, <2>3, <2>4
<1>6. /\ q \in Seq(survivors) /\ Len(q) = Cardinality(drawn) /\ Distinct(q)
      /\ \A x \in Range(q) : x \notin Range(DiverseChoice)
  <2>1. q \in Seq(drawn) /\ Len(q) = Cardinality(drawn) /\ Distinct(q)
    BY <1>5, DrawFacts
  <2> HIDE DEF q
  <2>2. drawn \subseteq survivors /\ Range(q) \subseteq drawn
    BY <1>2, <2>1, DistinctFacts
  <2>3. QED BY <2>1, <2>2
<1> HIDE DEF begin, others, q
<1>7. /\ taken \in Seq(survivors) /\ Len(taken) = Len(DiverseChoice) + Len(q) /\ Distinct(taken)
      /\ \A i \in 1 .. Len(DiverseChoice) : taken[i] = DiverseChoice[i]
  BY <1>4, <1>6, ConcatFacts
<1>8. Len(taken) \in Nat /\ Len(taken) <= Target /\ Len(DiverseChoice) <= Len(taken)
  <2>1. Len(DiverseChoice) \in Nat /\ Len(q) \in Nat
    BY <1>4, <1>6
  <2>2. QED BY <1>1, <1>4, <1>5, <1>6, <1>7, <2>1
<1> HIDE DEF taken
<1>9. /\ IsFiniteSet(Range(taken)) /\ Range(taken) \in SUBSET survivors
      /\ Cardinality(Range(taken)) = Len(taken)
  BY <1>7, DistinctFacts
<1>10. Keyed(rest) /\ Cardinality(rest) = Cardinality(survivors) - Len(taken)
  <2>1. survivors \cap Range(taken) = Range(taken)
    BY <1>9
  <2>2. /\ IsFiniteSet(rest)
        /\ Cardinality(rest) = Cardinality(survivors) - Cardinality(survivors \cap Range(taken))
    BY <1>1, FS_Difference
  <2>3. QED BY <1>9, <2>1, <2>2 DEF Keyed
<1> DEFINE fill == First(Target - Len(taken), Sorted(rest))
<1>11. ch = taken \o fill
  BY Zenon DEF Backfilled, ch
<1> HIDE DEF rest, ch
<1>12. /\ Sorted(rest) \in Seq(rest) /\ Len(Sorted(rest)) = Cardinality(rest)
       /\ \A i, j \in 1 .. Cardinality(rest) : Sorted(rest)[i] = Sorted(rest)[j] => i = j
  BY <1>10, SortedFacts
<1>13. /\ fill \in Seq(rest) /\ Len(fill) = Target - Len(taken) /\ Distinct(fill)
  <2>1. Target - Len(taken) \in Nat /\ Target - Len(taken) <= Len(Sorted(rest))
    BY <1>1, <1>8, <1>10, <1>12
  <2>2. /\ fill \in Seq(rest) /\ Len(fill) = Target - Len(taken)
        /\ \A i \in 1 .. Len(fill) : fill[i] = Sorted(rest)[i]
    BY <1>12, <2>1, FirstFacts
  <2> HIDE DEF fill
  <2>3. \A i \in 1 .. Len(fill) : i \in 1 .. Cardinality(rest)
    BY <1>12, <2>1, <2>2
  <2>4. Distinct(fill)
    BY <1>12, <2>2, <2>3 DEF Distinct
  <2>5. QED BY <2>2, <2>4
<1> HIDE DEF fill
<1>14. fill \in Seq(survivors) /\ \A x \in Range(fill) : x \notin Range(taken)
  <2>1. Range(fill) \subseteq rest
    BY <1>13, DistinctFacts
  <2>2. QED BY <1>13, <2>1 DEF rest
<1>15. /\ ch \in Seq(survivors) /\ Len(ch) = Target /\ Distinct(ch)
       /\ \A i \in 1 .. Len(taken) : ch[i] = taken[i]
  <2>1. /\ taken \o fill \in Seq(survivors) /\ Len(taken \o fill) = Len(taken) + Len(fill)
        /\ \A i \in 1 .. Len(taken) : (taken \o fill)[i] = taken[i]
        /\ Distinct(taken \o fill)
    <3>1. \A x \in Range(fill) : x \notin Range(taken)
      BY <1>14
    <3>2. QED BY <1>7, <1>13, <1>14, <3>1, ConcatFacts
  <2>2. QED BY <1>1, <1>8, <1>11, <1>13, <2>1
<1>16. Len(begin) \in Nat /\ Len(begin) <= Deterministic /\ Len(begin) <= Target
       /\ \A i \in 1 .. Len(begin) : ch[i] = begin[i]
  <2>1. Len(begin) \in Nat /\ Len(begin) <= Len(DiverseChoice) /\ Len(DiverseChoice) \in Nat
    BY <1>3, <1>4 DEF Extends
  <2>2. \A i \in 1 .. Len(begin) : /\ i \in 1 .. Len(DiverseChoice) /\ i \in 1 .. Len(taken)
                                   /\ DiverseChoice[i] = begin[i]
    BY <1>4, <1>8, <2>1 DEF Extends
  <2>3. QED BY <1>1, <1>4, <1>7, <1>15, <2>1, <2>2
<1> DEFINE places == First(Deterministic, ch)
           K == Cardinality(Clusters(Range(Archive)))
<1>17. /\ places \in Seq(survivors) /\ Len(places) = Deterministic
       /\ \A i \in 1 .. Deterministic : places[i] = ch[i]
  BY <1>1, <1>15, FirstFacts
<1> HIDE DEF places
<1>18. Range(begin) \subseteq Range(places) /\ IsFiniteSet(Range(places))
  <2>1. \A i \in 1 .. Len(begin) : i \in 1 .. Deterministic /\ places[i] = begin[i]
    BY <1>1, <1>16, <1>17
  <2>2. \A x \in Range(begin) : \E i \in 1 .. Deterministic : places[i] = x
    BY <1>3, <2>1, DistinctFacts
  <2>3. QED BY <1>17, <2>2, DistinctFacts
<1>19. /\ Cardinality(Clusters(Range(places))) \in Nat
       /\ Cardinality(Clusters(Range(begin))) \in Nat
       /\ Cardinality(Clusters(Range(begin))) <= Cardinality(Clusters(Range(places)))
       /\ K \in Nat /\ K <= Cardinality(Clusters(survivors)) /\ Cardinality(Clusters(survivors)) \in Nat
  <2>1. Range(begin) \in SUBSET Range(places)
    BY <1>18
  <2>2. QED BY <1>1, <1>2, <1>18, <2>1, ClustersFacts
<1>20. Cardinality(Clusters(Range(places))) >= Min({Deterministic, K})
  <2>1. /\ Deterministic <= K => Min({Deterministic, K}) = Deterministic
        /\ K <= Deterministic => Min({Deterministic, K}) = K
    <3>1. Deterministic \in Int /\ K \in Int
      BY <1>1, <1>19
    <3> HIDE DEF K
    <3>2. QED BY <3>1, MinOfTwo
  <2>2. Cardinality(Clusters(Range(begin))) >= Deterministic \/ Cardinality(Clusters(Range(begin))) >= K
    <3>1. CASE Len(begin) = Deterministic
      BY <1>3, <1>19, <3>1 DEF AfterFirst, Spread
    <3>2. CASE Len(begin) # Deterministic
      <4>1. \A i \in 1 .. Len(Archive) : Archive[i].cluster \in Clusters(Range(begin))
        BY <1>3, <3>2 DEF AfterFirst
      <4>2. \A c \in Range(Archive) : c.cluster \in Clusters(Range(begin))
        BY <1>2, <4>1, DistinctFacts
      <4>3. Clusters(Range(Archive)) \in SUBSET Clusters(Range(begin))
        BY <4>2 DEF Clusters
      <4>4. IsFiniteSet(Clusters(Range(begin)))
        <5>1. IsFiniteSet(Range(begin))
          BY <1>3, DistinctFacts
        <5>2. QED BY <5>1, ClustersFacts
      <4>5. K <= Cardinality(Clusters(Range(begin)))
        BY <4>3, <4>4, FS_Subset
      <4>6. QED BY <1>19, <4>5
    <3>3. QED BY <3>1, <3>2
  <2> HIDE DEF K
  <2>3. QED BY <1>1, <1>19, <2>1, <2>2
<1>21. ASSUME Deterministic > 0 PROVE \A c \in survivors : ch[1].topsis >= c.topsis
  <2>1. survivors # {}
    <3>1. Cardinality(survivors) # 0
      BY <1>1, <1>21
    <3>2. QED BY <3>1, FS_EmptySet
  <2>2. Len(Archive) >= 1 /\ Deterministic >= 1
    BY <1>1, <1>2, <1>21, <2>1
  <2>3. Len(begin) >= 1 /\ begin[1] = Archive[1]
    BY <1>3, <2>2 DEF AfterFirst
  <2>4. ch[1] = Archive[1]
    BY <1>16, <2>3
  <2>5. QED BY <1>2, <2>1, <2>4
<1>22. /\ Target = TargetOf(survivors, config) /\ Deterministic = DeterministicOf(survivors, config)
       /\ Archive = Sorted(BestOfCells(survivors))
  BY DiversityNamed
<1>23. WellChosen(ch, survivors, config)
  BY <1>15, <1>20, <1>21, <1>22 DEF WellChosen, places
<1>24. QED BY <1>23 DEF ch, taken, q

----------------------------------------------------------------------------
(* The inductive invariant of scoring and selection.                       *)

\* What is held and written has its type; nothing is left of a process that ended.
ChoiceTyped ==
  /\ results \in Results /\ table \in Tables /\ config \in Configs /\ source \in Sources
  /\ packs \in [Ids -> Ratings \cup {"none"}]
  /\ scoring = NoManifest \/ scoring \subseteq Entries
  /\ selection = NoManifest \/ Range(selection) \subseteq SurvivorsTyped(table)
  /\ phase \in {"idle", "scoring", "diversity", "publishing"}
  /\ loaded \subseteq LoadedManifests(results) /\ scored \subseteq Entries
  /\ phase = "idle" => loaded = {}
  /\ attempts \in 0 .. MaxAttempts /\ kills \in 0 .. MaxKills

\* The survivors are what the funnel lets through, and the selection is made of them.
Selecting == phase \in {"diversity", "publishing"}
OutOfFunnel == \E distinct \in SUBSET table : FromFunnel(distinct)
ChoiceInv ==
  /\ ChoiceTyped
  /\ IF Selecting THEN OutOfFunnel ELSE survivors = {}
  /\ IF phase = "publishing" THEN WellChosen(chosen, survivors, config) ELSE chosen = <<>>

\* It holds initially, ...
LEMMA ChoiceInitially == ChoiceInit => ChoiceInv
<1> SUFFICES ASSUME ChoiceInit PROVE ChoiceInv
  OBVIOUS
<1>1. 0 \in 0 .. MaxAttempts /\ 0 \in 0 .. MaxKills
  BY AttemptsAssumption
<1>2. packs \in [Ids -> Ratings \cup {"none"}]
  BY DEF ChoiceInit
<1>3. ChoiceTyped
  BY <1>1, <1>2 DEF ChoiceInit, ChoiceTyped
<1>4. QED BY <1>3 DEF ChoiceInit, ChoiceInv, Selecting

\* ... what scoring adds has its type, ...
LEMMA EntryTyped ==
  ASSUME results \in Results, NEW m \in LoadedManifests(results)
  PROVE  m.id \in Ids /\ Entry(m) \in Entries /\ Rating(m) \in Ratings
<1>1. m.id \in Ids
  BY ResultsAssumption DEF LoadedManifests
<1>2. Rating(m) \in Ratings
  BY DEF Rating, Ratings
<1>3. HardGatesPassed(m) \in BOOLEAN
  BY DEF HardGatesPassed
<1>4. QED BY <1>1, <1>2, <1>3 DEF Entry, Entries

\* ... every step keeps the types, ...
LEMMA TypedStep ==
  ASSUME ChoiceInv, [ChoiceNext]_choice,
         \A c \in Range(chosen) : phase = "publishing" => c \in SurvivorsTyped(table)
  PROVE  ChoiceTyped'
<1> USE DEF ChoiceInv, ChoiceTyped, inputs, outputs
<1>1. CASE StartScoring
  <2>1. attempts' \in 0 .. MaxAttempts
    BY <1>1, AttemptsAssumption DEF StartScoring
  <2>2. QED BY <1>1, <2>1 DEF StartScoring
<1>2. CASE WriteAggregate
  BY <1>2 DEF WriteAggregate, Ended
<1>3. ASSUME NEW m \in loaded, ScoreCandidate(m) PROVE ChoiceTyped'
  <2>1. m.id \in Ids /\ Entry(m) \in Entries /\ Rating(m) \in Ratings
    BY EntryTyped
  <2>2. packs' \in [Ids -> Ratings \cup {"none"}]
    BY <1>3, <2>1 DEF ScoreCandidate
  <2>3. QED BY <1>3, <2>1, <2>2 DEF ScoreCandidate
<1>4. ASSUME NEW distinct \in SUBSET table, StartSelection(distinct) PROVE ChoiceTyped'
  <2>1. attempts' \in 0 .. MaxAttempts
    BY <1>4, AttemptsAssumption DEF StartSelection
  <2>2. QED BY <1>4, <2>1 DEF StartSelection
<1>5. ASSUME NEW drawn \in SUBSET survivors, SelectDiverse(drawn) PROVE ChoiceTyped'
  BY <1>5 DEF SelectDiverse
<1>6. CASE PublishSelection
  BY <1>6 DEF PublishSelection, Ended
<1>7. ASSUME NEW r \in Results, NewResults(r) PROVE ChoiceTyped'
  BY <1>7 DEF NewResults
<1>8. CASE Kill
  <2>1. kills' \in 0 .. MaxKills
    BY <1>8, AttemptsAssumption DEF Kill
  <2>2. QED BY <1>8, <2>1 DEF Kill, Ended
<1>9. CASE UNCHANGED choice
  BY <1>9 DEF choice
<1>10. QED
  BY <1>1, <1>2, <1>3, <1>4, <1>5, <1>6, <1>7, <1>8, <1>9 DEF ChoiceNext

\* In an invariant state the survivors are typed and can be sorted.
LEMMA InvFacts ==
  ASSUME ChoiceInv
  PROVE  /\ Keyed(survivors) /\ survivors \subseteq SurvivorsTyped(table)
         /\ Range(chosen) \subseteq survivors
<1>1. table \in Tables /\ config \in Configs
  BY DEF ChoiceInv, ChoiceTyped
<1>2. Keyed(survivors) /\ survivors \subseteq SurvivorsTyped(table)
  <2>1. CASE Selecting
    <3>1. PICK distinct \in SUBSET table : FromFunnel(distinct)
      BY <2>1 DEF ChoiceInv, OutOfFunnel
    <3> DEFINE es == EntriesOf(source, scoring, results)
    <3>2. survivors = Survivors(distinct, es, config)
      BY <3>1 DEF FromFunnel
    <3> HIDE DEF es
    <3>3. /\ Keyed(Survivors(distinct, es, config))
          /\ Survivors(distinct, es, config) \subseteq SurvivorsTyped(table)
      BY <1>1, SurvivorsFacts
    <3>4. QED BY <3>2, <3>3
  <2>2. CASE ~Selecting
    <3>1. survivors = {}
      BY <2>2 DEF ChoiceInv
    <3>2. QED BY <3>1, FS_EmptySet DEF Keyed
  <2>3. QED BY <2>1, <2>2
<1>3. Range(chosen) \subseteq survivors
  <2>1. CASE phase = "publishing"
    <3>1. chosen \in Seq(survivors)
      BY <2>1 DEF ChoiceInv, WellChosen
    <3>2. QED BY <3>1, DistinctFacts
  <2>2. CASE phase # "publishing"
    BY <2>2 DEF ChoiceInv, Range
  <2>3. QED BY <2>1, <2>2
<1>4. QED BY <1>2, <1>3

\* ... and every step keeps it.
LEMMA ChoiceStep == ChoiceInv /\ [ChoiceNext]_choice => ChoiceInv'
<1> SUFFICES ASSUME ChoiceInv, [ChoiceNext]_choice PROVE ChoiceInv'
  OBVIOUS
<1> USE DEF inputs, outputs
<1>1. ChoiceTyped'
  BY InvFacts, TypedStep
<1>2. config \in Configs
  BY DEF ChoiceInv, ChoiceTyped
<1>3. CASE StartScoring
  BY <1>1, <1>3 DEF ChoiceInv, StartScoring, Selecting
<1>4. CASE WriteAggregate
  BY <1>1, <1>4 DEF ChoiceInv, WriteAggregate, Ended, Selecting
<1>5. ASSUME NEW m \in loaded, ScoreCandidate(m) PROVE ChoiceInv'
  BY <1>1, <1>5 DEF ChoiceInv, ScoreCandidate, Selecting
<1>6. ASSUME NEW distinct \in SUBSET table, StartSelection(distinct) PROVE ChoiceInv'
  <2>1. /\ Deduplicated(table, distinct) /\ survivors' = Survivors(distinct, ScoringEntries, config)
        /\ UNCHANGED <<table, config, source, scoring, results>>
        /\ phase' = "diversity" /\ chosen' = <<>>
    BY <1>6, FunnelNamed DEF StartSelection
  <2>2. survivors' = Survivors(distinct, EntriesOf(source, scoring, results), config)
    BY <2>1, FunnelNamed
  <2>3. FromFunnel(distinct)'
    BY <2>1, <2>2 DEF FromFunnel
  <2>4. OutOfFunnel'
    BY <2>1, <2>3 DEF OutOfFunnel
  <2>5. QED BY <1>1, <2>1, <2>4 DEF ChoiceInv, Selecting
<1>7. ASSUME NEW drawn \in SUBSET survivors, SelectDiverse(drawn) PROVE ChoiceInv'
  <2>1. /\ phase = "diversity" /\ phase' = "publishing"
        /\ UNCHANGED <<table, config, source, scoring, results, survivors>>
    BY <1>7 DEF SelectDiverse
  <2>2. /\ drawn \in SUBSET (Range(Archive) \ Range(DiverseChoice))
        /\ Cardinality(drawn)
             = Min({Target - Deterministic, Cardinality(Range(Archive) \ Range(DiverseChoice))})
        /\ chosen' = Backfilled(DiverseChoice \o SetToSeq(drawn))
    BY <1>7, Zenon DEF SelectDiverse
  <2>3. WellChosen(chosen', survivors, config)
    BY <1>2, <2>2, InvFacts, ChosenFacts
  <2>4. WellChosen(chosen, survivors, config)'
    BY <2>1, <2>3
  <2>5. PICK distinct \in SUBSET table : FromFunnel(distinct)
    BY <2>1 DEF ChoiceInv, OutOfFunnel, Selecting
  <2>6. FromFunnel(distinct)'
    BY <2>1, <2>5 DEF FromFunnel
  <2>7. OutOfFunnel'
    BY <2>1, <2>6 DEF OutOfFunnel
  <2>8. QED BY <1>1, <2>1, <2>4, <2>7 DEF ChoiceInv, Selecting
<1>8. CASE PublishSelection
  BY <1>1, <1>8 DEF ChoiceInv, PublishSelection, Ended, Selecting
<1>9. ASSUME NEW r \in Results, NewResults(r) PROVE ChoiceInv'
  BY <1>1, <1>9 DEF ChoiceInv, NewResults, Selecting
<1>10. CASE Kill
  BY <1>1, <1>10 DEF ChoiceInv, Kill, Ended, Selecting
<1>11. CASE UNCHANGED choice
  <2>1. UNCHANGED <<table, config, source, scoring, results, survivors, chosen, phase>>
    BY <1>11 DEF choice
  <2>2. Selecting => OutOfFunnel'
    <3>1. SUFFICES ASSUME Selecting PROVE OutOfFunnel'
      OBVIOUS
    <3>2. PICK distinct \in SUBSET table : FromFunnel(distinct)
      BY <3>1 DEF ChoiceInv, OutOfFunnel
    <3>3. FromFunnel(distinct)'
      BY <2>1, <3>2 DEF FromFunnel
    <3>4. QED BY <2>1, <3>3 DEF OutOfFunnel
  <2>3. QED BY <1>1, <2>1, <2>2 DEF ChoiceInv, Selecting
<1>12. QED
  BY <1>3, <1>4, <1>5, <1>6, <1>7, <1>8, <1>9, <1>10, <1>11 DEF ChoiceNext

LEMMA ChoiceInvHolds == ChoiceSpec => []ChoiceInv
<1>1. QED BY ChoiceInitially, ChoiceStep, PTL DEF ChoiceSpec

----------------------------------------------------------------------------
(* What is selected.                                                       *)

(* No candidate is selected whose gates confidence scoring knows to have   *)
(* failed, although the funnel decides the gates anew and by other rules,  *)
(* and the gauntlet may run again between two selections                   *)
(* (four_stage_funnel, with the manifests of the gauntlet).                *)
THEOREM NoFailedGateGetsThrough == ChoiceSpec => []NoFailedGateSelected
<1>1. ChoiceInv => NoFailedGateSelected
  <2>1. SUFFICES ASSUME ChoiceInv, Selecting, source = "manifests",
                        NEW m \in LoadedManifests(results), NEW c \in survivors \cup Range(chosen),
                        m.id = c.id
                 PROVE  HardGatesPassed(m)
    BY DEF NoFailedGateSelected, Selecting
  <2> DEFINE es == LoadedManifests(results)
  <2>2. results \in Results /\ table \in Tables /\ config \in Configs /\ c \in survivors
    BY <2>1, InvFacts DEF ChoiceInv, ChoiceTyped
  <2>3. PICK distinct \in SUBSET table : FromFunnel(distinct)
    BY <2>1 DEF ChoiceInv, OutOfFunnel
  <2>4. survivors = Survivors(distinct, es, config)
    <3>1. EntriesOf(source, scoring, results) = es
      BY <2>1 DEF EntriesOf
    <3>2. QED BY <2>3, <3>1 DEF FromFunnel
  <2> HIDE DEF es
  <2>5. PICK r \in FunnelRows(distinct, es, config) :
          c = SurvivorOf(r, FunnelRows(distinct, es, config), distinct)
    BY <2>2, <2>4, SurvivorsFacts
  <2>6. c.id = r.id /\ PassesBy(r, es, config)
    BY <2>2, <2>5, SurvivorFields, FunnelRowsFacts
  <2>7. m \in es /\ m.id = r.id
    BY <2>1, <2>6 DEF es
  <2>8. PICK e \in es : /\ e.id = r.id /\ (config.dsr_required => e.dsr)
                        /\ PboGate(e) /\ CostStressGate(e)
    BY <2>6, <2>7 DEF PassesBy
  <2>9. e = m
    BY <2>2, <2>7, <2>8, ResultsAssumption DEF es, LoadedManifests
  <2>10. QED BY <2>8, <2>9 DEF HardGatesPassed, DsrGate
<1>2. QED BY <1>1, ChoiceInvHolds, PTL

\* The rows that survive are all those ranked, so that their ranks are depths.
LEMMA DepthsHold == ChoiceInv => RanksAreDepths
<1>1. SUFFICES ASSUME ChoiceInv, NEW distinct \in SUBSET table, survivors = Funnel(distinct),
                      NEW r \in distinct, NEW c \in survivors, r.id = c.id
               PROVE  /\ \A s \in distinct, d \in survivors :
                           s.id = d.id /\ Dominates(s, r) => d.rank < c.rank
                      /\ c.rank > 1 => \E s \in distinct, d \in survivors :
                           s.id = d.id /\ Dominates(s, r) /\ d.rank = c.rank - 1
  BY DEF RanksAreDepths
<1> DEFINE es == ScoringEntries
           F == FunnelRows(distinct, es, config)
<1>2. table \in Tables /\ config \in Configs
  BY <1>1 DEF ChoiceInv, ChoiceTyped
<1>3. survivors = Survivors(distinct, es, config)
  BY <1>1, FunnelNamed
<1> HIDE DEF es
<1>4. /\ F \in SUBSET distinct /\ F \in SUBSET table
      /\ \A d \in survivors : \E q \in F : d = SurvivorOf(q, F, distinct)
  BY <1>2, <1>3, FunnelRowsFacts, SurvivorsFacts
<1>5. \A q \in F : SurvivorOf(q, F, distinct) \in survivors
  BY <1>3, RankedNamed DEF Survivors
<1> HIDE DEF F
<1>6. \A p, q \in table : p.id = q.id => p = q
  BY <1>2, TablesAssumption
<1>7. ASSUME NEW s \in distinct, NEW d \in survivors, s.id = d.id
      PROVE  s \in F /\ d = SurvivorOf(s, F, distinct) /\ d.rank = ParetoRank(s, F)
  <2>1. PICK q \in F : d = SurvivorOf(q, F, distinct)
    BY <1>4
  <2>2. q.id = s.id
    BY <1>7, <2>1, SurvivorFields
  <2>3. q = s
    BY <1>4, <1>6, <2>2
  <2>4. QED BY <2>1, <2>3, SurvivorFields
<1>8. Comparable(F)
  BY <1>2, <1>4, TableFacts
<1>9. r \in F /\ c.rank = ParetoRank(r, F)
  BY <1>1, <1>7
<1>10. ASSUME NEW s \in distinct, NEW d \in survivors, s.id = d.id, Dominates(s, r)
       PROVE  d.rank < c.rank
  BY <1>7, <1>8, <1>9, <1>10, DepthFacts
<1>11. ASSUME c.rank > 1
       PROVE  \E s \in distinct, d \in survivors :
                s.id = d.id /\ Dominates(s, r) /\ d.rank = c.rank - 1
  <2>1. PICK s \in F : Dominates(s, r) /\ ParetoRank(s, F) = ParetoRank(r, F) - 1
    BY <1>8, <1>9, <1>11, DepthFacts
  <2> DEFINE d == SurvivorOf(s, F, distinct)
  <2>2. s \in distinct /\ d \in survivors /\ s.id = d.id /\ d.rank = ParetoRank(s, F)
    BY <1>4, <1>5, SurvivorFields
  <2> HIDE DEF d
  <2>3. QED BY <1>9, <2>1, <2>2
<1>12. QED BY <1>10, <1>11

\* What is published is well chosen.
LEMMA SpreadHolds == ChoiceInv => FillsTarget /\ ClustersSpread
<1>1. SUFFICES ASSUME ChoiceInv, phase = "publishing"
               PROVE  /\ IsInjective(chosen) /\ Len(chosen) = Target /\ Range(chosen) \subseteq survivors
                      /\ ClustersSpread
  BY DEF FillsTarget, ClustersSpread
<1>2. WellChosen(chosen, survivors, config)
  BY <1>1 DEF ChoiceInv
<1>3. /\ Target = TargetOf(survivors, config) /\ Deterministic = DeterministicOf(survivors, config)
      /\ Archive = Sorted(BestOfCells(survivors))
  BY DiversityNamed
<1>4. chosen \in Seq(survivors) /\ Distinct(chosen) /\ Len(chosen) = Target
  BY <1>2, <1>3 DEF WellChosen
<1>5. IsInjective(chosen) /\ Range(chosen) \subseteq survivors
  BY <1>4, DistinctFacts
<1>6. ClustersSpread
  BY <1>2, <1>3, Zenon DEF ClustersSpread, WellChosen
<1>7. QED BY <1>4, <1>5, <1>6

(* Whatever the parts of the selection fall short, it has no candidate     *)
(* twice, is as large as the survivors allow, begins with a best one and   *)
(* spreads over the clusters; Pareto ranks are depths of domination        *)
(* (select_diverse_candidates, pareto_frontier).                           *)
THEOREM SelectionDiverse == ChoiceSpec => []SelectionIsDiverse
<1>1. ChoiceInv => ChoiceTypeOK
  <2>1. SurvivorsTyped(table) = [id : Ids, topsis : Int, cluster : Int,
                                 cell : {r.cell : r \in table}, rank : Nat \ {0}]
    BY Zenon DEF SurvivorsTyped
  <2>2. QED BY <2>1 DEF ChoiceInv, ChoiceTyped, ChoiceTypeOK
<1>2. ChoiceInv => SelectionIsDiverse
  BY <1>1, DepthsHold, SpreadHolds DEF SelectionIsDiverse
<1>3. QED BY <1>2, ChoiceInvHolds, PTL

----------------------------------------------------------------------------
(* What combinations train on.                                             *)

\* The bars of ranges.
Covered(rs) == UNION {BarsOf(r[1], r[2]) : r \in rs}

\* One more range.
LEMMA CoveredMore ==
  ASSUME NEW rs, NEW a, NEW b
  PROVE  Covered(rs \cup {<<a, b>>}) = Covered(rs) \cup BarsOf(a, b)
<1> DEFINE p == <<a, b>>
<1>1. p[1] = a /\ p[2] = b
  OBVIOUS
<1> HIDE DEF p
<1>2. Covered(rs \cup {p}) = Covered(rs) \cup BarsOf(p[1], p[2])
  BY DEF Covered
<1>3. QED BY <1>1, <1>2 DEF p

\* What the scan of a group has found of the bars from first up to end.
FoundUpTo(found, first, end, excluded) ==
  /\ found.start = NoStart \/ found.start \in BarsOf(first, end)
  /\ Covered(found.kept) \cup (IF found.start = NoStart THEN {} ELSE BarsOf(found.start, end))
       = {b \in BarsOf(first, end) : b \notin excluded}

FoundType == [kept : SUBSET (Int \X Int), start : Int]

\* What one bar of the scan changes.
LEMMA ScanTyped ==
  ASSUME NEW found \in FoundType, NEW b \in Int, NEW excluded
  PROVE  /\ Scan(found, b, excluded) \in FoundType
         /\ b \notin excluded => /\ Scan(found, b, excluded).kept = found.kept
                                 /\ Scan(found, b, excluded).start
                                      = IF found.start = NoStart THEN b ELSE found.start
         /\ b \in excluded /\ found.start # NoStart =>
              /\ Scan(found, b, excluded).kept = found.kept \cup {<<found.start, b>>}
              /\ Scan(found, b, excluded).start = NoStart
         /\ b \in excluded /\ found.start = NoStart => Scan(found, b, excluded) = found
<1>1. found.kept \in SUBSET (Int \X Int) /\ found.start \in Int /\ NoStart \in Int
  BY DEF FoundType, NoStart
<1>2. CASE b \notin excluded
  <2> DEFINE t == IF found.start = NoStart THEN b ELSE found.start
  <2>1. Scan(found, b, excluded) = [found EXCEPT !.start = t]
    BY <1>2 DEF Scan
  <2>2. t \in Int
    BY <1>1
  <2> HIDE DEF t
  <2>3. QED BY <1>2, <2>1, <2>2 DEF FoundType, t
<1>3. CASE b \in excluded
  BY <1>1, <1>3 DEF Scan, FoundType
<1>4. QED BY <1>2, <1>3

\* One more bar keeps what is found right.
LEMMA ScanStep ==
  ASSUME NEW found \in FoundType, NEW first \in Nat, NEW b \in Nat, first <= b, NEW excluded,
         FoundUpTo(found, first, b, excluded)
  PROVE  FoundUpTo(Scan(found, b, excluded), first, b + 1, excluded)
<1> DEFINE next == Scan(found, b, excluded)
           C == Covered(found.kept)
           F == {c \in BarsOf(first, b) : c \notin excluded}
           G == {c \in BarsOf(first, b + 1) : c \notin excluded}
<1>1. /\ found.start \in Int /\ b \in Int
      /\ found.start = NoStart \/ found.start \in BarsOf(first, b)
      /\ C \cup (IF found.start = NoStart THEN {} ELSE BarsOf(found.start, b)) = F
  BY DEF FoundType, FoundUpTo
<1>2. BarsOf(first, b + 1) = BarsOf(first, b) \cup {b} /\ b # NoStart /\ b \in BarsOf(first, b + 1)
  BY DEF BarsOf, NoStart
<1>3. found.start # NoStart =>
        found.start <= b /\ BarsOf(found.start, b + 1) = BarsOf(found.start, b) \cup {b}
  BY <1>1 DEF BarsOf
<1>4. CASE b \notin excluded
  <2>1. next.kept = found.kept /\ next.start = IF found.start = NoStart THEN b ELSE found.start
    BY <1>1, <1>4, ScanTyped
  <2>2. G = F \cup {b}
    BY <1>2, <1>4
  <2>3. CASE found.start = NoStart
    <3>1. BarsOf(b, b + 1) = {b}
      BY DEF BarsOf
    <3>2. C \cup BarsOf(b, b + 1) = G
      BY <1>1, <2>2, <2>3, <3>1
    <3>3. QED BY <1>2, <2>1, <2>3, <3>2 DEF FoundUpTo
  <2>4. CASE found.start # NoStart
    <3>1. C \cup BarsOf(found.start, b + 1) = G
      BY <1>1, <1>3, <2>2, <2>4
    <3>2. found.start \in BarsOf(first, b + 1)
      BY <1>1, <1>2, <2>4
    <3>3. QED BY <2>1, <2>4, <3>1, <3>2 DEF FoundUpTo
  <2>5. QED BY <2>3, <2>4
<1>5. CASE b \in excluded
  <2>1. G = F
    BY <1>2, <1>5
  <2>2. CASE found.start = NoStart
    <3>1. next = found
      BY <1>1, <1>5, <2>2, ScanTyped
    <3>2. C \cup {} = G
      BY <1>1, <2>1, <2>2
    <3>3. QED BY <2>2, <3>1, <3>2 DEF FoundUpTo
  <2>3. CASE found.start # NoStart
    <3>1. next.kept = found.kept \cup {<<found.start, b>>} /\ next.start = NoStart
      BY <1>5, <2>3 DEF Scan
    <3>2. Covered(next.kept) = C \cup BarsOf(found.start, b)
      BY <3>1, CoveredMore
    <3>3. Covered(next.kept) = G
      BY <1>1, <2>1, <2>3, <3>2
    <3>4. QED BY <3>1, <3>3 DEF FoundUpTo
  <2>4. QED BY <2>2, <2>3
<1>6. QED BY <1>4, <1>5

\* The scan is well-defined.
ScannedBy(g, excluded) == CHOOSE found : found = [i \in 0 .. GroupSize |->
  IF i = 0 THEN NothingFound ELSE Scan(found[i - 1], GroupStart(g) + i - 1, excluded)]

\* Its value after each bar.
LEMMA ScannedNamed ==
  ASSUME GroupSize \in Nat, NEW g, GroupStart(g) \in Nat, NEW excluded
  PROVE  /\ Scanned(g, excluded)[0] = NothingFound
         /\ \A i \in 1 .. GroupSize :
              Scanned(g, excluded)[i] = Scan(Scanned(g, excluded)[i - 1], GroupStart(g) + i - 1, excluded)
         /\ \A i \in 0 .. GroupSize : Scanned(g, excluded)[i] \in FoundType
<1> DEFINE n == GroupSize
           first == GroupStart(g)
           step == [p \in (1 .. n) \X FoundType |-> Scan(p[2], first + p[1] - 1, excluded)]
           Grown(f) == [i \in 0 .. n |-> IF i = 0 THEN NothingFound
                                         ELSE Scan(f[i - 1], first + i - 1, excluded)]
<1>1. NothingFound \in FoundType
  BY DEF NothingFound, FoundType, NoStart
<1> HIDE DEF n, first
<1>2. n \in Nat /\ first \in Nat /\ \A i \in 1 .. n : first + i - 1 \in Int
  BY DEF n, first
<1>3. step \in [(1 .. n) \X FoundType -> FoundType]
  <2>1. \A p \in (1 .. n) \X FoundType : p[2] \in FoundType /\ p[1] \in 1 .. n
    OBVIOUS
  <2>2. \A p \in (1 .. n) \X FoundType : Scan(p[2], first + p[1] - 1, excluded) \in FoundType
    BY <1>2, <2>1, ScanTyped
  <2>3. QED BY <2>2
<1>4. PICK f \in [0 .. n -> FoundType] : Follows(f, NothingFound, step, n)
  <2> HIDE DEF step
  <2>1. QED BY <1>1, <1>2, <1>3, RecursionExists
<1>5. f = Grown(f)
  <2>1. ASSUME NEW i \in 1 .. n PROVE f[i] = Scan(f[i - 1], first + i - 1, excluded)
    <3>1. i - 1 \in 0 .. n /\ f[i] = step[<<i, f[i - 1]>>]
      <4> HIDE DEF step
      <4>1. QED BY <1>2, <1>4 DEF Follows
    <3>2. <<i, f[i - 1]>> \in (1 .. n) \X FoundType
      BY <3>1
    <3>3. QED BY <3>1, <3>2
  <2>2. f[0] = NothingFound /\ \A i \in 0 .. n : i # 0 => i \in 1 .. n
    BY <1>2, <1>4 DEF Follows
  <2>3. QED BY <2>1, <2>2
<1>6. Scanned(g, excluded) = Grown(Scanned(g, excluded))
  <2>1. \E a : a = Grown(a)
    BY <1>5
  <2>2. ScannedBy(g, excluded) = Grown(ScannedBy(g, excluded))
    BY <2>1, Zenon DEF ScannedBy, n, first
  <2>3. QED BY <2>2, Zenon DEF Scanned, ScannedBy
<1> DEFINE h == Scanned(g, excluded)
<1>7. h = Grown(h)
  BY <1>6, Zenon
<1> HIDE DEF h
<1>8. h[0] = NothingFound /\ \A i \in 1 .. n : h[i] = Scan(h[i - 1], first + i - 1, excluded)
  <2>1. 0 \in 0 .. n /\ \A i \in 1 .. n : i \in 0 .. n /\ i # 0
    BY <1>2
  <2>2. QED BY <1>7, <2>1
<1> DEFINE K == {i \in 0 .. n : h[i] \in FoundType}
<1>9. 0 \in K
  BY <1>1, <1>2, <1>8
<1>10. ASSUME NEW i \in 1 .. n, i - 1 \in K PROVE i \in K
  <2> DEFINE a == h[i - 1]
             b == first + i - 1
  <2>1. i \in 0 .. n /\ a \in FoundType /\ b \in Int /\ h[i] = Scan(a, b, excluded)
    BY <1>2, <1>8, <1>10
  <2> HIDE DEF a, b
  <2>2. Scan(a, b, excluded) \in FoundType
    BY <2>1, ScanTyped
  <2>3. QED BY <2>1, <2>2
<1>11. \A i \in 0 .. n : i \in K
  <2> HIDE DEF K
  <2>1. QED BY <1>2, <1>9, <1>10, Upwards
<1>12. QED BY <1>8, <1>11 DEF h, n, first

\* The segments of a group are its bars that are not excluded.
LEMMA SegmentsFacts ==
  ASSUME GroupSize \in Nat, NEW g \in Nat, NEW excluded
  PROVE  Covered(Segments(g, excluded))
           = {b \in BarsOf(GroupStart(g), GroupEnd(g)) : b \notin excluded}
<1> DEFINE n == GroupSize
           first == GroupStart(g)
           h == Scanned(g, excluded)
<1>1. n \in Nat /\ first \in Nat /\ GroupEnd(g) = first + n
  BY BlocksInOrder DEF GroupStart, GroupEnd
<1>2. /\ h[0] = NothingFound
      /\ \A i \in 1 .. n : h[i] = Scan(h[i - 1], first + i - 1, excluded)
      /\ \A i \in 0 .. n : h[i] \in FoundType
  BY <1>1, ScannedNamed
<1>3. Segments(g, excluded)
        = h[n].kept \cup (IF h[n].start = NoStart THEN {} ELSE {<<h[n].start, GroupEnd(g)>>})
  BY Zenon DEF Segments
<1> HIDE DEF h, n, first
<1> DEFINE K == {i \in 0 .. n : FoundUpTo(h[i], first, first + i, excluded)}
<1>4. 0 \in K
  <2>1. BarsOf(first, first + 0) = {}
    BY <1>1 DEF BarsOf
  <2>2. h[0].start = NoStart /\ Covered(h[0].kept) = {}
    BY <1>2 DEF NothingFound, Covered
  <2>3. FoundUpTo(h[0], first, first + 0, excluded)
    BY <2>1, <2>2 DEF FoundUpTo
  <2>4. QED BY <1>1, <2>3
<1>5. ASSUME NEW i \in 1 .. n, i - 1 \in K PROVE i \in K
  <2> DEFINE b == first + i - 1
  <2>1. /\ i \in 0 .. n /\ i - 1 \in 0 .. n /\ b \in Nat /\ first <= b /\ b + 1 = first + i
        /\ first + (i - 1) = b
    BY <1>1
  <2>2. h[i - 1] \in FoundType /\ h[i] = Scan(h[i - 1], b, excluded)
    BY <1>2, <2>1
  <2>3. FoundUpTo(h[i - 1], first, b, excluded)
    BY <1>5, <2>1
  <2> HIDE DEF b
  <2>4. FoundUpTo(h[i], first, b + 1, excluded)
    BY <1>1, <2>1, <2>2, <2>3, ScanStep
  <2>5. QED BY <2>1, <2>4
<1>6. n \in K
  <2>1. \A i \in 0 .. n : i \in K
    <3> HIDE DEF K
    <3>1. QED BY <1>1, <1>4, <1>5, Upwards
  <2>2. n \in 0 .. n
    BY <1>1
  <2>3. QED BY <2>1, <2>2
<1>7. Covered(h[n].kept) \cup (IF h[n].start = NoStart THEN {} ELSE BarsOf(h[n].start, GroupEnd(g)))
        = {b \in BarsOf(first, GroupEnd(g)) : b \notin excluded}
  BY <1>1, <1>6 DEF FoundUpTo
<1>8. CASE h[n].start = NoStart
  <2>1. Segments(g, excluded) = h[n].kept
    BY <1>3, <1>8
  <2>2. QED BY <1>7, <1>8, <2>1 DEF first
<1>9. CASE h[n].start # NoStart
  <2>1. Segments(g, excluded) = h[n].kept \cup {<<h[n].start, GroupEnd(g)>>}
    BY <1>3, <1>9
  <2>2. Covered(Segments(g, excluded)) = Covered(h[n].kept) \cup BarsOf(h[n].start, GroupEnd(g))
    BY <2>1, CoveredMore
  <2>3. QED BY <1>7, <1>9, <2>2 DEF first
<1>10. QED BY <1>8, <1>9

\* A bar is excluded if and only if it is nearer to a test than it may be.
LEMMA ExcludedFacts ==
  ASSUME job \in Jobs, GroupSize \in Nat, NEW tests \in SUBSET Groups,
         NEW b \in GroupBars(Groups \ tests)
  PROVE  b \notin Excluded(tests) <=>
           \A t \in GroupBars(tests) : b + job.purge < t \/ t + job.embargo < b
<1> DEFINE size == GroupSize
<1>1. job.purge \in Nat /\ job.embargo \in Nat /\ size \in Nat /\ job.n \in Nat
  BY JobFacts
<1>2. PICK h \in Groups \ tests : b \in BarsOf(GroupStart(h), GroupEnd(h))
  BY DEF GroupBars
<1>3. ASSUME NEW g \in tests
      PROVE  /\ GroupStart(g) \in Nat /\ GroupEnd(g) = GroupStart(g) + size /\ size > 0 /\ b \in Nat
             /\ b < GroupStart(g) \/ b >= GroupEnd(g)
  <2>1. g \in Nat /\ h \in Nat /\ g # h /\ (g + 1 <= h \/ h + 1 <= g) /\ g + 1 \in Nat /\ h + 1 \in Nat
    BY <1>1, <1>2 DEF Groups
  <2>2. /\ g * size \in Nat /\ h * size \in Nat
        /\ (g + 1) * size = g * size + size /\ (h + 1) * size = h * size + size
    BY <1>1, <2>1, BlocksInOrder
  <2>3. /\ g + 1 <= h => (g + 1) * size <= h * size
        /\ h + 1 <= g => (h + 1) * size <= g * size
    BY <1>1, <2>1, BlocksInOrder
  <2> DEFINE x == g * size
             y == h * size
  <2>4. /\ GroupStart(g) = x /\ GroupEnd(g) = x + size
        /\ GroupStart(h) = y /\ GroupEnd(h) = y + size
        /\ x \in Nat /\ y \in Nat /\ (x + size <= y \/ y + size <= x)
    BY <2>1, <2>2, <2>3 DEF GroupStart, GroupEnd
  <2> HIDE DEF x, y, size
  <2>5. QED BY <1>1, <1>2, <2>4 DEF BarsOf
<1> HIDE DEF size
<1>4. ASSUME NEW g \in tests
      PROVE  (b \in BarsOf(Clipped(GroupStart(g) - job.purge), GroupStart(g))
                      \cup BarsOf(GroupEnd(g), GroupEnd(g) + job.embargo))
               <=> ~\A t \in BarsOf(GroupStart(g), GroupEnd(g)) :
                      b + job.purge < t \/ t + job.embargo < b
  <2> DEFINE s == GroupStart(g)
             e == GroupEnd(g)
  <2>1. s \in Nat /\ e = s + size /\ size > 0 /\ b \in Nat /\ (b < s \/ b >= e)
    BY <1>3
  <2> HIDE DEF s, e
  <2>2. CASE b < s
    <3>1. b \in BarsOf(Clipped(s - job.purge), s) \cup BarsOf(e, e + job.embargo)
            <=> b + job.purge >= s
      BY <1>1, <2>1, <2>2 DEF BarsOf, Clipped
    <3>2. b + job.purge >= s => s \in BarsOf(s, e) /\ ~(b + job.purge < s \/ s + job.embargo < b)
      BY <1>1, <2>1, <2>2 DEF BarsOf
    <3>3. b + job.purge < s => \A t \in BarsOf(s, e) : b + job.purge < t
      BY <1>1, <2>1, <2>2 DEF BarsOf
    <3>4. b + job.purge >= s \/ b + job.purge < s
      BY <1>1, <2>1
    <3>5. QED BY <3>1, <3>2, <3>3, <3>4 DEF s, e
  <2>3. CASE b >= e
    <3>1. b \in BarsOf(Clipped(s - job.purge), s) \cup BarsOf(e, e + job.embargo)
            <=> b < e + job.embargo
      BY <1>1, <2>1, <2>3 DEF BarsOf, Clipped
    <3>2. b < e + job.embargo =>
            e - 1 \in BarsOf(s, e) /\ ~(b + job.purge < e - 1 \/ (e - 1) + job.embargo < b)
      BY <1>1, <2>1, <2>3 DEF BarsOf
    <3>3. b >= e + job.embargo => \A t \in BarsOf(s, e) : t + job.embargo < b
      BY <1>1, <2>1, <2>3 DEF BarsOf
    <3>4. b < e + job.embargo \/ b >= e + job.embargo
      BY <1>1, <2>1
    <3>5. QED BY <3>1, <3>2, <3>3, <3>4 DEF s, e
  <2>4. QED BY <2>1, <2>2, <2>3
<1>5. b \in Excluded(tests) <=>
        \E g \in tests : b \in BarsOf(Clipped(GroupStart(g) - job.purge), GroupStart(g))
                                \cup BarsOf(GroupEnd(g), GroupEnd(g) + job.embargo)
  BY DEF Excluded
<1>6. (\A t \in GroupBars(tests) : b + job.purge < t \/ t + job.embargo < b) <=>
        \A g \in tests : \A t \in BarsOf(GroupStart(g), GroupEnd(g)) :
          b + job.purge < t \/ t + job.embargo < b
  BY DEF GroupBars
<1>7. QED BY <1>4, <1>5, <1>6

\* So what combinations train on is what is far enough from what they test.
LEMMA DistanceHolds == job \in Jobs => TrainKeepsItsDistance
<1>1. SUFFICES ASSUME job \in Jobs, job.kind = "cpcv", NEW tests \in kSubset(job.k, Groups)
               PROVE  UNION {BarsOf(r[1], r[2]) : r \in TrainRanges(tests)}
                        = {b \in GroupBars(Groups \ tests) :
                             \A t \in GroupBars(tests) : b + job.purge < t \/ t + job.embargo < b}
  BY DEF TrainKeepsItsDistance
<1>2. tests \in SUBSET Groups
  BY DEF kSubset
<1>3. GroupSize \in Nat /\ \A g \in Groups : g \in Nat
  <2>1. job.length \in Nat /\ job.n \in Nat \ {0}
    BY <1>1, JobFacts
  <2>2. QED BY <2>1, DivisionFacts DEF GroupSize, Groups
<1>4. UNION {BarsOf(r[1], r[2]) : r \in TrainRanges(tests)}
        = UNION {Covered(Segments(g, Excluded(tests))) : g \in Groups \ tests}
  BY DEF TrainRanges, Covered
<1>5. \A g \in Groups \ tests :
        Covered(Segments(g, Excluded(tests)))
          = {b \in BarsOf(GroupStart(g), GroupEnd(g)) : b \notin Excluded(tests)}
  BY <1>3, SegmentsFacts
<1>6. UNION {BarsOf(r[1], r[2]) : r \in TrainRanges(tests)}
        = {b \in GroupBars(Groups \ tests) : b \notin Excluded(tests)}
  BY <1>4, <1>5 DEF GroupBars
<1>7. QED BY <1>1, <1>2, <1>3, <1>6, ExcludedFacts

----------------------------------------------------------------------------
(* The gate of combinatorial cross-validation.                             *)

\* The positions of values not behind that of c, in the order of the values.
UpTo(s, c) == {d \in DOMAIN s : s[d] < s[c] \/ (s[d] = s[c] /\ d <= c)}
NthPlace(s, r) == CHOOSE c \in DOMAIN s : Cardinality(UpTo(s, c)) = r

\* The median is the mean of two values, in terms of NthPlace.
LEMMA MedianNamed ==
  ASSUME NEW s
  PROVE  TwiceMedian(s) = s[NthPlace(s, (Len(s) + 1) \div 2)] + s[NthPlace(s, (Len(s) \div 2) + 1)]
BY Zenon DEF TwiceMedian, NthPlace, UpTo

\* A value is counted, and the smaller of two has fewer up to it.
LEMMA UpToFacts ==
  ASSUME NEW n \in Nat, NEW s \in [1 .. n -> Int], NEW c \in 1 .. n
  PROVE  /\ Cardinality(UpTo(s, c)) \in 1 .. n
         /\ \A d \in 1 .. n : s[d] < s[c] => Cardinality(UpTo(s, d)) < Cardinality(UpTo(s, c))
         /\ \A d \in 1 .. n : s[d] = s[c] /\ d < c => Cardinality(UpTo(s, d)) < Cardinality(UpTo(s, c))
<1>1. /\ IsFiniteSet(1 .. n) /\ Cardinality(1 .. n) = n
      /\ \A d \in 1 .. n : UpTo(s, d) \in SUBSET (1 .. n)
  <2>1. 1 \in Int /\ n \in Int
    OBVIOUS
  <2>2. QED BY <2>1, FS_Interval DEF UpTo
<1>2. \A d \in 1 .. n : /\ IsFiniteSet(UpTo(s, d)) /\ Cardinality(UpTo(s, d)) \in Nat
                        /\ Cardinality(UpTo(s, d)) <= n
  BY <1>1, FS_Subset, FS_CardinalityType
<1>3. Cardinality(UpTo(s, c)) # 0
  <2>1. c \in UpTo(s, c)
    BY DEF UpTo
  <2>2. QED BY <1>2, <2>1, FS_EmptySet
<1>4. ASSUME NEW d \in 1 .. n, s[d] < s[c] \/ (s[d] = s[c] /\ d < c)
      PROVE  Cardinality(UpTo(s, d)) < Cardinality(UpTo(s, c))
  <2>1. \A e \in 1 .. n : s[e] \in Int
    OBVIOUS
  <2>2. UpTo(s, d) \in SUBSET UpTo(s, c)
    BY <1>4, <2>1 DEF UpTo
  <2>3. c \in UpTo(s, c) /\ c \notin UpTo(s, d)
    BY <1>4, <2>1 DEF UpTo
  <2>4. /\ Cardinality(UpTo(s, d)) <= Cardinality(UpTo(s, c))
        /\ Cardinality(UpTo(s, d)) # Cardinality(UpTo(s, c))
    BY <1>2, <2>2, <2>3, FS_Subset
  <2>5. QED BY <1>2, <2>4
<1>5. QED BY <1>2, <1>3, <1>4

\* Every place is that of one value.
LEMMA PlaceOfEach ==
  ASSUME NEW n \in Nat, NEW s \in [1 .. n -> Int], NEW r \in 1 .. n
  PROVE  NthPlace(s, r) \in 1 .. n /\ Cardinality(UpTo(s, NthPlace(s, r))) = r
<1> DEFINE f == [c \in 1 .. n |-> Cardinality(UpTo(s, c))]
<1>1. f \in [1 .. n -> 1 .. n] /\ \A c \in 1 .. n : f[c] = Cardinality(UpTo(s, c))
  BY UpToFacts
<1> HIDE DEF f
<1>2. ASSUME NEW c \in 1 .. n, NEW d \in 1 .. n, f[c] = f[d] PROVE c = d
  <2>1. s[c] \in Int /\ s[d] \in Int /\ f[c] \in Int /\ f[d] \in Int
    BY <1>1
  <2>2. \/ s[c] < s[d] \/ s[d] < s[c]
        \/ s[c] = s[d] /\ c < d
        \/ s[c] = s[d] /\ d < c
        \/ c = d
    BY <2>1
  <2>3. /\ s[c] < s[d] \/ (s[c] = s[d] /\ c < d) => f[c] < f[d]
        /\ s[d] < s[c] \/ (s[c] = s[d] /\ d < c) => f[d] < f[c]
    BY <1>1, UpToFacts
  <2>4. QED BY <1>2, <2>1, <2>2, <2>3
<1>3. f \in Injection(1 .. n, 1 .. n)
  <2>1. \A c, d \in 1 .. n : f[c] = f[d] => c = d
    BY <1>2
  <2>2. QED BY <1>1, <2>1 DEF Injection, IsInjective
<1>4. f \in Surjection(1 .. n, 1 .. n)
  <2>1. IsFiniteSet(1 .. n)
    <3>1. 1 \in Int /\ n \in Int
      OBVIOUS
    <3>2. QED BY <3>1, FS_Interval
  <2>2. QED BY <1>3, <2>1, FS_Injection
<1>5. PICK c \in 1 .. n : f[c] = r
  BY <1>4 DEF Surjection
<1>6. DOMAIN s = 1 .. n
  OBVIOUS
<1>7. QED BY <1>1, <1>5, <1>6 DEF NthPlace

\* The place after which one half of the values stands.
Half(n) == n \div 2
Upper(s, n) == NthPlace(s, Half(n) + 1)

\* Below the median is what is smaller than the upper of the two values in the middle.
LEMMA BelowMedianFacts ==
  ASSUME NEW n \in Nat, n >= 2, NEW s \in [1 .. n -> Int]
  PROVE  /\ Half(n) \in 1 .. n /\ (n = 2 * Half(n) \/ n = 2 * Half(n) + 1)
         /\ Upper(s, n) \in 1 .. n
         /\ Cardinality(UpTo(s, Upper(s, n))) = Half(n) + 1
         /\ BelowMedian(s) = {c \in 1 .. n : s[c] < s[Upper(s, n)]}
<1> DEFINE h == Half(n)
           k == (n + 1) \div 2
           l == NthPlace(s, k)
           u == Upper(s, n)
<1>1. /\ h \in 1 .. n /\ h + 1 \in 1 .. n /\ k \in 1 .. n
      /\ (n = 2 * h /\ k = h) \/ (n = 2 * h + 1 /\ k = h + 1)
  BY DEF Half
<1>2. /\ l \in 1 .. n /\ Cardinality(UpTo(s, l)) = k
      /\ u \in 1 .. n /\ Cardinality(UpTo(s, u)) = h + 1
  BY <1>1, PlaceOfEach DEF Upper
<1>3. DOMAIN s = 1 .. n /\ Len(s) = n /\ \A c \in 1 .. n : s[c] \in Int
  <2>1. s \in Seq(Int)
    OBVIOUS
  <2>2. QED BY <2>1
<1>4. TwiceMedian(s) = s[l] + s[u]
  BY <1>3, MedianNamed DEF Upper, Half
<1> HIDE DEF h, k, l, u
<1>5. s[l] <= s[u]
  <2>1. ~(s[u] < s[l])
    <3>1. s[u] < s[l] => h + 1 < k
      BY <1>2, UpToFacts
    <3>2. QED BY <1>1, <3>1
  <2>2. QED BY <1>2, <1>3, <2>1
<1>6. ASSUME NEW c \in 1 .. n PROVE 2 * s[c] < TwiceMedian(s) <=> s[c] < s[u]
  <2>1. s[c] \in Int /\ s[l] \in Int /\ s[u] \in Int
    BY <1>2, <1>3
  <2>2. s[c] < s[u] => s[c] <= s[l]
    <3>1. SUFFICES ASSUME s[c] < s[u], s[l] < s[c] PROVE FALSE
      BY <2>1
    <3>2. /\ Cardinality(UpTo(s, c)) < h + 1 /\ k < Cardinality(UpTo(s, c))
          /\ Cardinality(UpTo(s, c)) \in 1 .. n
      BY <1>2, <3>1, UpToFacts
    <3>3. QED BY <1>1, <3>2
  <2> HIDE DEF u
  <2>3. QED BY <1>4, <1>5, <2>1, <2>2
<1>7. BelowMedian(s) = {c \in 1 .. n : s[c] < s[u]}
  BY <1>3, <1>6 DEF BelowMedian
<1>8. QED BY <1>1, <1>2, <1>7 DEF h, u

\* Values in the same order have the same ones below the median.
LEMMA SameBelow ==
  ASSUME NEW n \in Nat, n >= 2, NEW s \in [1 .. n -> Int], NEW t \in [1 .. n -> Int],
         SameOrder(s, t)
  PROVE  BelowMedian(s) = BelowMedian(t)
<1>1. DOMAIN s = 1 .. n /\ DOMAIN t = 1 .. n /\ \A c \in 1 .. n : s[c] \in Int /\ t[c] \in Int
  OBVIOUS
<1>2. \A c, d \in 1 .. n : (s[d] < s[c] <=> t[d] < t[c]) /\ (s[d] = s[c] <=> t[d] = t[c])
  BY <1>1 DEF SameOrder
<1>3. \A c \in 1 .. n : UpTo(s, c) = UpTo(t, c)
  BY <1>1, <1>2 DEF UpTo
<1>4. Upper(s, n) = Upper(t, n)
  BY <1>1, <1>3 DEF Upper, NthPlace
<1>5. Upper(s, n) \in 1 .. n
  BY BelowMedianFacts
<1>6. QED BY <1>2, <1>4, <1>5, BelowMedianFacts

\* Of different values, half of them are below the median: those on the first places.
LEMMA DistinctBelow ==
  ASSUME NEW n \in Nat, n >= 2, NEW s \in [1 .. n -> Int],
         \A c, d \in 1 .. n : c # d => s[c] # s[d]
  PROVE  /\ Cardinality(BelowMedian(s)) = Half(n)
         /\ \A c \in 1 .. n : c \in BelowMedian(s) <=> Cardinality(UpTo(s, c)) <= Half(n)
<1> DEFINE h == Half(n)
           u == Upper(s, n)
<1>1. /\ h \in 1 .. n /\ u \in 1 .. n /\ Cardinality(UpTo(s, u)) = h + 1
      /\ BelowMedian(s) = {c \in 1 .. n : s[c] < s[u]}
  BY BelowMedianFacts
<1> HIDE DEF h, u
<1>2. DOMAIN s = 1 .. n /\ \A c \in 1 .. n : s[c] \in Int
  OBVIOUS
<1>3. BelowMedian(s) = UpTo(s, u) \ {u} /\ u \in UpTo(s, u) /\ UpTo(s, u) \in SUBSET (1 .. n)
  BY <1>1, <1>2 DEF UpTo
<1>4. IsFiniteSet(UpTo(s, u))
  <2>1. 1 \in Int /\ n \in Int
    OBVIOUS
  <2>2. IsFiniteSet(1 .. n)
    BY <2>1, FS_Interval
  <2>3. QED BY <1>3, <2>2, FS_Subset
<1>5. Cardinality(BelowMedian(s)) = h
  <2>1. Cardinality(UpTo(s, u) \ {u}) = Cardinality(UpTo(s, u)) - 1
    BY <1>3, <1>4, FS_RemoveElement
  <2>2. Cardinality(BelowMedian(s)) = Cardinality(UpTo(s, u) \ {u})
    BY <1>3, Zenon
  <2>3. h \in Int /\ Cardinality(UpTo(s, u)) = h + 1
    BY <1>1
  <2>4. QED BY <2>1, <2>2, <2>3
<1>6. ASSUME NEW c \in 1 .. n PROVE c \in BelowMedian(s) <=> Cardinality(UpTo(s, c)) <= h
  <2>1. Cardinality(UpTo(s, c)) \in Int
    BY UpToFacts
  <2>2. s[c] < s[u] => Cardinality(UpTo(s, c)) < h + 1
    BY <1>1, UpToFacts
  <2>3. s[u] < s[c] => h + 1 < Cardinality(UpTo(s, c))
    BY <1>1, UpToFacts
  <2>4. s[c] < s[u] \/ s[u] < s[c] \/ c = u
    BY <1>1, <1>2
  <2>5. c = u => ~(s[c] < s[u])
    BY <1>1, <1>2
  <2>6. QED BY <1>1, <2>1, <2>2, <2>3, <2>4, <2>5
<1>7. QED BY <1>5, <1>6 DEF h

\* Values in the opposite order: one half is below the one median, and none of it is
\* below the other.
LEMMA OppositeBelow ==
  ASSUME NEW n \in Nat, n >= 2, NEW s \in [1 .. n -> Int], NEW t \in [1 .. n -> Int],
         OppositeOrder(s, t)
  PROVE  /\ s # t
         /\ BelowMedian(s) \in SUBSET (1 .. n) /\ BelowMedian(t) \in SUBSET (1 .. n)
         /\ Cardinality(BelowMedian(s)) = Half(n) /\ Cardinality(BelowMedian(t)) = Half(n)
         /\ BelowMedian(s) \cap BelowMedian(t) = {}
<1>1. DOMAIN s = 1 .. n /\ DOMAIN t = 1 .. n /\ \A c \in 1 .. n : s[c] \in Int /\ t[c] \in Int
  OBVIOUS
<1>2. \A c, d \in 1 .. n : c # d => /\ s[c] # s[d]
                                    /\ s[c] < s[d] <=> t[d] < t[c]
  BY <1>1 DEF OppositeOrder
<1>3. \A c, d \in 1 .. n : c # d => t[c] # t[d]
  <2>1. ASSUME NEW c \in 1 .. n, NEW d \in 1 .. n, c # d PROVE t[c] # t[d]
    <3>1. /\ s[c] \in Int /\ s[d] \in Int /\ t[c] \in Int /\ t[d] \in Int
          /\ s[c] # s[d] /\ (s[c] < s[d] <=> t[d] < t[c]) /\ (s[d] < s[c] <=> t[c] < t[d])
      BY <1>1, <1>2, <2>1
    <3>2. QED BY <3>1
  <2>2. QED BY <2>1
<1>4. /\ Half(n) \in Int /\ (n = 2 * Half(n) \/ n = 2 * Half(n) + 1)
      /\ BelowMedian(s) \in SUBSET (1 .. n) /\ BelowMedian(t) \in SUBSET (1 .. n)
  BY BelowMedianFacts
<1>5. s # t
  <2>1. 1 \in 1 .. n /\ 2 \in 1 .. n /\ 1 # 2
    OBVIOUS
  <2>2. /\ s[1] \in Int /\ s[2] \in Int /\ s[1] # s[2] /\ (s[1] < s[2] <=> t[2] < t[1])
        /\ (s[2] < s[1] <=> t[1] < t[2])
    BY <1>1, <1>2, <2>1
  <2>3. QED BY <2>2
<1>6. ASSUME NEW c \in 1 .. n
      PROVE  Cardinality(UpTo(t, c)) = (n - Cardinality(UpTo(s, c))) + 1
  <2>1. UpTo(t, c) = (1 .. n) \ (UpTo(s, c) \ {c})
    <3>1. ASSUME NEW d \in 1 .. n PROVE d \in UpTo(t, c) <=> d \notin UpTo(s, c) \ {c}
      <4>1. CASE d = c
        BY <1>1, <4>1 DEF UpTo
      <4>2. CASE d # c
        <5>1. /\ s[c] \in Int /\ s[d] \in Int /\ t[c] \in Int /\ t[d] \in Int
              /\ s[c] # s[d] /\ t[c] # t[d] /\ (s[c] < s[d] <=> t[d] < t[c])
          BY <1>1, <1>2, <1>3, <4>2
        <5>2. QED BY <1>1, <4>2, <5>1 DEF UpTo
      <4>3. QED BY <4>1, <4>2
    <3>2. \A d \in UpTo(t, c) : d \in 1 .. n
      BY <1>1 DEF UpTo
    <3>3. QED BY <3>1, <3>2
  <2>2. /\ IsFiniteSet(1 .. n) /\ Cardinality(1 .. n) = n
        /\ UpTo(s, c) \in SUBSET (1 .. n) /\ c \in UpTo(s, c)
    <3>1. 1 \in Int /\ n \in Int
      OBVIOUS
    <3>2. QED BY <1>1, <3>1, FS_Interval DEF UpTo
  <2> DEFINE below == UpTo(s, c) \ {c}
  <2>3. IsFiniteSet(UpTo(s, c)) /\ Cardinality(below) = Cardinality(UpTo(s, c)) - 1
    BY <2>2, FS_Subset, FS_RemoveElement
  <2>4. (1 .. n) \cap below = below
    BY <2>2
  <2>5. Cardinality(UpTo(s, c)) \in 1 .. n
    BY UpToFacts
  <2>6. Cardinality((1 .. n) \ below) = n - Cardinality((1 .. n) \cap below)
    <3> HIDE DEF below
    <3>1. QED BY <2>2, FS_Difference
  <2>7. Cardinality(UpTo(t, c)) = n - Cardinality(below)
    BY <2>1, <2>4, <2>6, Zenon
  <2>8. QED BY <2>3, <2>5, <2>7
<1>7. BelowMedian(s) \cap BelowMedian(t) = {}
  <2>1. SUFFICES ASSUME NEW c \in BelowMedian(s), c \in BelowMedian(t) PROVE FALSE
    OBVIOUS
  <2>2. c \in 1 .. n
    BY <1>4
  <2> DEFINE x == Cardinality(UpTo(s, c))
             y == Cardinality(UpTo(t, c))
             h == Half(n)
  <2>3. x <= h
    BY <1>2, <2>2, DistinctBelow
  <2>4. y <= h
    BY <1>3, <2>1, <2>2, DistinctBelow
  <2>5. x \in 1 .. n
    BY <2>2, UpToFacts
  <2>6. y = (n - x) + 1
    BY <1>6, <2>2
  <2>7. h \in Int /\ (n = 2 * h \/ n = 2 * h + 1)
    BY <1>4
  <2> HIDE DEF x, y, h
  <2>8. QED BY <2>3, <2>4, <2>5, <2>6, <2>7
<1>8. Cardinality(BelowMedian(s)) = Half(n) /\ Cardinality(BelowMedian(t)) = Half(n)
  BY <1>2, <1>3, DistinctBelow
<1>9. QED BY <1>4, <1>5, <1>7, <1>8

\* There are two combinations at least: not all groups are tested, and not none.
LEMMA CombinationsFacts ==
  ASSUME job \in Jobs, job.kind = "cpcv"
  PROVE  Len(Combinations) \in Nat /\ Len(Combinations) >= 2
<1> DEFINE all == kSubset(job.k, Groups)
           S == 0 .. (job.k - 1)
           T == 1 .. job.k
<1>1. job.n \in Nat \ {0} /\ job.k \in 1 .. (job.n - 1)
  BY JobsAssumption
<1>2. S \in all /\ T \in all /\ S # T
  <2>1. 0 \in Int /\ 1 \in Int /\ job.k \in Int /\ job.k - 1 \in Int
    BY <1>1
  <2>2. Cardinality(S) = job.k /\ Cardinality(T) = job.k
    <3>1. Cardinality(S) = IF 0 > job.k - 1 THEN 0 ELSE (job.k - 1) - 0 + 1
      BY <2>1, FS_Interval
    <3>2. Cardinality(T) = IF 1 > job.k THEN 0 ELSE job.k - 1 + 1
      BY <2>1, FS_Interval
    <3>3. QED BY <1>1, <3>1, <3>2
  <2>3. S \in SUBSET Groups /\ T \in SUBSET Groups
    BY <1>1 DEF Groups
  <2>4. 0 \in S /\ 0 \notin T
    BY <1>1
  <2>5. QED BY <2>2, <2>3, <2>4 DEF kSubset
<1>3. IsFiniteSet(all)
  <2>1. IsFiniteSet(Groups)
    <3>1. 0 \in Int /\ job.n - 1 \in Int
      BY <1>1
    <3>2. QED BY <3>1, FS_Interval DEF Groups
  <2>2. IsFiniteSet(SUBSET Groups)
    BY <2>1, FS_SUBSET
  <2>3. all \in SUBSET (SUBSET Groups)
    BY DEF kSubset
  <2>4. QED BY <2>2, <2>3, FS_Subset
<1> HIDE DEF all, S, T
<1>4. Cardinality(all) \in Nat /\ Cardinality(all) # 0 /\ Cardinality(all) # 1
  <2>1. Cardinality(all) \in Nat
    BY <1>3, FS_CardinalityType
  <2>2. Cardinality(all) # 0
    BY <1>2, <1>3, FS_EmptySet
  <2>3. Cardinality(all) # 1
    BY <1>2, <1>3, FS_Singleton
  <2>4. QED BY <2>1, <2>2, <2>3
<1> DEFINE F(c) == CHOOSE s \in all : Cardinality({t \in all : Before(t, s)}) = c - 1
           n == Cardinality(all)
<1>5. Combinations = [c \in 1 .. n |-> F(c)]
  BY Zenon DEF Combinations, all
<1> HIDE DEF F, n
<1>6. Len(Combinations) = n
  BY <1>4, <1>5 DEF n
<1>7. QED BY <1>4, <1>6 DEF n

\* What a combination scores, in sample and out of it.
ScoreType == [is : Sharpes \cup {0}, oos : Sharpes \cup {0}]

\* The scores of either kind are numbers.
LEMMA ValuesFacts ==
  ASSUME scores \in Seq(ScoreType)
  PROVE  /\ Len(scores) \in Nat
         /\ Values("is") \in [1 .. Len(scores) -> Int]
         /\ Values("oos") \in [1 .. Len(scores) -> Int]
<1>1. Len(scores) \in Nat /\ DOMAIN scores = 1 .. Len(scores)
  OBVIOUS
<1>2. ASSUME NEW c \in 1 .. Len(scores) PROVE scores[c]["is"] \in Int /\ scores[c]["oos"] \in Int
  <2>1. scores[c] \in ScoreType
    OBVIOUS
  <2>2. scores[c].is \in Sharpes \cup {0} /\ scores[c].oos \in Sharpes \cup {0}
    BY <2>1 DEF ScoreType
  <2>3. \A x \in Sharpes \cup {0} : x \in Int
    BY SharpesAssumption
  <2>4. QED BY <2>2, <2>3
<1>3. Values("is") = [c \in 1 .. Len(scores) |-> scores[c]["is"]]
  BY <1>1 DEF Values
<1>4. Values("oos") = [c \in 1 .. Len(scores) |-> scores[c]["oos"]]
  BY <1>1 DEF Values
<1>5. QED BY <1>1, <1>2, <1>3, <1>4

\* What compute_pbo counts when the orders agree, and when they are opposite.
LEMMA PboFacts ==
  ASSUME scores \in Seq(ScoreType), Len(scores) >= 2
  PROVE  /\ SameOrder(Values("is"), Values("oos")) /\ Values("is") # Values("oos")
              => Pbo.over = 0 /\ Pbo.of \in Nat
         /\ OppositeOrder(Values("is"), Values("oos"))
              => /\ Pbo.over = Half(Len(scores)) /\ Pbo.of = Len(scores) - Half(Len(scores))
                 /\ Half(Len(scores)) \in 1 .. Len(scores)
                 /\ Len(scores) <= 2 * Half(Len(scores)) + 1
<1> DEFINE n == Len(scores)
           s == Values("is")
           t == Values("oos")
           best == DOMAIN s \ BelowMedian(s)
<1>1. n \in Nat /\ n >= 2 /\ s \in [1 .. n -> Int] /\ t \in [1 .. n -> Int]
  BY ValuesFacts
<1>2. IsFiniteSet(1 .. n) /\ Cardinality(1 .. n) = n
  <2>1. 1 \in Int /\ n \in Int
    BY <1>1
  <2>2. QED BY <1>1, <2>1, FS_Interval
<1>3. s # t => Pbo = IF best = {} THEN [over |-> 0, of |-> 1] ELSE Fraction(best \cap BelowMedian(t), best)
  BY <1>1 DEF Pbo
<1> HIDE DEF s, t, n
<1>4. DOMAIN s = 1 .. n
  BY <1>1
<1>5. ASSUME SameOrder(s, t), s # t PROVE Pbo.over = 0 /\ Pbo.of \in Nat
  <2>1. best \cap BelowMedian(t) = {}
    BY <1>1, <1>5, SameBelow
  <2>2. IsFiniteSet(best)
    BY <1>2, <1>4, FS_Subset
  <2> DEFINE both == best \cap BelowMedian(t)
  <2> HIDE DEF best, both
  <2>3. both = {} /\ Cardinality(both) = 0 /\ Cardinality(best) \in Nat
    BY <2>1, <2>2, FS_EmptySet, FS_CardinalityType DEF both
  <2>4. Pbo = IF best = {} THEN [over |-> 0, of |-> 1]
              ELSE [over |-> Cardinality(both), of |-> Cardinality(best)]
    BY <1>3, <1>5 DEF Fraction, both
  <2>5. QED BY <2>3, <2>4
<1>6. ASSUME OppositeOrder(s, t)
      PROVE  /\ Pbo.over = Half(n) /\ Pbo.of = n - Half(n) /\ Half(n) \in 1 .. n
             /\ n <= 2 * Half(n) + 1
  <2>1. /\ s # t
        /\ BelowMedian(s) \in SUBSET (1 .. n) /\ BelowMedian(t) \in SUBSET (1 .. n)
        /\ Cardinality(BelowMedian(s)) = Half(n) /\ Cardinality(BelowMedian(t)) = Half(n)
        /\ BelowMedian(s) \cap BelowMedian(t) = {}
    BY <1>1, <1>6, OppositeBelow
  <2>2. Half(n) \in 1 .. n /\ n <= 2 * Half(n) + 1
    BY <1>1 DEF Half
  <2>3. best \cap BelowMedian(t) = BelowMedian(t) /\ (1 .. n) \cap BelowMedian(s) = BelowMedian(s)
    BY <1>4, <2>1
  <2>4. Cardinality(best) = n - Half(n)
    <3> DEFINE below == BelowMedian(s)
    <3> HIDE DEF below
    <3>1. Cardinality((1 .. n) \ below) = Cardinality(1 .. n) - Cardinality((1 .. n) \cap below)
      BY <1>2, FS_Difference
    <3>2. (1 .. n) \cap below = below /\ Cardinality(below) = Half(n) /\ best = (1 .. n) \ below
      BY <1>4, <2>1, <2>3 DEF below
    <3>3. QED BY <1>2, <3>1, <3>2
  <2>5. best # {}
    <3>1. n - Half(n) # 0
      BY <1>1, <2>2 DEF Half
    <3>2. Cardinality(best) # 0
      BY <2>4, <3>1
    <3> HIDE DEF best
    <3>3. QED BY <3>2, FS_EmptySet
  <2> HIDE DEF best
  <2>6. Pbo = [over |-> Cardinality(BelowMedian(t)), of |-> Cardinality(best)]
    BY <1>3, <2>1, <2>3, <2>5 DEF Fraction
  <2>7. QED BY <2>1, <2>2, <2>4, <2>6
<1>7. QED BY <1>5, <1>6 DEF s, t, n

\* The gate is computed at the end, of the scores that are left then.
GateInv ==
  /\ job \in Jobs
  /\ status \in {"asked", "evaluating", "done", "raised"}
  /\ scores \in Seq(ScoreType)
  /\ gate \in {"none", "passed", "failed"}
  /\ gate # "none" => status = "done"
  /\ GateFollowsRanks

\* What the gate says of the scores at the end is right.
LEMMA GateRight ==
  ASSUME scores \in Seq(ScoreType), Len(scores) >= 2, NEW g,
         g = IF 10 * Pbo.over <= 4 * Pbo.of THEN "passed" ELSE "failed"
  PROVE  /\ OppositeOrder(Values("is"), Values("oos")) => g = "failed"
         /\ SameOrder(Values("is"), Values("oos")) /\ Values("is") # Values("oos") => g = "passed"
<1> DEFINE x == Pbo.over
           y == Pbo.of
           opposite == OppositeOrder(Values("is"), Values("oos"))
           same == SameOrder(Values("is"), Values("oos")) /\ Values("is") # Values("oos")
           n == Len(scores)
           h == Half(n)
<1>1. /\ same => x = 0 /\ y \in Nat
      /\ opposite => x = h /\ y = n - h /\ h \in 1 .. n /\ n <= 2 * h + 1
      /\ n \in Nat
  BY PboFacts, ValuesFacts
<1>2. g = IF 10 * x <= 4 * y THEN "passed" ELSE "failed"
  OBVIOUS
<1> HIDE DEF x, y, opposite, same, n, h
<1>3. opposite => ~(10 * x <= 4 * y)
  BY <1>1
<1>4. same => 10 * x <= 4 * y
  BY <1>1
<1>5. (opposite => g = "failed") /\ (same => g = "passed")
  BY <1>2, <1>3, <1>4
<1>6. QED BY <1>5 DEF opposite, same

\* It holds initially, and every step keeps it.
LEMMA GateInvHolds == WindowsSpec => []GateInv
<1>1. WindowsInit => GateInv
  BY DEF WindowsInit, GateInv, GateFollowsRanks
<1>2. ASSUME GateInv, [WindowsNext]_windows PROVE GateInv'
  <2> USE <1>2 DEF GateInv
  <2>1. CASE UNCHANGED windows
    BY <2>1 DEF windows, GateFollowsRanks, Values
  <2>2. CASE ComputeFolds
    BY <2>2 DEF ComputeFolds, GateFollowsRanks, Values
  <2>3. CASE GenerateWindows
    BY <2>3 DEF GenerateWindows, GateFollowsRanks, Values
  <2>4. ASSUME NEW is \in Sharpes \cup {0}, NEW oos \in Sharpes \cup {0}, EvaluateCombination(is, oos)
        PROVE  GateInv'
    <3> DEFINE both == [is |-> is, oos |-> oos]
    <3>1. both \in ScoreType
      BY DEF ScoreType
    <3>2. /\ scores' = Append(scores, both) /\ status' = "evaluating" /\ gate = "none"
          /\ gate' = gate /\ job' = job
      BY <2>4 DEF EvaluateCombination
    <3> HIDE DEF both
    <3>3. scores' \in Seq(ScoreType)
      BY <3>1, <3>2
    <3>4. GateFollowsRanks'
      BY <3>2 DEF GateFollowsRanks
    <3>5. QED BY <3>2, <3>3, <3>4 DEF ScoreType
  <2>5. CASE ApplyGate
    <3>1. /\ job.kind = "cpcv" /\ Len(scores) = Len(Combinations)
          /\ gate' = (IF 10 * Pbo.over <= 4 * Pbo.of THEN "passed" ELSE "failed")
          /\ status' = "done" /\ job' = job /\ scores' = scores
      BY <2>5 DEF ApplyGate
    <3>2. Len(scores) >= 2
      BY <3>1, CombinationsFacts
    <3>3. PICK g : g = gate'
      OBVIOUS
    <3>4. /\ OppositeOrder(Values("is"), Values("oos")) => g = "failed"
          /\ SameOrder(Values("is"), Values("oos")) /\ Values("is") # Values("oos") => g = "passed"
      BY <3>1, <3>2, <3>3, GateRight
    <3>5. Values("is")' = Values("is") /\ Values("oos")' = Values("oos")
      BY <3>1 DEF Values
    <3>6. GateFollowsRanks'
      BY <3>3, <3>4, <3>5 DEF GateFollowsRanks, OppositeOrder, SameOrder
    <3>7. QED BY <3>1, <3>6 DEF ScoreType
  <2>6. QED BY <1>2, <2>1, <2>2, <2>3, <2>4, <2>5 DEF WindowsNext
<1>3. QED BY <1>1, <1>2, PTL DEF WindowsSpec

----------------------------------------------------------------------------
(* Every range is within the data.                                         *)

CutWithin(r) == r \in Cut /\ r.train_end \in Bar /\ r.test_start \in Bar /\ r.test_end \in Bar

\* Folds end where the data ends.
LEMMA FoldsWithin ==
  ASSUME job \in Jobs, NEW i \in 0 .. job.n - 1
  PROVE  CutWithin(Fold(i))
<1> DEFINE size == FoldBlock
           n == job.n
<1>1. /\ n \in Nat /\ i \in Nat /\ i + 1 \in Nat /\ i + 2 \in Nat /\ n + 1 \in Nat
      /\ i + 1 <= n + 1 /\ (i < n - 1 => i + 2 <= n + 1)
      /\ job.length \in Nat /\ job.embargo \in Nat
      /\ size \in Nat /\ (n + 1) * size <= job.length
  BY JobFacts, FoldBlockFacts
<1> DEFINE x == (i + 1) * size
           y == (i + 2) * size
           z == (n + 1) * size
<1>2. /\ x \in Nat /\ y \in Nat /\ z \in Nat /\ x <= z /\ (i < n - 1 => y <= z) /\ z <= job.length
  BY <1>1, BlocksInOrder
<1> DEFINE te == IF Clipped(x - job.embargo) <= 0 THEN x ELSE Clipped(x - job.embargo)
           end == IF i < n - 1 THEN y ELSE job.length
<1>3. Fold(i) = [train_start |-> 0, train_end |-> te, test_start |-> x, test_end |-> end]
  BY DEF Fold
<1> HIDE DEF x, y, z, size, n
<1>4. te \in Nat /\ te <= job.length /\ end \in Nat /\ end <= job.length /\ x <= job.length
  BY <1>1, <1>2 DEF Clipped
<1> HIDE DEF te, end
<1>5. te \in Bar /\ end \in Bar /\ x \in Bar
  BY <1>1, <1>2, <1>4 DEF Bar
<1>6. QED BY <1>2, <1>3, <1>4, <1>5 DEF CutWithin, Cut

\* Windows that have a test end where the next one begins.
LEMMA WindowsWithin ==
  ASSUME job \in Jobs, NEW i \in 0 .. job.n - 1, HasTest(Window(i))
  PROVE  CutWithin(Window(i))
<1> DEFINE size == WindowSize
           n == job.n
           half == (WindowSize * job.tenths) \div 10
<1>1. /\ n \in Nat /\ i \in Nat /\ i + 1 \in Nat /\ i + 1 <= n
      /\ job.length \in Nat /\ job.embargo \in Nat /\ job.purge \in Nat
      /\ size \in Nat /\ half \in Nat /\ n * size <= job.length
  BY JobFacts, WindowSizeFacts
<1> DEFINE x == i * size
           y == (i + 1) * size
           z == n * size
<1>2. x \in Nat /\ y \in Nat /\ z \in Nat /\ y <= z /\ z <= job.length
  BY <1>1, BlocksInOrder
<1> DEFINE te == Clipped((x + half) - job.purge)
           start == (x + half) + job.embargo
<1>3. Window(i) = [train_start |-> 0, train_end |-> te, test_start |-> start, test_end |-> y]
  BY DEF Window
<1>4. start < y
  BY <1>3 DEF HasTest
<1> HIDE DEF x, y, z, size, n, half
<1>5. te \in Nat /\ te <= job.length /\ start \in Nat /\ start <= job.length /\ y <= job.length
  BY <1>1, <1>2, <1>4 DEF Clipped
<1> HIDE DEF te, start
<1>6. te \in Bar /\ start \in Bar /\ y \in Bar
  BY <1>1, <1>2, <1>5 DEF Bar
<1>7. QED BY <1>2, <1>3, <1>5, <1>6 DEF CutWithin, Cut

\* So the ranges are of their type.
LEMMA RangesWithin ==
  ASSUME RangesInv
  PROVE  ranges \in Seq(Cut) /\ \A i \in DOMAIN ranges : CutWithin(ranges[i])
<1>1. job \in Jobs /\ job.n \in Nat /\ \A i \in 1 .. job.n : i - 1 \in 0 .. job.n - 1
  BY JobFacts DEF RangesInv
<1>2. CASE AreNone
  BY <1>2 DEF AreNone
<1>3. CASE AreFolds
  <2> DEFINE F(i) == Fold(i - 1)
  <2>1. \A i \in 1 .. job.n : CutWithin(F(i)) /\ F(i) \in Cut
    BY <1>1, FoldsWithin DEF CutWithin
  <2>2. ranges = [i \in 1 .. job.n |-> F(i)]
    BY <1>3 DEF AreFolds
  <2> HIDE DEF F
  <2>3. QED BY <1>1, <2>1, <2>2
<1>4. CASE AreWindows
  <2> DEFINE F(i) == Window(i - 1)
  <2>1. \A i \in 1 .. job.n : CutWithin(F(i)) /\ F(i) \in Cut
    BY <1>1, <1>4, WindowsWithin DEF CutWithin, AreWindows
  <2>2. ranges = [i \in 1 .. job.n |-> F(i)]
    BY <1>4 DEF AreWindows
  <2> HIDE DEF F
  <2>3. QED BY <1>1, <2>1, <2>2
<1>5. QED BY <1>2, <1>3, <1>4 DEF RangesInv

\* Every range is within the data; with combinations of any number of groups, any purge
\* and any embargo, what is trained on is exactly what is far enough from all that is
\* tested, where the zones of several test groups meet too; and whatever the scores
\* are, the gate stops a candidate whose order out of sample is the reverse of that in
\* sample, and lets one pass that keeps it (_apply_purge_embargo, compute_pbo).
THEOREM CombinationsAreSound == WindowsSpec => []CpcvIsSound
<1>1. RangesInv /\ GateInv => CpcvIsSound
  <2> SUFFICES ASSUME RangesInv, GateInv PROVE CpcvIsSound
    OBVIOUS
  <2>1. WindowsTypeOK
    BY RangesWithin DEF WindowsTypeOK, GateInv, ScoreType, CutWithin
  <2>2. TrainKeepsItsDistance
    BY DistanceHolds DEF GateInv
  <2>3. QED BY <2>1, <2>2 DEF CpcvIsSound, GateInv
<1>2. QED BY <1>1, RangesInvHolds, GateInvHolds, PTL

=============================================================================
