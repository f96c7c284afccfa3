-------------------------- MODULE OptimizationRun ---------------------------
(***************************************************************************)
(* One optimization of a strategy: the generation loop of                  *)
(* optimization/orchestrator.py, its checkpoint (checkpoint.py), its       *)
(* streamed results and what is derived from them (results.py), and the    *)
(* executor that starts it again after a failure (executor.py).            *)
(*                                                                         *)
(* Candidates are counted in units of the smallest batch; what the         *)
(* counters of branches and samplers stand for is the sequence of          *)
(* generations they were told.  A file written with a crash-safe write     *)
(* changes in one step.                                                    *)
(***************************************************************************)
EXTENDS Integers, Sequences, Functions

CONSTANTS
  MaxGenerations,   \* [optimization] max_generations
  Interval,         \* [optimization] checkpoint_interval_generations
  InitialBatch,     \* [optimization] batch_size
  MaxBatch,         \* the clamp of _adapt_batch_size
  MemoryBatch,      \* the largest batch the memory budget admits
  NBranches,        \* branches of the parameter space
  Configs,          \* configurations the runs are started with
  Hashed,           \* whether the configuration carries its config_hash
  MaxScore,         \* scores are 1 .. MaxScore
  MaxRuns,          \* bound on the number of runs
  MaxFaults         \* bound on kills, raised exceptions and failed promotions

ASSUME SizesAssumption ==
  /\ {MaxGenerations, InitialBatch, MaxBatch, MemoryBatch, NBranches, MaxScore}
       \subseteq Nat \ {0}
  /\ InitialBatch <= MaxBatch
ASSUME LimitsAssumption == {Interval, MaxRuns, MaxFaults} \subseteq Nat
ASSUME HashedAssumption == Hashed \in BOOLEAN

VARIABLES
  \* files in the artifacts directory
  checkpoint,   \* optimization-checkpoint.json
  results,      \* optimization-results.arrow: the batches of candidates in it
  manifest,     \* run-manifest.json
  promoted,     \* promoted-candidates.arrow
  validated,    \* the candidates the gauntlet was last run on
  \* the process
  pc, config,
  found,        \* resume_from is not None: there was a checkpoint when it started
  again,        \* the second run of its orchestrator is under way
  gen,          \* the generation in progress; generations_completed between two
  asked,        \* how many candidates each branch was asked for
  branch,       \* next branch to dispatch
  scored,       \* branch_results: batches scored but not yet told
  rows,         \* the batches this process has written to the .partial file
  counter,      \* candidate_counter
  total,        \* total_evaluations
  best,         \* best_candidates, with best_score
  told,         \* the generations the counters of the branch manager stand for
  visited,      \* branches with visit_count > 0
  batch,        \* _batch_size
  promotion,    \* promoted_path is not None
  runs, faults

Branches == 1 .. NBranches

files == <<checkpoint, results, manifest, promoted, validated>>
loop == <<gen, asked, branch, scored>>
memory == <<counter, total, best, told, visited, batch>>
attempt == <<found, again>>
vars == <<files, pc, config, attempt, loop, rows, memory, promotion, runs, faults>>

----------------------------------------------------------------------------

NoFile == [generation |-> 0]

\* config_hash of the configuration; "" when nothing has put it there.
ConfigHash(c) == IF Hashed THEN c ELSE ""

\* validate_checkpoint_config
ConfigAccepted(cp, c) ==
  \/ cp.config_hash = ""
  \/ ConfigHash(c) = ""
  \/ cp.config_hash = ConfigHash(c)

\* should_checkpoint
CheckpointDue(g) == Interval > 0 /\ (g + 1) % Interval = 0

\* Results of _adapt_batch_size for a slow, an ordinary and a fast generation.
AdaptedBatches(b) ==
  {b, IF b \div 2 = 0 THEN 1 ELSE b \div 2, IF b * 2 > MaxBatch THEN MaxBatch ELSE b * 2}

Total(f) == FoldFunction(+, 0, f)

NoneAsked == [k \in Branches |-> 0]

\* allocate_budget: the whole batch for a single branch; equal shares as long as a
\* branch has not been visited; else in proportion to the UCB1 scores, which leave
\* every rounded proportion open, but at least one candidate each.
Allocations(b) ==
  IF NBranches = 1 THEN {[k \in Branches |-> b]}
  ELSE IF visited # Branches
  THEN {[k \in Branches |-> b \div NBranches + (IF k <= b % NBranches THEN 1 ELSE 0)]}
  ELSE LET Proportions == {e \in [1 .. NBranches - 1 -> 0 .. b - 1] : Total(e) < b}
           AtLeastOne(x) == IF x < 1 THEN 1 ELSE x
           Shares(e) == [k \in DOMAIN e |-> AtLeastOne(e[k])]
       IN  {[k \in Branches |-> IF k < NBranches THEN Shares(e)[k]
                                ELSE AtLeastOne(b - Total(Shares(e)))] : e \in Proportions}

\* A branch rounds its share down to a multiple of its samplers.
Asked(b) ==
  {n \in [Branches -> 0 .. b] :
     \E a \in Allocations(b) :
       \A k \in Branches : n[k] <= a[k] /\ (n[k] = 0 <=> a[k] = 0)}

\* best_candidates after a batch was scored: a list of at most one element.
BetterOf(old, row) ==
  IF old = <<>> \/ row.score > old[1].score THEN <<row>> ELSE old

\* promote_top_candidates: the batches with the best score.
Top(table) == {r \in {table[i] : i \in DOMAIN table} :
                 \A i \in DOMAIN table : table[i].score <= r.score}

Init ==
  /\ checkpoint = NoFile
  /\ results = <<>> /\ manifest = NoFile /\ promoted = {} /\ validated = {}
  /\ pc = "down" /\ config \in Configs /\ found = FALSE /\ again = FALSE
  /\ gen = 0 /\ asked = NoneAsked /\ branch = 1 /\ scored = <<>> /\ rows = <<>>
  /\ counter = 0 /\ total = 0 /\ best = <<>> /\ told = <<>> /\ visited = {}
  /\ batch = InitialBatch /\ promotion = FALSE
  /\ runs = 0 /\ faults = 0

Fault ==
  /\ faults < MaxFaults
  /\ faults' = faults + 1

SmallerBatch(b) == IF b <= MemoryBatch THEN b ELSE MemoryBatch

\* The first lines of OptimizationOrchestrator.run.  load_state restores the counters
\* of the branches and of their samplers; the distributions themselves are those of
\* new samplers.  The writer truncates what was left in the .partial file.
Begin(resumed) ==
  /\ gen' = IF resumed THEN checkpoint.generation ELSE 0
  /\ counter' = IF resumed THEN checkpoint.counter ELSE 0
  /\ total' = IF resumed THEN checkpoint.total ELSE 0
  /\ best' = IF resumed THEN checkpoint.best ELSE <<>>
  /\ told' = IF resumed THEN checkpoint.told ELSE <<>>
  /\ visited' = IF resumed THEN checkpoint.visited ELSE {}
  /\ rows' = <<>>
  /\ asked' = NoneAsked /\ branch' = 1 /\ scored' = <<>> /\ promotion' = FALSE
  /\ pc' = "loop"
  /\ UNCHANGED files

\* OptimizationExecutor.execute: a checkpoint that is there is resumed from, unless it
\* is of another configuration.
Start(c) ==
  /\ pc = "down"
  /\ runs < MaxRuns
  /\ runs' = runs + 1
  /\ config' = c
  /\ found' = (checkpoint # NoFile) /\ again' = FALSE
  /\ Begin(checkpoint # NoFile /\ ConfigAccepted(checkpoint, c))
  /\ batch' = SmallerBatch(InitialBatch)
  /\ UNCHANGED faults

\* Mutant: the second run is not told of the checkpoint.
RunAgainFresh ==
  /\ pc \in {"loop", "dispatch", "checkpoint", "adapt", "finalize", "manifest"}
  /\ ~again /\ again' = TRUE
  /\ Fault
  /\ Begin(FALSE)
  /\ batch' = SmallerBatch(batch)
  /\ UNCHANGED <<config, found, runs>>

\* The generation loop or what follows it raises a RuntimeError: execute runs the same
\* orchestrator once more, with the resume_from of before.  A checkpoint this process
\* was the first to write is not resumed from; the batch stays as adapted.
RunAgain ==
  /\ pc \in {"loop", "dispatch", "checkpoint", "adapt", "finalize", "manifest"}
  /\ ~again /\ again' = TRUE
  /\ Fault
  /\ Begin(found /\ ConfigAccepted(checkpoint, config))
  /\ batch' = SmallerBatch(batch)
  /\ UNCHANGED <<config, found, runs>>

\* The process ends; its memory is lost, and nothing reads its .partial file.
Exit ==
  /\ pc' = "down" /\ found' = FALSE /\ again' = FALSE
  /\ gen' = 0 /\ asked' = NoneAsked /\ branch' = 1 /\ scored' = <<>> /\ rows' = <<>>
  /\ counter' = 0 /\ total' = 0 /\ best' = <<>> /\ told' = <<>>
  /\ visited' = {}
  /\ batch' = InitialBatch /\ promotion' = FALSE

\* Mutant: the last generation is not begun.
BeginGenerationButLast(n) ==
  /\ pc = "loop"
  /\ gen < MaxGenerations - 1
  /\ n \in Asked(batch)
  /\ asked' = n /\ branch' = 1 /\ scored' = <<>>
  /\ pc' = "dispatch"
  /\ UNCHANGED <<files, config, attempt, gen, rows, memory, promotion, runs, faults>>

\* ask_all: the candidates of all branches are asked for before the first is dispatched.
BeginGeneration(n) ==
  /\ pc = "loop"
  /\ gen < MaxGenerations
  /\ n \in Asked(batch)
  /\ asked' = n /\ branch' = 1 /\ scored' = <<>>
  /\ pc' = "dispatch"
  /\ UNCHANGED <<files, config, attempt, gen, rows, memory, promotion, runs, faults>>

\* for ... else: every generation has been run.
GenerationsExhausted ==
  /\ pc = "loop"
  /\ gen = MaxGenerations
  /\ pc' = "finalize"
  /\ UNCHANGED <<files, config, attempt, loop, rows, memory, promotion, runs, faults>>

\* The candidates of one branch are dispatched, scored, numbered and appended to the
\* results; a branch without candidates is passed over.
DispatchBranch(s) ==
  LET n == asked[branch]
      row == [gen |-> gen, first |-> counter, upto |-> counter + n, score |-> s]
  IN  /\ pc = "dispatch"
      /\ branch <= NBranches
      /\ branch' = branch + 1
      /\ IF n = 0
         THEN UNCHANGED <<scored, rows, counter, total, best>>
         ELSE /\ scored' = Append(scored, row)
              /\ rows' = Append(rows, row)
              /\ counter' = counter + n
              /\ total' = total + n
              /\ best' = BetterOf(best, row)
      /\ UNCHANGED <<files, pc, config, attempt, gen, asked, told, visited, batch, promotion,
                     runs, faults>>

\* tell_all
Tell ==
  LET entry == [gen |-> gen, config |-> config,
                first |-> IF scored = <<>> THEN counter ELSE scored[1].first,
                upto |-> counter]
  IN  /\ pc = "dispatch"
      /\ branch > NBranches
      /\ told' = Append(told, entry)
      /\ visited' = visited \cup {k \in Branches : asked[k] > 0}
      /\ pc' = "checkpoint"
      /\ UNCHANGED <<files, config, attempt, loop, rows, counter, total, best, batch, promotion,
                     runs, faults>>

\* Mutant: the generation is not yet counted as completed.
CheckpointOfInProgress(g) ==
  [generation |-> g, counter |-> counter, total |-> total, best |-> best, told |-> told,
   visited |-> visited, config_hash |-> ConfigHash(config)]

\* The OptimizationCheckpoint of the generation that was just told:
\* generations_completed = gen + 1.
CheckpointOf(g) ==
  [generation |-> g + 1, counter |-> counter, total |-> total, best |-> best, told |-> told,
   visited |-> visited, config_hash |-> ConfigHash(config)]

\* A checkpoint is saved if one is due.
Checkpoint ==
  /\ pc = "checkpoint"
  /\ checkpoint' = IF CheckpointDue(gen) THEN CheckpointOf(gen) ELSE checkpoint
  /\ pc' = "adapt"
  /\ UNCHANGED <<results, manifest, promoted, validated, config, attempt, loop, rows, memory,
                 promotion, runs, faults>>

\* Adaptive batch size, and the test for convergence.
EndGeneration(b, converged) ==
  /\ pc = "adapt"
  /\ b \in AdaptedBatches(batch)
  /\ batch' = b
  /\ gen' = gen + 1
  /\ pc' = IF converged THEN "finalize" ELSE "loop"
  /\ UNCHANGED <<files, config, attempt, asked, branch, scored, rows, counter, total, best,
                 told, visited, promotion, runs, faults>>

\* The .partial file replaces the results file.
Finalize ==
  /\ pc = "finalize"
  /\ results' = rows
  /\ pc' = "manifest"
  /\ UNCHANGED <<checkpoint, manifest, promoted, validated, config, attempt, loop, rows, memory,
                 promotion, runs, faults>>

WriteManifest ==
  /\ pc = "manifest"
  /\ manifest' = [generation |-> gen, total |-> total]
  /\ pc' = "promote"
  /\ UNCHANGED <<checkpoint, results, promoted, validated, config, attempt, loop, rows, memory,
                 promotion, runs, faults>>

Promote ==
  /\ pc = "promote"
  /\ promoted' = Top(results)
  /\ promotion' = TRUE
  /\ pc' = "gauntlet"
  /\ UNCHANGED <<checkpoint, results, manifest, validated, config, attempt, loop, rows, memory,
                 runs, faults>>

\* The exception is logged; promoted_path stays None.
PromotionFails ==
  /\ pc = "promote"
  /\ Fault
  /\ pc' = "gauntlet"
  /\ UNCHANGED <<files, config, attempt, loop, rows, memory, promotion, runs>>

\* promoted_path is set, and its table is not empty.
GauntletRuns == promotion /\ promoted # {}

\* The gauntlet is run on the promoted candidates, or skipped when there are none.
Gauntlet ==
  /\ pc = "gauntlet"
  /\ validated' = IF GauntletRuns THEN promoted ELSE validated
  /\ Exit
  /\ UNCHANGED <<checkpoint, results, manifest, promoted, config, runs, faults>>

\* The process is killed, the second run raises too, or what is raised is not a
\* RuntimeError: its memory is lost.
Abort ==
  /\ pc # "down"
  /\ Fault
  /\ Exit
  /\ UNCHANGED <<files, config, runs>>

Run ==
  \/ \E n \in [Branches -> 0 .. batch] : BeginGeneration(n)
  \/ GenerationsExhausted
  \/ \E s \in 1 .. MaxScore : DispatchBranch(s)
  \/ Tell
  \/ Checkpoint
  \/ \E b \in 1 .. MaxBatch, converged \in BOOLEAN : EndGeneration(b, converged)
  \/ Finalize
  \/ WriteManifest
  \/ Promote
  \/ PromotionFails
  \/ Gauntlet

Next ==
  \/ \E c \in Configs : Start(c)
  \/ Run
  \/ RunAgain
  \/ Abort

Spec == Init /\ [][Next]_vars

\* The process runs while it is alive, and the stage is executed again after a
\* failure as long as there is no manifest.
FairSpec ==
  /\ Spec
  /\ WF_vars(Run)
  /\ WF_vars(manifest = NoFile /\ \E c \in Configs : Start(c))

----------------------------------------------------------------------------
(* Properties.                                                             *)

\* The generations in t follow each other from the first, and so do the candidate
\* ids given out in them, up to n.
Lineage(t, n) ==
  /\ \A i \in DOMAIN t :
       /\ t[i].gen = i - 1
       /\ t[i].first = IF i = 1 THEN 0 ELSE t[i - 1].upto
       /\ t[i].first <= t[i].upto
  /\ n = IF t = <<>> THEN 0 ELSE t[Len(t)].upto

Row(m) == [gen : 0 .. MaxGenerations - 1, first : 0 .. m, upto : 1 .. m, score : 1 .. MaxScore]
MaxIds == MaxGenerations * NBranches * MaxBatch

TypeOK ==
  /\ checkpoint # NoFile => checkpoint.generation \in 1 .. MaxGenerations
  /\ {results[i] : i \in DOMAIN results} \subseteq Row(MaxIds)
  /\ {rows[i] : i \in DOMAIN rows} \subseteq Row(MaxIds)
  /\ manifest.generation \in 0 .. MaxGenerations
  /\ pc \in {"down", "loop", "dispatch", "checkpoint", "adapt", "finalize", "manifest",
             "promote", "gauntlet"}
  /\ config \in Configs
  /\ asked \in [Branches -> 0 .. MaxBatch] /\ visited \subseteq Branches
  /\ gen \in 0 .. MaxGenerations /\ branch \in 1 .. NBranches + 1
  /\ counter \in 0 .. MaxIds /\ total \in 0 .. MaxIds
  /\ Len(best) <= 1
  /\ Len(told) <= MaxGenerations
  /\ batch \in 1 .. MaxBatch
  /\ promotion \in BOOLEAN /\ found \in BOOLEAN /\ again \in BOOLEAN
  /\ runs \in 0 .. MaxRuns /\ faults \in 0 .. MaxFaults

\* A checkpoint is one consistent cut of the run, whatever kills and resumptions
\* led to it: every generation before its own was told exactly once, no candidate
\* id was given out twice or left out, and as many candidates were evaluated as
\* ids were given out.
CheckpointConsistent ==
  checkpoint # NoFile =>
    /\ Lineage(checkpoint.told, checkpoint.counter)
    /\ checkpoint.generation = Len(checkpoint.told)
    /\ checkpoint.total = checkpoint.counter

\* The manifest counts every candidate of every generation it counts, also of
\* those evaluated before a resumption, exactly once.
ManifestCounts ==
  pc = "promote" =>
    /\ Lineage(told, manifest.total)
    /\ manifest.generation = Len(told)

\* A resumed run goes on from the generation that follows what its samplers'
\* counters stand for, and from the configuration it was checkpointed under.
ResumesWhereItStopped ==
  pc = "loop" => gen = Len(told) /\ \A i \in DOMAIN told : told[i].config = config

\* A checkpoint is only replaced by one that is further on, unless the
\* configuration was changed, or the process runs its orchestrator a second time
\* and had found no checkpoint when it started.
CheckpointAdvances ==
  [][ /\ checkpoint # NoFile /\ checkpoint'.config_hash = checkpoint.config_hash
      /\ again => found
      => checkpoint'.generation > checkpoint.generation ]_checkpoint

\* The gauntlet judges candidates of the results file that is there, never those
\* promoted by an earlier run.
ValidatesCurrentResults ==
  [][ validated' \subseteq {results[i] : i \in DOMAIN results} ]_validated

\* The run, its checkpoint and its manifest tell one story, across kills and resumptions.
RunConsistent ==
  TypeOK /\ CheckpointConsistent /\ ManifestCounts /\ ResumesWhereItStopped

\* The checkpoint does not fall behind, but for a second run that resumes nothing, and
\* what is validated is never something older.
NeverGoesBack == CheckpointAdvances /\ ValidatesCurrentResults

\* Failures being finitely many, the optimization ends with its manifest.
Completes == <>(manifest # NoFile)

\* The results file holds every candidate the manifest counts.
ResultsComplete ==
  pc = "promote" =>
    \A id \in 0 .. manifest.total - 1 :
      \E i \in DOMAIN results : results[i].first <= id /\ id < results[i].upto
=============================================================================
