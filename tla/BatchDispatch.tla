----------------------------- MODULE BatchDispatch -----------------------------
(***************************************************************************)
(* How the candidates of a generation get their scores                     *)
(* (OptimizationOrchestrator._dispatch_grouped): they are grouped by what  *)
(* their entry signals depend on, the enriched data of each signal set     *)
(* comes from SignalCacheManager, evaluator processes score the groups     *)
(* (OptimizationBatchDispatcher, BatchRunner, forex_backtester), and their *)
(* files are read back and scattered to the candidates.                    *)
(*                                                                         *)
(* A process that is killed, or outlives the orchestrator or a group that  *)
(* raised, writes to the directories that later calls for the same         *)
(* generation use.                                                         *)
(***************************************************************************)
EXTENDS Subsequences, SequencesExt

CONSTANTS
  Groups,       \* signal and override parameters, by group hash
  SignalOf,     \* the signal set of each group
  Exits,        \* parameters that apply_candidate_params sets
  Batches,      \* the batches branches are asked for: sequences of candidates
  Folds,
  Survivors,    \* what a prescreening may leave
  LimitsSet,    \* max_entries and max_cache_bytes, in files
  MaxGeneration,
  MaxCalls,     \* bound on dispatches
  MaxFaults     \* bound on kills, timeouts, failures and damaged files

Candidates == [group : Groups, exit : Exits]

ASSUME BatchesAssumption == Batches \subseteq Seq(Candidates) \ {<<>>}
ASSUME GroupsAssumption == Groups \subseteq DOMAIN SignalOf /\ Survivors \subseteq SUBSET Groups
ASSUME LimitsAssumption == \A l \in LimitsSet : {l.entries, l.bytes} \subseteq Nat \ {0}
ASSUME BoundsAssumption == {MaxGeneration, MaxCalls, MaxFaults} \subseteq Nat
ASSUME ExitsAssumption == {"-inf", "none", "torn"} \intersect Exits = {}   \* they stand for no score

VARIABLES
  limits,
  persistent,   \* use_persistent_worker
  manifests,    \* use_manifest_dispatch
  survivors,    \* _surviving_groups
  cache,        \* _index by access time, oldest first; its files are those on disk
  bad,          \* cached files that are not readable
  files,        \* scores.arrow in gen_X/grp_Y/fold_Z
  pc,
  manifest,     \* _use_manifest_dispatch
  gen, batch,
  todo,         \* signal sets that _dispatch_grouped has yet to resolve
  procs,        \* evaluator processes
  scores,       \* fold_score_matrix
  calls,
  faults, lost  \* faults so far; those after which scores can be another's

settings == <<limits, persistent, manifests, survivors>>
store == <<cache, bad, files>>
call == <<gen, batch, todo, calls>>
vars == <<settings, store, pc, manifest, call, procs, scores, faults, lost>>

Signals == {SignalOf[g] : g \in Groups}
Generations == 0 .. MaxGeneration

NoScore == "-inf"
NoFile == <<"none">>
Torn == <<"torn">>

----------------------------------------------------------------------------
(* SignalCacheManager                                                      *)

\* Mutant: reading an entry does not make it the latest.
TouchedNot(c, s) == c

Touched(c, s) == Append(Subsequence(c, {i \in DOMAIN c : c[i] # s}), s)

\* Mutant: nothing is evicted for the number of entries.
EvictedForBytesOnly(c) == IF Len(c) > limits.bytes THEN <<Last(c)>> ELSE c

\* _evict_if_needed: the oldest entries are dropped until their number fits; and if
\* the bytes do not fit, all but the latest, for the size of an evicted file is looked
\* up after it has been unlinked, and never deducted.
Evicted(c) ==
  LET fitting == SubSeq(c, Len(c) - limits.entries + 1, Len(c))
      counted == IF Len(c) > limits.entries THEN fitting ELSE c
  IN  IF Len(counted) > limits.bytes THEN <<Last(counted)>> ELSE counted

\* The data of the group can be loaded.
Loadable(g) == Contains(cache, SignalOf[g]) /\ SignalOf[g] \notin bad

----------------------------------------------------------------------------
(* The groups of a batch                                                   *)

\* The positions of the candidates whose group survived.
Live(b) == {i \in DOMAIN b : b[i].group \in survivors}

GroupsOf(b) == {b[i].group : i \in Live(b)}
SignalsOf(b) == {SignalOf[g] : g \in GroupsOf(b)}

\* dict order: by the first candidate of the group.
InOrder(b) ==
  LET groups == [i \in DOMAIN b |-> b[i].group]
  IN  Subsequence(groups, Firsts(groups, Live(b)))

\* unique_signal_sets
Unresolved(b) ==
  LET signals == [i \in DOMAIN b |-> SignalOf[b[i].group]]
  IN  Subsequence(signals, Firsts(signals, Live(b)))

\* The candidates of a group, and its param_batch: what its scores are scores of.
Members(b, g) == {i \in DOMAIN b : b[i].group = g}
RowsOf(b, g) ==
  LET exits == [i \in DOMAIN b |-> b[i].exit]
  IN  Subsequence(exits, Members(b, g))

\* Mutant: every candidate of a group gets the score of the first.
FirstPosition(b, i) == 1

\* local_i of candidate i in its group.
Position(b, i) == Rank(Members(b, b[i].group), i)

----------------------------------------------------------------------------

Init ==
  /\ limits \in LimitsSet /\ persistent \in BOOLEAN /\ manifests \in BOOLEAN
  /\ survivors \in Survivors
  /\ cache = <<>> /\ bad = {}
  /\ files = [k \in Generations \X Groups \X Folds |-> NoFile]
  /\ pc = "idle" /\ manifest = manifests
  /\ gen = 0 /\ batch = <<>> /\ todo = <<>> /\ calls = 0
  /\ procs = {} /\ scores = <<>>
  /\ faults = 0 /\ lost = 0

Unscored(b) == [i \in DOMAIN b |-> [f \in Folds |-> NoScore]]

\* The loop of run: another branch of this generation, or the next generation.
Dispatch ==
  /\ pc = "idle"
  /\ calls < MaxCalls
  /\ calls' = calls + 1
  /\ \E b \in Batches, g \in {gen, gen + 1} \intersect Generations :
       /\ batch' = b /\ gen' = g
       /\ todo' = Unresolved(b)
       /\ scores' = Unscored(b)
  /\ pc' = "resolve"
  /\ UNCHANGED <<settings, store, manifest, procs, faults, lost>>

\* get_or_compute for the next signal set: a readable file is used, else it is computed,
\* written aside, renamed and stored.
Resolve ==
  /\ pc = "resolve" /\ todo # <<>>
  /\ LET s == Head(todo)
         hit == Contains(cache, s) /\ s \notin bad
     IN  /\ cache' = IF hit THEN Touched(cache, s) ELSE Evicted(Touched(cache, s))
         /\ bad' = (bad \ {s}) \intersect ToSet(cache')
  /\ todo' = Tail(todo)
  /\ UNCHANGED <<settings, files, pc, manifest, gen, batch, calls, procs, scores, faults, lost>>

Process(fold, groups) ==
  [call |-> calls, gen |-> gen, batch |-> batch, fold |-> fold, groups |-> groups,
   writing |-> FALSE, code |-> "running"]

\* dispatch_generation_multi_group: a manifest for each fold.
Manifests == {Process(f, InOrder(batch)) : f \in Folds}

\* dispatch_generation: a parameter batch for each group and fold.
ParamBatches == {Process(f, <<g>>) : f \in Folds, g \in GroupsOf(batch)}

Spawn ==
  /\ pc = "resolve" /\ todo = <<>> /\ ~persistent
  /\ procs' = procs \union (IF manifest THEN Manifests ELSE ParamBatches)
  /\ pc' = "wait"
  /\ UNCHANGED <<settings, store, manifest, call, scores, faults, lost>>

\* PersistentBatchDispatcher: no data was ever sent to the workers (preload_data), so
\* every evaluation fails with CACHE_MISS and its fold keeps -inf.
EvaluateOnWorkers ==
  /\ pc = "resolve" /\ todo = <<>> /\ persistent
  /\ pc' = "idle"
  /\ UNCHANGED <<settings, store, manifest, call, procs, scores, faults, lost>>

----------------------------------------------------------------------------
(* An evaluator process: run_manifest_mode and run_batch_mode.             *)

Replace(p, q) == (procs \ {p}) \union {q}

Own(p) == pc = "wait" /\ p.call = calls

\* Mutant: nobody notices that a process has failed.
ExitedUnnoticed(p, code) ==
  IF code = "failed" THEN UNCHANGED procs
  ELSE procs' = IF Own(p) THEN Replace(p, [p EXCEPT !.writing = FALSE, !.code = code]) ELSE procs \ {p}

\* The exit of a process is known to the call that waits for it; an orphan is gone.
Exited(p, code) ==
  procs' = IF Own(p) THEN Replace(p, [p EXCEPT !.writing = FALSE, !.code = code]) ELSE procs \ {p}

FileOf(p) == <<p.gen, Head(p.groups), p.fold>>

Written(p) == RowsOf(p.batch, Head(p.groups))

\* After its last group a process is done.
NextGroup(p) ==
  IF Len(p.groups) = 1
  THEN Exited(p, "ok")
  ELSE procs' = Replace(p, [p EXCEPT !.writing = FALSE, !.groups = Tail(@)])

\* A group whose data is not there, or a manifest without groups, is an error for the
\* whole process; else its candidates are scored and the file is written, which is a
\* step of its own where somebody may read the file: that of an orphan.
Evaluate(p) ==
  /\ p.code = "running" /\ ~p.writing
  /\ IF p.groups = <<>> \/ ~Loadable(Head(p.groups))
     THEN Exited(p, "failed") /\ UNCHANGED files
     ELSE IF Own(p)
     THEN files' = [files EXCEPT ![FileOf(p)] = Written(p)] /\ NextGroup(p)
     ELSE files' = [files EXCEPT ![FileOf(p)] = Torn] /\ procs' = Replace(p, [p EXCEPT !.writing = TRUE])
  /\ UNCHANGED <<settings, cache, bad, pc, manifest, call, scores, faults, lost>>

\* write_scores_arrow has created the file and completes it.
WriteScores(p) ==
  /\ p.writing
  /\ files' = [files EXCEPT ![FileOf(p)] = Written(p)]
  /\ NextGroup(p)
  /\ UNCHANGED <<settings, cache, bad, pc, manifest, call, scores, faults, lost>>

\* The file it is writing stays as it is.
Abandoned(p) == files' \in {files, IF p.groups # <<>> /\ Loadable(Head(p.groups))
                                   THEN [files EXCEPT ![FileOf(p)] = Torn] ELSE files}

\* It fails, or takes too long and is terminated and reaped.
ProcessFails(p) ==
  /\ faults < MaxFaults
  /\ Own(p) /\ p.code = "running"
  /\ Exited(p, "failed")
  /\ Abandoned(p)
  /\ faults' = faults + 1
  /\ UNCHANGED <<settings, cache, bad, pc, manifest, call, scores, lost>>

\* A process that is killed and not reaped in time has no return code, which counts
\* as 0.
ProcessUnreaped(p) ==
  /\ faults < MaxFaults
  /\ Own(p) /\ p.code = "running"
  /\ Exited(p, "ok")
  /\ Abandoned(p)
  /\ faults' = faults + 1 /\ lost' = lost + 1
  /\ UNCHANGED <<settings, cache, bad, pc, manifest, call, scores>>

----------------------------------------------------------------------------

Awaited == {p \in procs : p.call = calls}

\* The fold of the group was evaluated by a process that exited with 0.
Succeeded(g, f) ==
  \A p \in Awaited :
    p.fold = f /\ (~manifest => g \in ToSet(p.groups)) => p.code = "ok"

Available(g, f) == Succeeded(g, f) /\ files[<<gen, g, f>>] # NoFile

\* A file that cannot be read, or whose length numpy cannot broadcast to the group's.
Unreadable(g, f) ==
  /\ Available(g, f)
  /\ LET file == files[<<gen, g, f>>]
     IN  file = Torn \/ Len(file) \notin {1, Len(RowsOf(batch, g))}

Readable == \A g \in GroupsOf(batch), f \in Folds : ~Unreadable(g, f)

ScoreOf(i, f) ==
  LET g == batch[i].group
      file == files[<<gen, g, f>>]
  IN  IF g \in GroupsOf(batch) /\ Available(g, f)
      THEN file[IF Len(file) = 1 THEN 1 ELSE Position(batch, i)] ELSE NoScore

Ended == pc = "wait" /\ \A p \in Awaited : p.code # "running"

\* The processes have ended: their scores are read and scattered.
Scatter ==
  /\ Ended /\ Readable
  /\ scores' = [i \in DOMAIN batch |-> [f \in Folds |-> ScoreOf(i, f)]]
  /\ procs' = procs \ Awaited
  /\ pc' = "idle"
  /\ UNCHANGED <<settings, store, manifest, call, faults, lost>>

\* An exception under a manifest: from now on every group is dispatched by itself,
\* beginning with those of this call.
FallBack ==
  /\ Ended /\ ~Readable /\ manifest
  /\ manifest' = FALSE
  /\ procs' = (procs \ Awaited) \union ParamBatches
  /\ UNCHANGED <<settings, store, pc, call, scores, faults, lost>>

Down == pc' = "down" /\ todo' = <<>> /\ scores' = Unscored(<<>>)

\* Without one, a group is read once its own processes have ended, and an exception ends
\* the optimization at once: gather does not wait for the other groups, whose processes go
\* on as after a kill (those the interpreter takes down with it do nothing more).
Raise ==
  /\ pc = "wait" /\ ~manifest
  /\ \E g \in GroupsOf(batch), f \in Folds :
       /\ Unreadable(g, f)
       /\ \A p \in Awaited : g \in ToSet(p.groups) => p.code # "running"
  /\ procs' = {p \in procs : p.code = "running"}
  /\ Down
  /\ UNCHANGED <<settings, store, manifest, gen, batch, calls, faults, lost>>

\* precompute_signals_from_spec raises; the file set aside is unlinked.
PrecomputeFails ==
  /\ faults < MaxFaults
  /\ pc = "resolve" /\ todo # <<>>
  /\ Down
  /\ faults' = faults + 1
  /\ UNCHANGED <<settings, store, manifest, gen, batch, calls, procs, lost>>

\* The orchestrator is killed; its processes go on.
Kill ==
  /\ faults < MaxFaults
  /\ pc \in {"resolve", "wait"}
  /\ Down
  /\ procs' = {p \in procs : p.code = "running"}
  /\ faults' = faults + 1 /\ lost' = lost + 1
  /\ UNCHANGED <<settings, store, manifest, gen, batch, calls>>

\* A resumption begins with the generation of a checkpoint.  _rebuild_index gives
\* all files the same access time, so they are evicted in the order of the directory.
Restart ==
  /\ pc = "down"
  /\ pc' = "idle"
  /\ manifest' = manifests
  /\ gen' \in 0 .. gen
  /\ \E c \in SetToSeqs(ToSet(cache) \ bad) : cache' = c
  /\ bad' = {}
  /\ UNCHANGED <<settings, files, batch, todo, calls, procs, scores, faults, lost>>

\* A cached file is damaged by others.
Damage ==
  /\ faults < MaxFaults
  /\ pc = "wait"
  /\ \E s \in ToSet(cache) \ bad : bad' = bad \union {s}
  /\ faults' = faults + 1
  /\ UNCHANGED <<settings, cache, files, pc, manifest, call, procs, scores, lost>>

ProcessStep == \E p \in procs : Evaluate(p) \/ WriteScores(p)

Progress == Resolve \/ Spawn \/ EvaluateOnWorkers \/ Scatter \/ FallBack \/ Raise

Next ==
  \/ Dispatch \/ Progress \/ ProcessStep
  \/ \E p \in procs : ProcessFails(p) \/ ProcessUnreaped(p)
  \/ PrecomputeFails \/ Kill \/ Restart \/ Damage

\* Awaited coroutines and running processes go on.
Spec == Init /\ [][Next]_vars /\ WF_vars(Progress) /\ WF_vars(ProcessStep)

----------------------------------------------------------------------------

TypeOK ==
  /\ limits \in LimitsSet /\ persistent \in BOOLEAN /\ manifest \in BOOLEAN /\ survivors \in Survivors
  /\ cache \in Seq(Signals) /\ bad \subseteq ToSet(cache)
  /\ \A k \in DOMAIN files : files[k] \in {NoFile, Torn} \/ files[k] \in Seq(Exits) \ {<<>>}
  /\ pc \in {"idle", "resolve", "wait", "down"}
  /\ manifests \in BOOLEAN /\ (manifest => manifests)
  /\ gen \in Generations /\ batch \in Batches \union {<<>>} /\ todo \in Seq(Signals)
  /\ \A i \in DOMAIN scores : scores[i] \in [Folds -> Exits \union {NoScore}]
  /\ calls \in 0 .. MaxCalls
  /\ faults \in 0 .. MaxFaults /\ lost \in 0 .. faults

\* A score is that of the candidate it is given to, whatever other branches, generations
\* or groups have left in the directories (_read_fold_scores, and the scatter by
\* candidate_indices); unless a process was killed and not reaped, or outlived a
\* killed orchestrator.
OwnScores ==
  lost = 0 =>
    \A i \in DOMAIN scores, f \in Folds : scores[i][f] \in {NoScore, batch[i].exit}

\* Without a fault, a generation whose signal sets fit in the cache is scored
\* completely: no data that was handed out is evicted before it is evaluated
\* (get_or_compute against _evict_if_needed, run_manifest_mode).
ScoredWhenItFits ==
  /\ pc = "idle" /\ calls # 0 /\ faults = 0 /\ ~persistent
  /\ Cardinality(SignalsOf(batch)) <= limits.entries /\ limits.entries <= limits.bytes
  => \A i \in DOMAIN batch, f \in Folds :
       scores[i][f] # NoScore <=> batch[i].group \in survivors

\* The directory of the cache is bounded, also after restarts (_evict_if_needed,
\* _rebuild_index): by the number of entries, and to one file when these have too many bytes.
CacheBounded == Len(cache) <= limits.entries /\ (Len(cache) > limits.bytes => Len(cache) = 1)

\* A dispatch comes to an end, through whatever failures and the fallback.
DispatchEnds == pc \in {"resolve", "wait"} ~> pc \in {"idle", "down"}
=============================================================================
