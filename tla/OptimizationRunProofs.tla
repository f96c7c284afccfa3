----------------------- MODULE OptimizationRunProofs -----------------------
(***************************************************************************)
(* Theorems about OptimizationRun, for any number of generations, branches *)
(* and configurations, any batch sizes and checkpoint interval, and any    *)
(* number of runs, kills and failures.                                     *)
(***************************************************************************)
EXTENDS OptimizationRun, SequenceTheorems, TLAPS

\* Each configuration is known by a hash that is its own.
Distinguished == Hashed /\ "" \notin Configs

\* How many candidate ids are given out, at most, when g generations are completed
\* and b branches of the next one dispatched.
IdsUpTo(g, b) == g * (NBranches * MaxBatch) + b * MaxBatch

Hashes == Configs \cup {""}
Entries == [gen : Nat, config : Configs, first : Nat, upto : Nat]
Cuts ==
  [generation : 1 .. MaxGenerations, counter : 0 .. MaxIds, total : 0 .. MaxIds,
   best : Seq(Row(MaxIds)), told : Seq(Entries), visited : SUBSET Branches,
   config_hash : Hashes]

Ending == {"finalize", "manifest", "promote", "gauntlet"}
Alive == {"loop", "dispatch", "checkpoint", "adapt"} \cup Ending

\* The kinds of what the files and the process hold.
RowsTyped ==
  /\ results \in Seq(Row(MaxIds)) /\ rows \in Seq(Row(MaxIds))
  /\ scored \in Seq(Row(MaxIds)) /\ best \in Seq(Row(MaxIds)) /\ Len(best) <= 1
FilesTyped ==
  /\ checkpoint \in Cuts \cup {NoFile}
  /\ checkpoint # NoFile => Len(checkpoint.best) <= 1
  /\ manifest.generation \in 0 .. MaxGenerations
LoopTyped ==
  /\ pc \in Alive \cup {"down"} /\ config \in Configs
  /\ asked \in [Branches -> 0 .. MaxBatch] /\ visited \in SUBSET Branches
  /\ gen \in 0 .. MaxGenerations /\ branch \in 1 .. NBranches + 1
  /\ counter \in 0 .. MaxIds /\ total \in 0 .. MaxIds
  /\ told \in Seq(Entries)
  /\ batch \in 1 .. MaxBatch
  /\ promotion \in BOOLEAN /\ found \in BOOLEAN /\ again \in BOOLEAN
  /\ runs \in 0 .. MaxRuns /\ faults \in 0 .. MaxFaults
Typed == RowsTyped /\ FilesTyped /\ LoopTyped

\* All of t was told under c.
ToldUnder(t, c) == \A i \in DOMAIN t : t[i].config = c

\* The checkpoint is a consistent cut, of the configuration its hash names.
Cut ==
  checkpoint # NoFile =>
    /\ Lineage(checkpoint.told, checkpoint.counter)
    /\ checkpoint.generation = Len(checkpoint.told)
    /\ checkpoint.total = checkpoint.counter
    /\ checkpoint.counter <= IdsUpTo(checkpoint.generation, 0)
    /\ Distinguished => checkpoint.config_hash \in Configs
                        /\ ToldUnder(checkpoint.told, checkpoint.config_hash)

\* The first candidate id of the generation in progress.
Begun == IF scored = <<>> THEN counter ELSE scored[1].first

\* What is told, counted and numbered agrees, at each point of the loop.
Story ==
  /\ pc = "down" => told = <<>>
  /\ pc \in Alive => total = counter /\ (Distinguished => ToldUnder(told, config))
  /\ pc \in {"loop"} \cup Ending =>
       Lineage(told, counter) /\ gen = Len(told) /\ counter <= IdsUpTo(gen, 0)
  /\ pc = "dispatch" =>
       /\ Lineage(told, Begun) /\ gen = Len(told) /\ gen < MaxGenerations
       /\ Begun <= counter /\ counter <= IdsUpTo(gen, branch - 1)
  /\ pc \in {"checkpoint", "adapt"} =>
       /\ Lineage(told, counter) /\ gen + 1 = Len(told) /\ gen < MaxGenerations
       /\ counter <= IdsUpTo(gen + 1, 0)
  /\ pc = "promote" => manifest.generation = gen /\ manifest.total = total

\* A run of the configuration that was checkpointed is not behind its checkpoint,
\* unless it is a second run that was told of none.
Forward ==
  /\ pc \in Alive /\ checkpoint # NoFile /\ checkpoint.config_hash = ConfigHash(config)
     /\ (again => found)
     => checkpoint.generation <= IF pc = "adapt" THEN gen + 1 ELSE gen
  /\ found => checkpoint # NoFile

\* What this run has promoted is of the results that are there.
FromResults ==
  promotion => pc = "gauntlet" /\ promoted \subseteq {results[i] : i \in DOMAIN results}

\* The inductive invariant.
OptInv == Typed /\ Cut /\ Story /\ Forward /\ FromResults

----------------------------------------------------------------------------
(* Lemmas about candidate ids and lineages.                                *)

\* What the assumptions say of each size.
LEMMA SizeFacts ==
  /\ MaxGenerations \in Nat /\ MaxGenerations >= 1
  /\ InitialBatch \in Nat /\ InitialBatch >= 1 /\ InitialBatch <= MaxBatch
  /\ MaxBatch \in Nat /\ MemoryBatch \in Nat /\ MemoryBatch >= 1
  /\ NBranches \in Nat /\ NBranches >= 1
  /\ MaxRuns \in Nat /\ MaxFaults \in Nat
BY SizesAssumption, LimitsAssumption

\* Each branch adds a batch at most, and each generation a batch for every branch.
LEMMA IdFacts ==
  /\ \A g \in Nat, b \in Nat : /\ IdsUpTo(g, b) \in Nat
                               /\ IdsUpTo(g, b + 1) = IdsUpTo(g, b) + MaxBatch
  /\ \A g \in Nat : IdsUpTo(g, NBranches) = IdsUpTo(g + 1, 0)
  /\ \A g \in 0 .. MaxGenerations : IdsUpTo(g, 0) <= MaxIds
  /\ MaxIds \in Nat
<1> DEFINE K == NBranches * MaxBatch
<1>1. K \in Nat /\ MaxBatch \in Nat /\ NBranches \in Nat /\ MaxGenerations \in Nat
  BY SizesAssumption
<1>2. MaxIds = MaxGenerations * K
  BY SizesAssumption DEF MaxIds
<1>3. \A g, b : IdsUpTo(g, b) = g * K + b * MaxBatch
  BY DEF IdsUpTo
<1>4. \A b \in Nat : (b + 1) * MaxBatch = b * MaxBatch + MaxBatch /\ b * MaxBatch \in Nat
  BY <1>1
<1>5. NBranches * MaxBatch = K
  OBVIOUS
<1> HIDE DEF K
<1>6. \A g \in Nat : (g + 1) * K = g * K + K /\ g * K \in Nat
  BY <1>1
<1>7. \A g \in 0 .. MaxGenerations : g * K <= MaxGenerations * K
  BY <1>1
<1>8. 0 * MaxBatch = 0
  BY <1>1
<1>9. QED BY <1>1, <1>2, <1>3, <1>4, <1>5, <1>6, <1>7, <1>8

\* The process at rest: nothing told, nothing counted, nobody asked.
LEMMA RestFacts ==
  /\ NoneAsked \in [Branches -> 0 .. MaxBatch] /\ {} \in SUBSET Branches
  /\ 1 \in 1 .. NBranches + 1 /\ InitialBatch \in 1 .. MaxBatch
  /\ 0 \in 0 .. MaxIds /\ 0 \in 0 .. MaxGenerations
  /\ 0 \in 0 .. MaxRuns /\ 0 \in 0 .. MaxFaults
  /\ <<>> \in Seq(Row(MaxIds)) /\ <<>> \in Seq(Entries) /\ Len(<<>>) = 0
<1>1. NoneAsked \in [Branches -> 0 .. MaxBatch]
  BY SizeFacts DEF NoneAsked
<1>2. 0 \in 0 .. MaxIds
  BY SizeFacts, IdFacts
<1>3. QED BY <1>1, <1>2, SizeFacts

\* A generation appended where the last one ended goes on with the lineage.
LEMMA LineageAppend ==
  ASSUME NEW t \in Seq(Entries), NEW n \in Nat, Lineage(t, n),
         NEW e \in Entries, e.gen = Len(t), e.first = n, e.first <= e.upto
  PROVE  Lineage(Append(t, e), e.upto)
<1> DEFINE u == Append(t, e)
<1>1. /\ u \in Seq(Entries) /\ Len(u) = Len(t) + 1
      /\ u[Len(t) + 1] = e
      /\ \A i \in 1 .. Len(t) : u[i] = t[i]
  OBVIOUS
<1>2. DOMAIN u = 1 .. Len(t) + 1 /\ DOMAIN t = 1 .. Len(t) /\ u # <<>> /\ Len(t) \in Nat
  BY <1>1
<1> HIDE DEF u
<1>3. ASSUME NEW i \in 1 .. Len(t) + 1
      PROVE  /\ u[i].gen = i - 1
             /\ u[i].first = IF i = 1 THEN 0 ELSE u[i - 1].upto
             /\ u[i].first <= u[i].upto
  <2>1. CASE i <= Len(t)
    <3>1. i \in 1 .. Len(t) /\ (i # 1 => i - 1 \in 1 .. Len(t))
      BY <2>1
    <3>2. u[i] = t[i] /\ (i # 1 => u[i - 1] = t[i - 1])
      BY <1>1, <3>1
    <3>3. QED BY <1>2, <3>1, <3>2 DEF Lineage
  <2>2. CASE i = Len(t) + 1
    <3>1. u[i] = e
      BY <1>1, <2>2
    <3>2. CASE t = <<>>
      BY <2>2, <3>1, <3>2 DEF Lineage
    <3>3. CASE t # <<>>
      <4>1. Len(t) # 0 /\ i - 1 = Len(t) /\ i # 1
        BY <2>2, <3>3
      <4>2. u[i - 1] = t[Len(t)] /\ n = t[Len(t)].upto
        BY <1>1, <1>2, <3>3, <4>1 DEF Lineage
      <4>3. QED BY <2>2, <3>1, <4>1, <4>2
    <3>4. QED BY <3>2, <3>3
  <2>3. QED BY <1>2, <2>1, <2>2
<1>4. e.upto = u[Len(u)].upto
  BY <1>1
<1>5. QED BY <1>2, <1>3, <1>4 DEF Lineage, u

\* Nothing told, nothing given out.
LEMMA LineageStart == Lineage(<<>>, 0)
BY DEF Lineage

\* What is told under one configuration and the next generation of it.
LEMMA ToldAppend ==
  ASSUME NEW t \in Seq(Entries), NEW e \in Entries, NEW c,
         ToldUnder(t, c), e.config = c
  PROVE  ToldUnder(Append(t, e), c)
<1>1. /\ DOMAIN Append(t, e) = 1 .. Len(t) + 1 /\ DOMAIN t = 1 .. Len(t)
      /\ Append(t, e)[Len(t) + 1] = e
      /\ \A i \in 1 .. Len(t) : Append(t, e)[i] = t[i]
  OBVIOUS
<1>2. QED BY <1>1 DEF ToldUnder

\* A cut is not the absence of a file.
LEMMA NoFileFacts == NoFile \notin Cuts /\ NoFile.generation = 0
BY DEF NoFile, Cuts

\* Whatever was allocated, a branch is asked for a batch at most.
LEMMA AskedFacts ==
  ASSUME NEW b \in 1 .. MaxBatch, NEW n \in Asked(b)
  PROVE  n \in [Branches -> 0 .. MaxBatch]
<1>1. n \in [Branches -> 0 .. b]
  BY DEF Asked
<1>2. QED BY <1>1, SizesAssumption

----------------------------------------------------------------------------
(* The invariant.                                                          *)

LEMMA OptInit == ASSUME Init PROVE OptInv
<1>1. RowsTyped
  BY RestFacts DEF Init, RowsTyped
<1>2. FilesTyped
  BY RestFacts, NoFileFacts DEF Init, FilesTyped
<1>3. LoopTyped
  BY RestFacts DEF Init, LoopTyped, Alive, Ending
<1>4. QED BY <1>1, <1>2, <1>3
     DEF Typed, Init, OptInv, Cut, Story, Forward, FromResults, Alive, Ending

\* A process that ends leaves the files as they are.
LEMMA ExitKeeps ==
  ASSUME OptInv, Exit, UNCHANGED <<checkpoint, results, promoted, config, runs>>,
         manifest'.generation \in 0 .. MaxGenerations, faults' \in 0 .. MaxFaults
  PROVE  OptInv'
<1>1. Typed'
  <2>1. RowsTyped'
    BY RestFacts DEF OptInv, Typed, RowsTyped, Exit
  <2>2. FilesTyped'
    BY DEF OptInv, Typed, FilesTyped
  <2>3. LoopTyped'
    BY RestFacts DEF OptInv, Typed, LoopTyped, Exit
  <2>4. QED BY <2>1, <2>2, <2>3 DEF Typed
<1>2. Cut'
  BY DEF OptInv, Cut
<1>3. Story' /\ Forward' /\ FromResults'
  BY DEF Exit, Story, Forward, FromResults, Alive, Ending
<1>4. QED BY <1>1, <1>2, <1>3 DEF OptInv

\* Resumed or not, a run begins where its samplers' counters stand.
LEMMA BeginningKeeps ==
  ASSUME OptInv, NEW c \in Configs, config' = c, NEW resumed \in BOOLEAN, Begin(resumed),
         resumed => checkpoint # NoFile /\ ConfigAccepted(checkpoint, c),
         ~resumed /\ (again' => found') => ~(checkpoint # NoFile /\ ConfigAccepted(checkpoint, c)),
         found' => checkpoint # NoFile,
         found' \in BOOLEAN, again' \in BOOLEAN, batch' \in 1 .. MaxBatch,
         runs' \in 0 .. MaxRuns, faults' \in 0 .. MaxFaults
  PROVE  OptInv'
<1>1. /\ pc' = "loop" /\ config' = c
      /\ rows' = <<>> /\ asked' = NoneAsked /\ branch' = 1 /\ scored' = <<>>
      /\ promotion' = FALSE /\ UNCHANGED <<checkpoint, results, manifest, promoted, validated>>
  BY DEF Begin, files
<1>0. "loop" \in Alive
  BY DEF Alive
<1>2. CASE resumed
  <2>1. /\ gen' = checkpoint.generation /\ counter' = checkpoint.counter
        /\ total' = checkpoint.total /\ best' = checkpoint.best
        /\ told' = checkpoint.told /\ visited' = checkpoint.visited
    BY <1>2 DEF Begin
  <2>2. checkpoint \in Cuts /\ checkpoint # NoFile
    BY <1>2 DEF OptInv, Typed, FilesTyped
  <2>3. /\ checkpoint.generation \in 0 .. MaxGenerations
        /\ checkpoint.counter \in 0 .. MaxIds /\ checkpoint.total \in 0 .. MaxIds
        /\ checkpoint.best \in Seq(Row(MaxIds)) /\ Len(checkpoint.best) <= 1
        /\ checkpoint.told \in Seq(Entries) /\ checkpoint.visited \in SUBSET Branches
    BY <2>2 DEF Cuts, OptInv, Typed, FilesTyped
  <2>4. Typed'
    <3>1. RowsTyped'
      BY <1>1, <2>1, <2>3, RestFacts DEF OptInv, Typed, RowsTyped
    <3>2. FilesTyped'
      BY <1>1 DEF OptInv, Typed, FilesTyped
    <3>3. LoopTyped'
      BY <1>0, <1>1, <2>1, <2>3, RestFacts DEF OptInv, Typed, LoopTyped
    <3>4. QED BY <3>1, <3>2, <3>3 DEF Typed
  <2>5. Distinguished => ToldUnder(told', c)
    <3>1. SUFFICES ASSUME Distinguished PROVE ToldUnder(told', c)
      OBVIOUS
    <3>2. checkpoint.config_hash = c
      BY <1>2, <2>2, <3>1 DEF ConfigAccepted, ConfigHash, Distinguished, OptInv, Cut
    <3>3. QED BY <2>1, <2>2, <3>1, <3>2 DEF OptInv, Cut
  <2>6. Story'
    BY <1>1, <2>1, <2>2, <2>5 DEF OptInv, Cut, Story, Alive, Ending
  <2>7. Forward'
    BY <1>1, <2>1, <2>3 DEF Forward
  <2>8. QED BY <1>1, <2>4, <2>6, <2>7 DEF OptInv, Cut, FromResults
<1>3. CASE ~resumed
  <2>1. /\ gen' = 0 /\ counter' = 0 /\ total' = 0 /\ best' = <<>> /\ told' = <<>>
        /\ visited' = {}
    BY <1>3 DEF Begin
  <2>2. Typed'
    <3>1. RowsTyped'
      BY <1>1, <2>1, RestFacts DEF OptInv, Typed, RowsTyped
    <3>2. FilesTyped'
      BY <1>1 DEF OptInv, Typed, FilesTyped
    <3>3. LoopTyped'
      BY <1>0, <1>1, <2>1, RestFacts DEF OptInv, Typed, LoopTyped
    <3>4. QED BY <3>1, <3>2, <3>3 DEF Typed
  <2>3. ToldUnder(<<>>, c)
    BY DEF ToldUnder
  <2>4. 0 <= IdsUpTo(0, 0)
    BY IdFacts
  <2>5. Story'
    BY <1>1, <2>1, <2>3, <2>4, LineageStart DEF Story, Alive, Ending
  <2>6. (again' => found') /\ checkpoint # NoFile => checkpoint.config_hash # ConfigHash(c)
    BY <1>3 DEF ConfigAccepted
  <2>7. Forward'
    BY <1>1, <2>6 DEF Forward
  <2>8. QED BY <1>1, <2>2, <2>5, <2>7 DEF OptInv, Cut, FromResults
<1>4. QED BY <1>2, <1>3

LEMMA StartKeeps == ASSUME OptInv, NEW c \in Configs, Start(c) PROVE OptInv'
<1>1. /\ config' = c /\ Begin(checkpoint # NoFile /\ ConfigAccepted(checkpoint, c))
      /\ found' = (checkpoint # NoFile) /\ again' = FALSE
  BY DEF Start
<1>2. batch' \in 1 .. MaxBatch
  BY SizeFacts DEF Start, SmallerBatch
<1>3. runs' \in 0 .. MaxRuns /\ faults' \in 0 .. MaxFaults
  BY SizeFacts DEF Start, OptInv, Typed, LoopTyped
<1>4. QED BY <1>1, <1>2, <1>3, BeginningKeeps

\* The second run resumes from the checkpoint of now, if there was one before.
LEMMA AgainKeeps == ASSUME OptInv, RunAgain PROVE OptInv'
<1>1. /\ UNCHANGED <<config, found, runs>> /\ again' = TRUE
      /\ Begin(found /\ ConfigAccepted(checkpoint, config))
  BY DEF RunAgain
<1>2. /\ config \in Configs /\ found \in BOOLEAN /\ batch \in 1 .. MaxBatch
      /\ runs \in 0 .. MaxRuns /\ faults \in 0 .. MaxFaults
      /\ found => checkpoint # NoFile
  BY DEF OptInv, Typed, LoopTyped, Forward
<1>3. batch' \in 1 .. MaxBatch
  BY <1>2, SizeFacts DEF RunAgain, SmallerBatch
<1>4. faults' \in 0 .. MaxFaults
  BY <1>2, SizeFacts DEF RunAgain, Fault
<1> DEFINE R == found /\ ConfigAccepted(checkpoint, config)
<1>5. R \in BOOLEAN /\ Begin(R)
  BY <1>1, <1>2
<1>6. (R => checkpoint # NoFile /\ ConfigAccepted(checkpoint, config))
      /\ (~R /\ (again' => found') => ~(checkpoint # NoFile /\ ConfigAccepted(checkpoint, config)))
  BY <1>1, <1>2
<1> HIDE DEF R
<1>7. QED BY <1>1, <1>2, <1>3, <1>4, <1>5, <1>6, BeginningKeeps

\* The candidates of a branch are given the ids that follow.
LEMMA DispatchKeeps ==
  ASSUME OptInv, NEW s \in 1 .. MaxScore, DispatchBranch(s)
  PROVE  OptInv'
<1> DEFINE n == asked[branch]
           row == [gen |-> gen, first |-> counter, upto |-> counter + n, score |-> s]
<1>1. /\ pc = "dispatch" /\ branch <= NBranches /\ branch' = branch + 1
      /\ UNCHANGED <<checkpoint, results, manifest, promoted, validated, pc, config, gen,
                     asked, told, visited, batch, promotion,
                     found, again, runs, faults>>
  BY DEF DispatchBranch, files, attempt
<1>2. Typed /\ Story
  BY DEF OptInv
<1>3. /\ branch \in Branches /\ n \in 0 .. MaxBatch /\ gen \in 0 .. MaxGenerations - 1
      /\ counter \in Nat /\ total = counter /\ NBranches \in Nat /\ MaxBatch \in Nat
      /\ MaxGenerations \in Nat /\ branch - 1 \in Nat
  BY <1>1, <1>2, SizeFacts, IdFacts DEF Typed, LoopTyped, Story, Branches, Alive
<1>4. counter + n <= IdsUpTo(gen, branch)
  <2>1. IdsUpTo(gen, (branch - 1) + 1) = IdsUpTo(gen, branch - 1) + MaxBatch
        /\ IdsUpTo(gen, branch - 1) \in Nat
    <3>1. gen \in Nat /\ branch - 1 \in Nat
      BY <1>3
    <3>2. QED BY <3>1, IdFacts
  <2>2. (branch - 1) + 1 = branch
    BY <1>3 DEF Branches
  <2>3. counter <= IdsUpTo(gen, branch - 1)
    BY <1>1, <1>2 DEF Story
  <2>4. QED BY <1>3, <2>1, <2>2, <2>3
<1>5. IdsUpTo(gen, branch) <= MaxIds /\ IdsUpTo(gen, branch) \in Nat
  <2>1. IdsUpTo(gen, NBranches) <= MaxIds
    <3>1. gen + 1 \in 0 .. MaxGenerations
      BY <1>3
    <3>2. QED BY <1>3, <3>1, IdFacts
  <2>2. IdsUpTo(gen, branch) <= IdsUpTo(gen, NBranches)
    <3>1. branch * MaxBatch <= NBranches * MaxBatch
      BY <1>3 DEF Branches
    <3>2. /\ IdsUpTo(gen, branch) = gen * (NBranches * MaxBatch) + branch * MaxBatch
          /\ IdsUpTo(gen, NBranches) = gen * (NBranches * MaxBatch) + NBranches * MaxBatch
      BY DEF IdsUpTo
    <3> DEFINE a == gen * (NBranches * MaxBatch)  b == branch * MaxBatch  d == NBranches * MaxBatch
    <3>3. a \in Nat /\ b \in Nat /\ d \in Nat
      BY <1>3 DEF Branches
    <3>4. IdsUpTo(gen, branch) = a + b /\ IdsUpTo(gen, NBranches) = a + d /\ b <= d
      BY <3>1, <3>2
    <3> HIDE DEF a, b, d
    <3>5. QED BY <3>3, <3>4
  <2>3. IdsUpTo(gen, branch) \in Nat /\ IdsUpTo(gen, NBranches) \in Nat
    <3>1. gen \in Nat /\ branch \in Nat
      BY <1>3 DEF Branches
    <3>2. QED BY <1>3, <3>1, IdFacts
  <2>4. QED BY <2>1, <2>2, <2>3, IdFacts
<1> HIDE DEF n
<1>6. CASE n = 0
  <2>1. UNCHANGED <<scored, rows, counter, total, best>>
    BY <1>6 DEF DispatchBranch, n
  <2>2. Typed'
    <3>1. RowsTyped' /\ FilesTyped'
      BY <1>1, <1>2, <2>1 DEF Typed, RowsTyped, FilesTyped
    <3>2. LoopTyped'
      BY <1>1, <1>2, <1>3, <2>1 DEF Typed, LoopTyped, Branches
    <3>3. QED BY <3>1, <3>2 DEF Typed
  <2>3. counter <= IdsUpTo(gen, branch)
    BY <1>3, <1>4, <1>6
  <2>4. (branch + 1) - 1 = branch
    BY <1>3 DEF Branches
  <2>5. Begun' = Begun
    BY <2>1 DEF Begun
  <2>6. Story'
    BY <1>1, <1>2, <2>1, <2>3, <2>4, <2>5 DEF Story, Alive, Ending
  <2>7. QED BY <1>1, <2>1, <2>2, <2>6 DEF OptInv, Cut, Forward, FromResults
<1>7. CASE n # 0
  <2>1. /\ scored' = Append(scored, row) /\ rows' = Append(rows, row)
        /\ counter' = counter + n /\ total' = total + n /\ best' = BetterOf(best, row)
    BY <1>7 DEF DispatchBranch, n
  <2>2. row \in Row(MaxIds)
    BY <1>3, <1>4, <1>5, <1>7, IdFacts DEF Row
  <2>3. row.first = counter
    OBVIOUS
  <2> HIDE DEF row
  <2>4. /\ scored' \in Seq(Row(MaxIds)) /\ rows' \in Seq(Row(MaxIds))
        /\ best' \in Seq(Row(MaxIds)) /\ Len(best') <= 1
    BY <1>2, <2>1, <2>2 DEF Typed, RowsTyped, BetterOf
  <2>5. counter' \in 0 .. MaxIds /\ total' = counter'
    BY SMTT(30), <1>3, <1>4, <1>5, <2>1, IdFacts
  <2>6. Typed'
    <3>1. RowsTyped'
      BY <1>1, <1>2, <2>4 DEF Typed, RowsTyped
    <3>2. FilesTyped'
      BY <1>1, <1>2 DEF Typed, FilesTyped
    <3>3. LoopTyped'
      BY <1>1, <1>2, <1>3, <2>5 DEF Typed, LoopTyped, Branches
    <3>4. QED BY <3>1, <3>2, <3>3 DEF Typed
  <2>7. Begun' = Begun
    <3>1. scored' # <<>> /\ scored'[1] = IF scored = <<>> THEN row ELSE scored[1]
      BY <1>2, <2>1, <2>2 DEF Typed, RowsTyped
    <3>2. QED BY <2>3, <3>1 DEF Begun
  <2>8. counter' <= IdsUpTo(gen, branch) /\ counter <= counter' /\ (branch + 1) - 1 = branch
    BY <1>3, <1>4, <1>5, <2>1 DEF Branches
  <2>9. Begun \in Int
    <3>1. scored # <<>> => scored[1] \in Row(MaxIds)
      BY <1>2 DEF Typed, RowsTyped
    <3>2. \A r \in Row(MaxIds) : r.first \in Int
      BY IdFacts DEF Row
    <3>3. QED BY <1>3, <3>1, <3>2 DEF Begun
  <2>10. Story'
    BY <1>1, <1>2, <1>3, <2>5, <2>7, <2>8, <2>9 DEF Story, Alive, Ending
  <2>11. QED BY <1>1, <2>6, <2>10 DEF OptInv, Cut, Forward, FromResults
<1>8. QED BY <1>6, <1>7

\* A generation begins at the next candidate id.
LEMMA BeginKeeps ==
  ASSUME OptInv, NEW n, BeginGeneration(n)
  PROVE  OptInv'
<1>1. /\ pc = "loop" /\ pc' = "dispatch" /\ gen < MaxGenerations /\ n \in Asked(batch)
      /\ asked' = n /\ branch' = 1 /\ scored' = <<>>
      /\ UNCHANGED <<checkpoint, results, manifest, promoted, config, gen, rows, counter,
                     total, best, told, visited, batch, promotion,
                     found, again, runs, faults>>
  BY DEF BeginGeneration, files, attempt, memory
<1>2. Typed /\ Story
  BY DEF OptInv
<1>3. asked' \in [Branches -> 0 .. MaxBatch]
  BY <1>1, <1>2, AskedFacts DEF Typed, LoopTyped
<1>4. Typed'
  <2>1. RowsTyped'
    BY <1>1, <1>2, RestFacts DEF Typed, RowsTyped
  <2>2. FilesTyped'
    BY <1>1, <1>2 DEF Typed, FilesTyped
  <2>3. LoopTyped'
    BY <1>1, <1>2, <1>3, RestFacts DEF Typed, LoopTyped, Alive
  <2>4. QED BY <2>1, <2>2, <2>3 DEF Typed
<1>5. Begun' = counter /\ 1 - 1 = 0 /\ counter \in Int
  BY <1>1, <1>2, IdFacts DEF Begun, Typed, LoopTyped
<1>6. Story'
  BY <1>1, <1>2, <1>5 DEF Story, Alive, Ending
<1>7. Forward' /\ FromResults'
  BY <1>1 DEF OptInv, Forward, FromResults, Alive
<1>8. QED BY <1>1, <1>4, <1>6, <1>7 DEF OptInv, Cut

LEMMA ExhaustedKeeps == ASSUME OptInv, GenerationsExhausted PROVE OptInv'
<1>1. /\ pc = "loop" /\ pc' = "finalize"
      /\ UNCHANGED <<checkpoint, results, manifest, promoted, config, gen, asked, branch,
                     scored, rows, counter, total, best, told, visited, batch, promotion,
                     found, again, runs, faults>>
  BY DEF GenerationsExhausted, files, attempt, loop, memory
<1>2. Typed'
  BY <1>1 DEF OptInv, Typed, RowsTyped, FilesTyped, LoopTyped, Alive, Ending
<1>3. Story'
  BY <1>1 DEF OptInv, Story, Alive, Ending
<1>4. Forward' /\ FromResults'
  BY <1>1 DEF OptInv, Forward, FromResults, Alive
<1>5. QED BY <1>1, <1>2, <1>3, <1>4 DEF OptInv, Cut

\* The generation that is told begins where the one before it ended.
LEMMA TellKeeps == ASSUME OptInv, Tell PROVE OptInv'
<1> DEFINE entry == [gen |-> gen, config |-> config,
                     first |-> IF scored = <<>> THEN counter ELSE scored[1].first,
                     upto |-> counter]
<1>1. /\ pc = "dispatch" /\ branch > NBranches /\ pc' = "checkpoint"
      /\ told' = Append(told, entry)
      /\ visited' = visited \cup {k \in Branches : asked[k] > 0}
      /\ UNCHANGED <<checkpoint, results, manifest, promoted, config, gen, asked, branch,
                     scored, rows, counter, total, best, batch, promotion,
                     found, again, runs, faults>>
  BY DEF Tell, files, attempt, loop
<1>2. Typed /\ Story
  BY DEF OptInv
<1>3. /\ gen = Len(told) /\ gen < MaxGenerations /\ Begun <= counter
      /\ Lineage(told, Begun) /\ total = counter
      /\ Distinguished => ToldUnder(told, config)
  BY <1>1, <1>2 DEF Story, Alive
<1>4. /\ entry.first = Begun /\ entry.gen = gen /\ entry.config = config
      /\ entry.upto = counter
  BY DEF Begun
<1>5. Begun \in Nat /\ counter \in Nat /\ gen \in Nat /\ config \in Configs
  <2>1. scored # <<>> => scored[1] \in Row(MaxIds)
    BY <1>2 DEF Typed, RowsTyped
  <2>2. \A r \in Row(MaxIds) : r.first \in Nat
    BY IdFacts DEF Row
  <2>3. counter \in Nat /\ gen \in Nat /\ config \in Configs
    BY <1>2, IdFacts, SizeFacts DEF Typed, LoopTyped
  <2>4. QED BY <2>1, <2>2, <2>3 DEF Begun
<1>6. entry \in Entries
  BY <1>4, <1>5 DEF Entries, Begun
<1>7. told \in Seq(Entries)
  BY <1>2 DEF Typed, LoopTyped
<1> HIDE DEF entry
<1>8. Lineage(told', counter) /\ Len(told') = gen + 1 /\ told' \in Seq(Entries)
  BY <1>1, <1>3, <1>4, <1>5, <1>6, <1>7, LineageAppend
<1>9. Distinguished => ToldUnder(told', config)
  BY <1>1, <1>3, <1>4, <1>6, <1>7, ToldAppend
<1>10. counter <= IdsUpTo(gen + 1, 0)
  <2>1. branch \in 1 .. NBranches + 1 /\ NBranches \in Nat
    BY <1>2, SizeFacts DEF Typed, LoopTyped
  <2>2. branch - 1 = NBranches
    BY <1>1, <2>1
  <2>3. counter <= IdsUpTo(gen, branch - 1)
    BY <1>1, <1>2 DEF Story
  <2>4. IdsUpTo(gen, NBranches) = IdsUpTo(gen + 1, 0)
    BY <1>5, IdFacts
  <2>5. QED BY <2>2, <2>3, <2>4
<1>11. Typed'
  <2>1. RowsTyped' /\ FilesTyped'
    BY <1>1, <1>2 DEF Typed, RowsTyped, FilesTyped
  <2>2. LoopTyped'
    BY <1>1, <1>2, <1>8 DEF Typed, LoopTyped, Alive
  <2>3. QED BY <2>1, <2>2 DEF Typed
<1>12. Story'
  BY <1>1, <1>3, <1>8, <1>9, <1>10 DEF Story, Alive, Ending
<1>13. Forward' /\ FromResults'
  BY <1>1 DEF OptInv, Forward, FromResults, Alive
<1>14. QED BY <1>1, <1>11, <1>12, <1>13 DEF OptInv, Cut

\* The checkpoint is of the generation just told.
LEMMA CheckpointKeeps == ASSUME OptInv, Checkpoint PROVE OptInv'
<1>1. /\ pc = "checkpoint" /\ pc' = "adapt"
      /\ checkpoint' = IF CheckpointDue(gen) THEN CheckpointOf(gen) ELSE checkpoint
      /\ UNCHANGED <<results, manifest, promoted, config, gen, asked, branch, scored, rows,
                     counter, total, best, told, visited, batch, promotion,
                     found, again, runs, faults>>
  BY DEF Checkpoint, attempt, loop, memory
<1>2. Typed /\ Story /\ Cut /\ Forward /\ FromResults
  BY DEF OptInv
<1>3. /\ Lineage(told, counter) /\ gen + 1 = Len(told) /\ gen < MaxGenerations
      /\ counter <= IdsUpTo(gen + 1, 0) /\ total = counter
      /\ Distinguished => ToldUnder(told, config)
  BY <1>1, <1>2 DEF Story, Alive
<1>4. Story' /\ FromResults'
  BY <1>1, <1>2, <1>3 DEF Story, FromResults, Alive, Ending
<1>5. RowsTyped' /\ LoopTyped'
  BY <1>1, <1>2 DEF Typed, RowsTyped, LoopTyped, Alive
<1>6. gen \in Nat /\ gen + 1 \in 1 .. MaxGenerations
  BY <1>2, <1>3, SizeFacts DEF Typed, LoopTyped
<1>7. CASE CheckpointDue(gen)
  <2>1. /\ checkpoint'.generation = gen + 1 /\ checkpoint'.counter = counter
        /\ checkpoint'.total = total /\ checkpoint'.told = told
        /\ checkpoint'.best = best /\ checkpoint'.config_hash = ConfigHash(config)
    BY <1>1, <1>7 DEF CheckpointOf
  <2>2. ConfigHash(config) \in Hashes
    BY <1>2 DEF ConfigHash, Hashes, Typed, LoopTyped
  <2>3. checkpoint' \in Cuts
    BY <1>1, <1>2, <1>6, <1>7, <2>2
    DEF CheckpointOf, Cuts, Typed, RowsTyped, LoopTyped
  <2>4. checkpoint' # NoFile
    BY <2>3, NoFileFacts
  <2>5. FilesTyped'
    BY <1>1, <1>2, <2>1, <2>3 DEF Typed, FilesTyped, RowsTyped
  <2>6. Distinguished => /\ checkpoint'.config_hash \in Configs
                         /\ ToldUnder(checkpoint'.told, checkpoint'.config_hash)
    BY <1>2, <1>3, <2>1 DEF Distinguished, ConfigHash, Typed, LoopTyped
  <2>7. Cut'
    BY <1>3, <2>1, <2>6 DEF Cut
  <2>8. Forward'
    BY <1>1, <1>6, <2>1, <2>4 DEF Forward
  <2>9. QED BY <1>4, <1>5, <2>5, <2>7, <2>8 DEF OptInv, Typed
<1>8. CASE ~CheckpointDue(gen)
  <2>1. checkpoint' = checkpoint
    BY <1>1, <1>8
  <2>2. FilesTyped' /\ Cut'
    BY <1>1, <1>2, <2>1 DEF Typed, FilesTyped, Cut
  <2>3. checkpoint # NoFile => checkpoint.generation \in Int
    BY <1>2, SizeFacts DEF Typed, FilesTyped, Cuts
  <2>4. Forward'
    BY <1>1, <1>2, <1>6, <2>1, <2>3 DEF Forward, Alive
  <2>5. QED BY <1>4, <1>5, <2>2, <2>4 DEF OptInv, Typed
<1>9. QED BY <1>7, <1>8

LEMMA EndKeeps ==
  ASSUME OptInv, NEW b \in 1 .. MaxBatch, NEW converged, EndGeneration(b, converged)
  PROVE  OptInv'
<1>1. /\ pc = "adapt" /\ pc' \in {"loop", "finalize"} /\ batch' = b /\ gen' = gen + 1
      /\ UNCHANGED <<checkpoint, results, manifest, promoted, config, asked, branch, scored,
                     rows, counter, total, best, told, visited, promotion,
                     found, again, runs, faults>>
  BY DEF EndGeneration, files, attempt
<1>2. Typed /\ Story /\ Cut /\ Forward /\ FromResults
  BY DEF OptInv
<1>3. gen' \in 0 .. MaxGenerations
  BY <1>1, <1>2, SizeFacts DEF Typed, LoopTyped, Story
<1>4. Typed'
  <2>1. RowsTyped' /\ FilesTyped'
    BY <1>1, <1>2 DEF Typed, RowsTyped, FilesTyped
  <2>2. LoopTyped'
    BY <1>1, <1>2, <1>3 DEF Typed, LoopTyped, Alive, Ending
  <2>3. QED BY <2>1, <2>2 DEF Typed
<1>5. Story'
  BY <1>1, <1>2 DEF Story, Alive, Ending
<1>6. Forward' /\ FromResults'
  BY <1>1, <1>2 DEF Forward, FromResults, Alive, Ending
<1>7. QED BY <1>1, <1>2, <1>4, <1>5, <1>6 DEF OptInv, Cut

\* Results, manifest and promotion: each leaves what the next one reads.
LEMMA EndingKeeps ==
  ASSUME OptInv, Finalize \/ WriteManifest \/ Promote \/ PromotionFails
  PROVE  OptInv'
<1>1. Typed /\ Story /\ Cut /\ Forward /\ FromResults
  BY DEF OptInv
<1>2. /\ UNCHANGED <<checkpoint, config, gen, asked, branch, scored, rows, counter, total,
                     best, told, visited, batch, found, again, runs>>
      /\ pc \in {"finalize", "manifest", "promote"}
      /\ pc' \in {"manifest", "promote", "gauntlet"}
  BY DEF Finalize, WriteManifest, Promote, PromotionFails, files, attempt, loop, memory
<1>3. ~promotion
  BY <1>1, <1>2 DEF FromResults
<1>4. results' \in Seq(Row(MaxIds))
  BY <1>1 DEF Finalize, WriteManifest, Promote, PromotionFails, files, Typed, RowsTyped
<1>5. manifest'.generation \in 0 .. MaxGenerations
  BY <1>1 DEF Finalize, WriteManifest, Promote, PromotionFails, files, Typed, FilesTyped,
              LoopTyped
<1>6. faults' \in 0 .. MaxFaults
  BY <1>1, SizeFacts
  DEF Finalize, WriteManifest, Promote, PromotionFails, Fault, Typed, LoopTyped
<1>7. promotion' \in BOOLEAN
  BY <1>1 DEF Finalize, WriteManifest, Promote, PromotionFails, Typed, LoopTyped
<1>8. Typed'
  <2>1. RowsTyped' /\ FilesTyped'
    BY <1>1, <1>2, <1>4, <1>5 DEF Typed, RowsTyped, FilesTyped
  <2>2. LoopTyped'
    BY <1>1, <1>2, <1>6, <1>7 DEF Typed, LoopTyped, Alive, Ending
  <2>3. QED BY <2>1, <2>2 DEF Typed
<1>9. pc' = "promote" => manifest'.generation = gen' /\ manifest'.total = total'
  BY DEF Finalize, WriteManifest, Promote, PromotionFails, loop, memory
<1>10. Story'
  BY <1>1, <1>2, <1>9 DEF Story, Alive, Ending
<1>11. promotion' => /\ pc' = "gauntlet"
                     /\ promoted' \subseteq {results'[i] : i \in DOMAIN results'}
  <2>1. Top(results) \subseteq {results[i] : i \in DOMAIN results}
    BY DEF Top
  <2>2. CASE Promote
    BY <2>1, <2>2 DEF Promote
  <2>3. CASE Finalize \/ WriteManifest \/ PromotionFails
    BY <1>3, <2>3 DEF Finalize, WriteManifest, PromotionFails
  <2>4. QED BY <2>2, <2>3
<1>12. Forward'
  BY <1>1, <1>2 DEF Forward, Alive, Ending
<1>13. QED BY <1>1, <1>2, <1>8, <1>10, <1>11, <1>12 DEF OptInv, Cut, FromResults

LEMMA OptStep == ASSUME OptInv, [Next]_vars PROVE OptInv'
<1>1. ASSUME NEW c \in Configs, Start(c) PROVE OptInv'
  BY <1>1, StartKeeps
<1>2. CASE Run
  <2>1. ASSUME NEW n, BeginGeneration(n) PROVE OptInv'
    BY <2>1, BeginKeeps
  <2>2. ASSUME NEW s \in 1 .. MaxScore, DispatchBranch(s) PROVE OptInv'
    BY <2>2, DispatchKeeps
  <2>3. ASSUME NEW b \in 1 .. MaxBatch, NEW converged, EndGeneration(b, converged)
        PROVE OptInv'
    BY <2>3, EndKeeps
  <2>4. CASE Gauntlet
    BY <2>4, ExitKeeps DEF Gauntlet, OptInv, Typed, FilesTyped, LoopTyped
  <2>5. QED BY <1>2, <2>1, <2>2, <2>3, <2>4, ExhaustedKeeps, TellKeeps, CheckpointKeeps,
               EndingKeeps DEF Run
<1>6. CASE RunAgain
  BY <1>6, AgainKeeps
<1>3. CASE Abort
  <2>1. faults' \in 0 .. MaxFaults
    BY <1>3, SizeFacts DEF Abort, Fault, OptInv, Typed, LoopTyped
  <2>2. QED BY <1>3, <2>1, ExitKeeps DEF Abort, files, OptInv, Typed, FilesTyped
<1>4. CASE UNCHANGED vars
  <2>1. UNCHANGED <<checkpoint, results, manifest, promoted, pc, config, gen, asked, branch,
                    scored, rows, counter, total, best, told, visited, batch, promotion,
                     found, again, runs, faults>>
    BY <1>4 DEF vars, files, attempt, loop, memory
  <2>2. Typed'
    BY <2>1 DEF OptInv, Typed, RowsTyped, FilesTyped, LoopTyped
  <2>3. Story'
    BY <2>1 DEF OptInv, Story, Begun
  <2>4. QED BY <2>1, <2>2, <2>3 DEF OptInv, Cut, Forward, FromResults
<1>5. QED BY <1>1, <1>2, <1>3, <1>4, <1>6 DEF Next

LEMMA OptAlways == Spec => []OptInv
BY OptInit, OptStep, PTL DEF Spec

----------------------------------------------------------------------------
(* Theorems.                                                               *)

LEMMA InvIsTyped == ASSUME OptInv PROVE TypeOK
<1>1. RowsTyped /\ FilesTyped /\ LoopTyped /\ Story
  BY DEF OptInv, Typed
<1>2. /\ {results[i] : i \in DOMAIN results} \subseteq Row(MaxIds)
      /\ {rows[i] : i \in DOMAIN rows} \subseteq Row(MaxIds)
  BY <1>1 DEF RowsTyped
<1>3. checkpoint # NoFile => checkpoint.generation \in 1 .. MaxGenerations
  BY <1>1 DEF FilesTyped, Cuts
<1>4. Len(told) <= MaxGenerations
  BY <1>1, SizeFacts DEF Story, Alive, Ending, LoopTyped
<1>5. QED BY <1>1, <1>2, <1>3, <1>4 DEF TypeOK, RowsTyped, FilesTyped, LoopTyped, Alive, Ending

\* Every checkpoint is a consistent cut of the run, whatever configurations the runs
\* were started with and whether or not these carry a hash (_save_checkpoint).
THEOREM Checkpoints == Spec => []CheckpointConsistent
<1>1. OptInv => CheckpointConsistent
  BY DEF OptInv, Cut, CheckpointConsistent
<1>2. QED BY <1>1, OptAlways, PTL

\* The manifest counts each candidate of each generation exactly once.
THEOREM Manifests == Spec => []ManifestCounts
<1>1. OptInv => ManifestCounts
  BY DEF OptInv, Story, ManifestCounts, Alive, Ending
<1>2. QED BY <1>1, OptAlways, PTL

\* When each configuration has a hash that is its own, run, checkpoint and manifest
\* tell one story, across kills and resumptions.
THEOREM OneStory == Distinguished => (Spec => []RunConsistent)
<1>1. SUFFICES ASSUME Distinguished PROVE Spec => []RunConsistent
  OBVIOUS
<1>2. OptInv => ResumesWhereItStopped
  BY <1>1 DEF OptInv, Story, ResumesWhereItStopped, ToldUnder, Alive
<1>3. OptInv => CheckpointConsistent /\ ManifestCounts
  BY DEF OptInv, Cut, Story, CheckpointConsistent, ManifestCounts, Alive, Ending
<1>4. OptInv => RunConsistent
  BY <1>2, <1>3, InvIsTyped DEF RunConsistent
<1>5. QED BY <1>4, OptAlways, PTL

\* A checkpoint is only replaced by a later one, but for a second run that was told of
\* none, and the gauntlet is run on candidates of the results that are there, never on
\* those an earlier run has promoted.
THEOREM Onward == Spec => NeverGoesBack
<1>1. ASSUME OptInv, [Next]_vars
      PROVE  [/\ checkpoint # NoFile /\ checkpoint'.config_hash = checkpoint.config_hash
              /\ again => found
              => checkpoint'.generation > checkpoint.generation]_checkpoint
  <2>1. SUFFICES ASSUME checkpoint' # checkpoint, checkpoint # NoFile, again => found,
                        checkpoint'.config_hash = checkpoint.config_hash
                 PROVE  checkpoint'.generation > checkpoint.generation
    OBVIOUS
  <2>2. Checkpoint
    BY <1>1, <2>1
    DEF Next, Run, Start, RunAgain, Begin, BeginGeneration, GenerationsExhausted,
        DispatchBranch, Tell,
        EndGeneration, Finalize, WriteManifest, Promote, PromotionFails, Gauntlet, Abort,
        files, vars
  <2>3. /\ checkpoint'.generation = gen + 1 /\ pc = "checkpoint"
        /\ checkpoint'.config_hash = ConfigHash(config)
    BY <2>1, <2>2 DEF Checkpoint, CheckpointOf
  <2>4. checkpoint.generation <= gen
    BY <1>1, <2>1, <2>3 DEF OptInv, Forward, Alive
  <2>5. checkpoint.generation \in Int /\ gen \in Int
    BY <1>1, <2>1, SizeFacts DEF OptInv, Typed, FilesTyped, LoopTyped, Cuts
  <2>6. QED BY <2>3, <2>4, <2>5
<1>2. ASSUME OptInv, [Next]_vars
      PROVE  [validated' \subseteq {results[i] : i \in DOMAIN results}]_validated
  <2>1. SUFFICES ASSUME validated' # validated
                 PROVE  validated' \subseteq {results[i] : i \in DOMAIN results}
    OBVIOUS
  <2>2. Gauntlet
    BY <1>2, <2>1
    DEF Next, Run, Start, RunAgain, Begin, BeginGeneration, GenerationsExhausted,
        DispatchBranch, Tell,
        Checkpoint, EndGeneration, Finalize, WriteManifest, Promote, PromotionFails, Abort,
        files, vars
  <2>3. promotion /\ validated' = promoted
    BY <2>1, <2>2 DEF Gauntlet, GauntletRuns
  <2>4. QED BY <1>2, <2>3 DEF OptInv, FromResults
<1>3. QED BY <1>1, <1>2, OptAlways, PTL
  DEF Spec, NeverGoesBack, CheckpointAdvances, ValidatesCurrentResults

=============================================================================
