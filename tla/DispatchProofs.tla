----------------------------- MODULE DispatchProofs -----------------------------
(***************************************************************************)
(* Theorems about BatchDispatch and WorkerCache, for any groups, signals,  *)
(* batches, folds, limits, calls and faults.                               *)
(***************************************************************************)
EXTENDS MCDispatch, FiniteSetTheorems, SequenceTheorems, WellFoundedInduction, TLAPS

----------------------------------------------------------------------------
(* Subsequences.  That there is a position of each rank is proved by the   *)
(* least number up to which there are enough.                              *)

LessThan == {p \in Nat \X Nat : p[1] < p[2]}

\* A set of numbers has a smallest one: induction, by the smallest counterexample.
LEMMA LeastElement ==
  ASSUME NEW T \in SUBSET Nat, T # {}
  PROVE  \E n \in T : \A m \in T : n <= m
<1>1. IsWellFoundedOn(LessThan, Nat)
  BY NatLessThanWellFounded DEF OpToRel, LessThan
<1>2. PICK n \in T : \A m \in T : ~(<<m, n>> \in LessThan)
  BY <1>1, WFMin
<1>3. ASSUME NEW m \in T PROVE n <= m
  <2>1. ~(<<m, n>> \in LessThan) /\ m \in Nat /\ n \in Nat
    BY <1>2
  <2>2. QED BY <2>1 DEF LessThan
<1>4. QED BY <1>3

\* Positions of a sequence are finitely many.
LEMMA FinitelyMany ==
  ASSUME NEW n \in Nat, NEW P \in SUBSET (1 .. n)
  PROVE  IsFiniteSet(P) /\ Cardinality(P) \in Nat
<1>1. IsFiniteSet(1 .. n)
  BY FS_Interval
<1>2. IsFiniteSet(P)
  BY <1>1, FS_Subset
<1>3. QED BY <1>2, FS_CardinalityType

UpTo(P, i) == {j \in P : j <= i}

\* Each position has a rank of its own, and ranks grow with the positions.
LEMMA RankFacts ==
  ASSUME NEW n \in Nat, NEW P \in SUBSET (1 .. n), NEW i \in P
  PROVE  /\ Rank(P, i) \in 1 .. Cardinality(P)
         /\ \A j \in P : j < i => Rank(P, j) < Rank(P, i)
<1>1. /\ IsFiniteSet(P) /\ Cardinality(P) \in Nat
      /\ IsFiniteSet(UpTo(P, i)) /\ Cardinality(UpTo(P, i)) \in Nat
  <2>1. UpTo(P, i) \in SUBSET (1 .. n)
    BY DEF UpTo
  <2>2. QED BY <2>1, FinitelyMany
<1>2. Rank(P, i) = Cardinality(UpTo(P, i))
  BY DEF Rank, UpTo
<1>3. Rank(P, i) <= Cardinality(P)
  <2>1. UpTo(P, i) \in SUBSET P
    BY DEF UpTo
  <2>2. QED BY <1>1, <1>2, <2>1, FS_Subset
<1>4. Rank(P, i) # 0
  <2>1. i \in UpTo(P, i)
    BY DEF UpTo
  <2>2. QED BY <1>1, <1>2, <2>1, FS_EmptySet
<1>5. ASSUME NEW j \in P, j < i PROVE Rank(P, j) < Rank(P, i)
  <2>1. UpTo(P, j) \in SUBSET UpTo(P, i) /\ i \in UpTo(P, i) /\ i \notin UpTo(P, j)
    <3>1. i \in Int /\ j \in Int /\ \A m \in P : m \in Int
      BY DEF UpTo
    <3>2. \A m \in P : m <= j => m <= i
      BY <3>1, <1>5
    <3>3. UpTo(P, j) \subseteq UpTo(P, i)
      BY <3>2 DEF UpTo
    <3>4. i \in UpTo(P, i) /\ i \notin UpTo(P, j)
      BY <3>1, <1>5 DEF UpTo
    <3>5. QED BY <3>3, <3>4
  <2>2. Cardinality(UpTo(P, j)) <= Cardinality(UpTo(P, i))
        /\ Cardinality(UpTo(P, j)) # Cardinality(UpTo(P, i))
    BY <1>1, <2>1, FS_Subset
  <2>3. Rank(P, j) = Cardinality(UpTo(P, j)) /\ Cardinality(UpTo(P, j)) \in Nat
    <3>1. UpTo(P, j) \in SUBSET (1 .. n)
      BY DEF UpTo
    <3>2. QED BY <3>1, FinitelyMany DEF Rank, UpTo
  <2>4. QED BY <1>1, <1>2, <2>2, <2>3
<1>6. QED BY <1>1, <1>2, <1>3, <1>4, <1>5

\* There is a position of each rank: the first up to which there are so many.
LEMMA NthFacts ==
  ASSUME NEW n \in Nat, NEW P \in SUBSET (1 .. n), NEW k \in 1 .. Cardinality(P)
  PROVE  Nth(P, k) \in P /\ Rank(P, Nth(P, k)) = k
<1> DEFINE T == {m \in Nat : Cardinality(UpTo(P, m)) >= k}
<1>1. ASSUME NEW m \in Nat
      PROVE  IsFiniteSet(UpTo(P, m)) /\ Cardinality(UpTo(P, m)) \in Nat
  <2>1. UpTo(P, m) \in SUBSET (1 .. n)
    BY DEF UpTo
  <2>2. QED BY <2>1, FinitelyMany
<1>2. Cardinality(P) \in Nat /\ k \in Nat /\ k # 0 /\ P \subseteq Int
  <2>1. Cardinality(P) \in Nat
    BY FinitelyMany
  <2>2. QED BY <2>1
<1>3. n \in T
  <2>1. \A j \in P : j <= n
    OBVIOUS
  <2>2. UpTo(P, n) = P
    BY <2>1 DEF UpTo
  <2>3. QED BY <1>2, <2>2
<1>4. PICK m \in T : \A l \in T : m <= l
  BY <1>3, LeastElement
<1>5. m # 0
  <2>1. SUFFICES ASSUME m = 0 PROVE FALSE
    OBVIOUS
  <2>2. \A j \in P : ~(j <= 0)
    OBVIOUS
  <2>3. UpTo(P, 0) = {}
    BY <2>2 DEF UpTo
  <2>4. QED BY <1>2, <1>4, <2>1, <2>3, FS_EmptySet
<1>6. m - 1 \in Nat /\ Cardinality(UpTo(P, m - 1)) < k
  BY <1>1, <1>2, <1>4, <1>5
<1>7. m \in P
  <2>1. SUFFICES ASSUME m \notin P PROVE FALSE
    OBVIOUS
  <2>2. UpTo(P, m) = UpTo(P, m - 1)
    <3>1. \A j \in P : j <= m <=> j <= m - 1
      BY <1>4, <2>1
    <3>2. QED BY <3>1 DEF UpTo
  <2>3. QED BY <1>1, <1>2, <1>4, <1>6, <2>2
<1>8. Cardinality(UpTo(P, m)) = k
  <2>1. UpTo(P, m) = UpTo(P, m - 1) \union {m}
    <3>1. m \in Nat /\ m \in P /\ \A j \in P : j <= m <=> j <= m - 1 \/ j = m
      BY <1>4, <1>7
    <3>2. QED BY <3>1 DEF UpTo
  <2>2. Cardinality(UpTo(P, m)) <= Cardinality(UpTo(P, m - 1)) + 1
    <3>1. IsFiniteSet(UpTo(P, m - 1)) /\ Cardinality(UpTo(P, m - 1)) \in Nat
      BY <1>1, <1>6
    <3>2. \/ Cardinality(UpTo(P, m)) = Cardinality(UpTo(P, m - 1))
          \/ Cardinality(UpTo(P, m)) = Cardinality(UpTo(P, m - 1)) + 1
      BY <2>1, <3>1, FS_AddElement
    <3>3. QED BY <3>1, <3>2
  <2>3. QED BY <1>1, <1>2, <1>4, <1>6, <2>2
<1>9. Rank(P, m) = k
  BY <1>8 DEF Rank, UpTo
<1>10. QED BY <1>7, <1>9 DEF Nth

\* The position of a rank is the position.
LEMMA NthOfRank ==
  ASSUME NEW n \in Nat, NEW P \in SUBSET (1 .. n), NEW i \in P
  PROVE  Nth(P, Rank(P, i)) = i
<1>1. Rank(P, i) \in 1 .. Cardinality(P)
  BY RankFacts
<1>2. PICK j \in P : j = Nth(P, Rank(P, i)) /\ Rank(P, j) = Rank(P, i)
  BY <1>1, NthFacts
<1>3. Rank(P, i) \in Nat
  <2>1. Cardinality(P) \in Nat
    BY FinitelyMany
  <2>2. QED BY <1>1, <2>1
<1>4. ~(i < j) /\ ~(j < i)
  <2>1. i < j => Rank(P, i) < Rank(P, j)
    BY RankFacts
  <2>2. j < i => Rank(P, j) < Rank(P, i)
    BY RankFacts
  <2>3. QED BY <1>2, <1>3, <2>1, <2>2
<1>5. QED BY <1>2, <1>4

\* Positions come in their order.
LEMMA NthInOrder ==
  ASSUME NEW n \in Nat, NEW P \in SUBSET (1 .. n),
         NEW k \in 1 .. Cardinality(P), NEW l \in 1 .. Cardinality(P), k < l
  PROVE  Nth(P, k) < Nth(P, l)
<1>1. PICK i \in P : i = Nth(P, k) /\ Rank(P, i) = k
  BY NthFacts
<1>2. PICK j \in P : j = Nth(P, l) /\ Rank(P, j) = l
  BY NthFacts
<1>3. Cardinality(P) \in Nat
  BY FinitelyMany
<1>4. i # j /\ ~(j < i)
  BY <1>1, <1>2, <1>3, RankFacts
<1>5. QED BY <1>1, <1>2, <1>4

\* What a subsequence is made of.
LEMMA SubsequenceFacts ==
  ASSUME NEW S, NEW s \in Seq(S), NEW P \in SUBSET DOMAIN s
  PROVE  /\ Subsequence(s, P) \in Seq(S)
         /\ Len(Subsequence(s, P)) = Cardinality(P)
         /\ Cardinality(P) \in 0 .. Len(s)
         /\ DOMAIN Subsequence(s, P) = 1 .. Cardinality(P)
         /\ \A k \in 1 .. Cardinality(P) :
              Nth(P, k) \in P /\ Subsequence(s, P)[k] = s[Nth(P, k)]
         /\ \A i \in P : Rank(P, i) \in 1 .. Cardinality(P) /\ Subsequence(s, P)[Rank(P, i)] = s[i]
<1>1. P \in SUBSET (1 .. Len(s)) /\ Len(s) \in Nat
  OBVIOUS
<1>2. Cardinality(P) \in 0 .. Len(s)
  <2>1. Cardinality(1 .. Len(s)) = Len(s) /\ IsFiniteSet(1 .. Len(s))
    <3>1. 1 \in Int /\ Len(s) \in Int
      BY <1>1
    <3>2. Cardinality(1 .. Len(s)) = IF 1 > Len(s) THEN 0 ELSE Len(s) - 1 + 1
      BY <3>1, FS_Interval
    <3>3. IsFiniteSet(1 .. Len(s))
      BY <3>1, FS_Interval
    <3>4. QED BY <1>1, <3>2, <3>3
  <2>2. Cardinality(P) \in Nat
    BY <1>1, FinitelyMany
  <2>3. Cardinality(P) <= Len(s)
    BY <1>1, <2>1, FS_Subset
  <2>4. QED BY <1>1, <2>2, <2>3
<1>3. ASSUME NEW k \in 1 .. Cardinality(P) PROVE Nth(P, k) \in P
  BY <1>1, NthFacts
<1>4. ASSUME NEW i \in P
      PROVE  Rank(P, i) \in 1 .. Cardinality(P) /\ Nth(P, Rank(P, i)) = i
  BY <1>1, RankFacts, NthOfRank
<1>5. \A i \in P : s[i] \in S
  BY <1>1
<1>6. Subsequence(s, P) \in [1 .. Cardinality(P) -> S]
  BY <1>3, <1>5 DEF Subsequence
<1>7. QED BY <1>2, <1>3, <1>4, <1>6 DEF Subsequence

----------------------------------------------------------------------------
(* What holds of the dispatch at every moment.                             *)

Processes ==
  [call : 0 .. MaxCalls, gen : Generations, batch : Batches, fold : Folds,
   groups : Seq(Groups), writing : BOOLEAN, code : {"running", "ok", "failed"}]

\* The groups of a process are groups of its batch, and it writes the file of one.
Sound(p) ==
  /\ \A k \in DOMAIN p.groups : Members(p.batch, p.groups[k]) # {}
  /\ p.writing => p.groups # <<>>

ProcsInv == procs \subseteq Processes /\ \A p \in procs : Sound(p)

Distinct(c) == \A i, j \in DOMAIN c : c[i] = c[j] => i = j

CacheInv ==
  /\ cache \in Seq(Signals)
  /\ Distinct(cache)
  /\ CacheBounded

\* Nobody else's process is at work.
OwnProcs ==
  lost = 0 =>
    /\ pc # "wait" => procs = {}
    /\ \A p \in procs : p.call = calls /\ p.gen = gen /\ p.batch = batch /\ ~p.writing

Alone(g) == <<g>>
For(p, g, f) == p.fold = f /\ (manifest \/ p.groups = Alone(g))
Ahead(p, g) == \E k \in DOMAIN p.groups : p.groups[k] = g
Done(g, f) == files[<<gen, g, f>>] = RowsOf(batch, g)

\* Of each group and fold one process is in charge, and its file is right unless the
\* process has failed or has yet to write it.
OneInCharge ==
  /\ \A p, q \in procs : p.fold = q.fold /\ (manifest \/ p.groups = q.groups) => p = q
  /\ ~manifest => \A p \in procs : Len(p.groups) = 1
  /\ \A g \in GroupsOf(batch), f \in Folds : \E p \in procs :
       /\ For(p, g, f)
       /\ Done(g, f) \/ p.code = "failed" \/ (p.code = "running" /\ Ahead(p, g))

FilesInv == lost = 0 /\ pc = "wait" => OneInCharge

AllFit(b) == Cardinality(SignalsOf(b)) <= limits.entries /\ limits.entries <= limits.bytes

\* The elements of S are in c, and what is in it for longer is not of S.
Latest(c, S) ==
  /\ \A s \in S : \E i \in DOMAIN c : c[i] = s
  /\ \A i, j \in DOMAIN c : i < j /\ c[i] \in S => c[j] \in S

Complete ==
  \A i \in DOMAIN batch, f \in Folds : scores[i][f] # NoScore <=> batch[i].group \in survivors

\* Without a fault: each process is at groups of the batch, which can be loaded when all
\* their data fits; what was resolved of it is what the cache was asked for last.
ProcsAtWork ==
  \A p \in procs :
    /\ \A k \in DOMAIN p.groups : p.groups[k] \in GroupsOf(batch)
    /\ p.groups = <<>> => GroupsOf(batch) = {}

Resolved ==
  /\ ToSet(todo) \subseteq SignalsOf(batch)
  /\ \E S \in SUBSET SignalsOf(batch) :
       Latest(cache, S) /\ SignalsOf(batch) \subseteq S \union ToSet(todo)

Loaded ==
  /\ SignalsOf(batch) \subseteq ToSet(cache)
  /\ \A p \in procs : p.code = "failed" => GroupsOf(batch) = {}

WorkInv ==
  faults = 0 =>
    /\ bad = {} /\ pc # "down"
    /\ ProcsAtWork
    /\ AllFit(batch) /\ ~persistent =>
         /\ pc = "resolve" => Resolved
         /\ pc = "wait" => Loaded
         /\ pc = "idle" /\ calls # 0 => Complete

OwnInv == OwnProcs /\ FilesInv /\ OwnScores
----------------------------------------------------------------------------
(* Batches.                                                                *)

\* A value occurs for the first time somewhere.
LEMMA FirstsFacts ==
  ASSUME NEW S, NEW s \in Seq(S), NEW P \in SUBSET DOMAIN s, NEW i \in P
  PROVE  \E j \in Firsts(s, P) : s[j] = s[i]
<1> DEFINE T == {j \in P : s[j] = s[i]}
<1>1. P \subseteq Nat
  OBVIOUS
<1>2. T \in SUBSET Nat /\ T # {}
  BY <1>1
<1>3. PICK j \in T : \A k \in T : j <= k
  BY <1>2, LeastElement
<1>4. j \in Firsts(s, P)
  BY <1>3 DEF Firsts
<1>5. QED BY <1>3, <1>4

\* Without repetitions: the same values.
LEMMA DistinctFacts ==
  ASSUME NEW S, NEW s \in Seq(S), NEW P \in SUBSET DOMAIN s, NEW d, d = Subsequence(s, Firsts(s, P))
  PROVE  /\ d \in Seq(S)
         /\ \A k \in DOMAIN d : \E i \in P : d[k] = s[i]
         /\ \A i \in P : \E k \in DOMAIN d : d[k] = s[i]
<1> DEFINE F == Firsts(s, P)
<1>1. F \in SUBSET DOMAIN s /\ F \subseteq P
  BY DEF Firsts
<1> HIDE DEF F
<1>2. /\ d \in Seq(S) /\ DOMAIN d = 1 .. Cardinality(F)
      /\ \A k \in 1 .. Cardinality(F) : Nth(F, k) \in F /\ d[k] = s[Nth(F, k)]
      /\ \A i \in F : Rank(F, i) \in 1 .. Cardinality(F) /\ d[Rank(F, i)] = s[i]
  BY <1>1, SubsequenceFacts DEF F
<1>3. ASSUME NEW i \in P PROVE \E k \in DOMAIN d : d[k] = s[i]
  <2>1. PICK j \in F : s[j] = s[i]
    BY FirstsFacts DEF F
  <2>2. QED BY <1>2, <2>1
<1>4. QED BY <1>1, <1>2, <1>3

\* Candidates of a batch.
LEMMA BatchFacts ==
  ASSUME NEW b \in Batches
  PROVE  /\ b \in Seq(Candidates) /\ b # <<>>
         /\ \A i \in DOMAIN b : b[i].group \in Groups /\ b[i].exit \in Exits
         /\ Live(b) \in SUBSET DOMAIN b
         /\ GroupsOf(b) \subseteq Groups
         /\ SignalsOf(b) \subseteq Signals
         /\ \A g \in GroupsOf(b) : Members(b, g) # {} /\ SignalOf[g] \in SignalsOf(b)
<1>1. b \in Seq(Candidates) /\ b # <<>>
  BY BatchesAssumption
<1>2. \A i \in DOMAIN b : b[i] \in Candidates
  BY <1>1
<1>3. \A i \in DOMAIN b : b[i].group \in Groups /\ b[i].exit \in Exits
  BY <1>2 DEF Candidates
<1>4. Live(b) \in SUBSET DOMAIN b
  BY DEF Live
<1>5. GroupsOf(b) \subseteq Groups
  BY <1>3, <1>4 DEF GroupsOf
<1>6. SignalsOf(b) \subseteq Signals
  BY <1>5 DEF SignalsOf, Signals
<1>7. \A g \in GroupsOf(b) : Members(b, g) # {} /\ SignalOf[g] \in SignalsOf(b)
  BY <1>4 DEF GroupsOf, Members, SignalsOf
<1>8. QED BY <1>1, <1>3, <1>4, <1>5, <1>6, <1>7

\* The groups of a manifest are those that survived, and the signal sets resolved theirs.
LEMMA OrderFacts ==
  ASSUME NEW b \in Batches
  PROVE  /\ InOrder(b) \in Seq(Groups)
         /\ \A k \in DOMAIN InOrder(b) : InOrder(b)[k] \in GroupsOf(b)
         /\ \A g \in GroupsOf(b) : \E k \in DOMAIN InOrder(b) : InOrder(b)[k] = g
         /\ Unresolved(b) \in Seq(Signals)
         /\ ToSet(Unresolved(b)) = SignalsOf(b)
<1> DEFINE groups == [i \in DOMAIN b |-> b[i].group]
           signals == [i \in DOMAIN b |-> SignalOf[b[i].group]]
<1>1. /\ b \in Seq(Candidates) /\ Live(b) \in SUBSET DOMAIN b
      /\ \A i \in DOMAIN b : b[i].group \in Groups
  BY BatchFacts
<1>2. DOMAIN b = 1 .. Len(b) /\ Len(b) \in Nat
  BY <1>1
<1>3. groups \in Seq(Groups) /\ DOMAIN groups = DOMAIN b
  BY <1>1, <1>2, IsASeq
<1>4. signals \in Seq(Signals) /\ DOMAIN signals = DOMAIN b
  <2>1. \A i \in DOMAIN b : signals[i] \in Signals
    BY <1>1 DEF Signals
  <2>2. QED BY <1>2, <2>1, IsASeq
<1>5. /\ \A i \in DOMAIN b : groups[i] = b[i].group
      /\ \A i \in DOMAIN b : signals[i] = SignalOf[b[i].group]
      /\ InOrder(b) = Subsequence(groups, Firsts(groups, Live(b)))
      /\ Unresolved(b) = Subsequence(signals, Firsts(signals, Live(b)))
  BY DEF InOrder, Unresolved
<1> HIDE DEF groups, signals
<1>6. /\ InOrder(b) \in Seq(Groups)
      /\ \A k \in DOMAIN InOrder(b) : \E i \in Live(b) : InOrder(b)[k] = groups[i]
      /\ \A i \in Live(b) : \E k \in DOMAIN InOrder(b) : InOrder(b)[k] = groups[i]
  <2>1. Live(b) \in SUBSET DOMAIN groups
    BY <1>1, <1>3
  <2>2. QED BY <1>3, <1>5, <2>1, DistinctFacts
<1>7. /\ Unresolved(b) \in Seq(Signals)
      /\ \A k \in DOMAIN Unresolved(b) : \E i \in Live(b) : Unresolved(b)[k] = signals[i]
      /\ \A i \in Live(b) : \E k \in DOMAIN Unresolved(b) : Unresolved(b)[k] = signals[i]
  <2>1. Live(b) \in SUBSET DOMAIN signals
    BY <1>1, <1>4
  <2>2. QED BY <1>4, <1>5, <2>1, DistinctFacts
<1>8. /\ \A k \in DOMAIN InOrder(b) : InOrder(b)[k] \in GroupsOf(b)
      /\ \A g \in GroupsOf(b) : \E k \in DOMAIN InOrder(b) : InOrder(b)[k] = g
  <2>1. /\ \A i \in Live(b) : groups[i] \in GroupsOf(b)
        /\ \A g \in GroupsOf(b) : \E i \in Live(b) : groups[i] = g
    BY <1>1, <1>5 DEF GroupsOf
  <2>2. QED BY <1>6, <2>1
<1>9. ToSet(Unresolved(b)) = SignalsOf(b)
  <2>1. /\ \A i \in Live(b) : signals[i] \in SignalsOf(b)
        /\ \A s \in SignalsOf(b) : \E i \in Live(b) : signals[i] = s
    BY <1>1, <1>5 DEF GroupsOf, SignalsOf
  <2>2. /\ \A k \in DOMAIN Unresolved(b) : Unresolved(b)[k] \in SignalsOf(b)
        /\ \A s \in SignalsOf(b) : \E k \in DOMAIN Unresolved(b) : Unresolved(b)[k] = s
    BY <1>7, <2>1
  <2>3. QED BY <2>2 DEF ToSet
<1>10. QED BY <1>6, <1>7, <1>8, <1>9

\* The scores of a group are those of its members, each at its position.
LEMMA RowsFacts ==
  ASSUME NEW b \in Batches, NEW g, Members(b, g) # {}
  PROVE  /\ RowsOf(b, g) \in Seq(Exits) \ {<<>>}
         /\ \A i \in Members(b, g) :
              /\ Position(b, i) \in 1 .. Len(RowsOf(b, g))
              /\ RowsOf(b, g)[Position(b, i)] = b[i].exit
<1> DEFINE exits == [i \in DOMAIN b |-> b[i].exit]
<1>1. /\ b \in Seq(Candidates) /\ Members(b, g) \in SUBSET DOMAIN b
      /\ \A i \in DOMAIN b : b[i].exit \in Exits
  BY BatchFacts DEF Members
<1>2. DOMAIN b = 1 .. Len(b) /\ Len(b) \in Nat
  BY <1>1
<1>3. exits \in Seq(Exits) /\ DOMAIN exits = DOMAIN b
  BY <1>1, <1>2, IsASeq
<1>4. \A i \in DOMAIN b : exits[i] = b[i].exit
  OBVIOUS
<1>5. RowsOf(b, g) = Subsequence(exits, Members(b, g))
  BY DEF RowsOf
<1> HIDE DEF exits
<1>6. /\ RowsOf(b, g) \in Seq(Exits)
      /\ Len(RowsOf(b, g)) = Cardinality(Members(b, g))
      /\ \A i \in Members(b, g) :
           /\ Rank(Members(b, g), i) \in 1 .. Cardinality(Members(b, g))
           /\ RowsOf(b, g)[Rank(Members(b, g), i)] = exits[i]
  <2>1. Members(b, g) \in SUBSET DOMAIN exits
    BY <1>1, <1>3
  <2>2. QED BY <1>3, <1>5, <2>1, SubsequenceFacts
<1>7. \A i \in Members(b, g) : Position(b, i) = Rank(Members(b, g), i) /\ i \in DOMAIN b
  BY DEF Members, Position
<1>8. PICK i \in Members(b, g) : TRUE
  OBVIOUS
<1>9. RowsOf(b, g) # <<>>
  <2>1. Rank(Members(b, g), i) \in 1 .. Len(RowsOf(b, g))
    BY <1>6, <1>8
  <2>2. SUFFICES ASSUME RowsOf(b, g) = <<>> PROVE FALSE
    OBVIOUS
  <2>3. Len(RowsOf(b, g)) = 0
    BY <2>2
  <2>4. QED BY <2>1, <2>3
<1>10. QED BY <1>4, <1>6, <1>7, <1>9

----------------------------------------------------------------------------
(* The cache of signals.                                                   *)

\* What is read becomes the latest.
LEMMA TouchedFacts ==
  ASSUME NEW c \in Seq(Signals), Distinct(c), NEW s \in Signals, NEW t, t = Touched(c, s)
  PROVE  /\ t \in Seq(Signals) /\ t # <<>> /\ Distinct(t)
         /\ Len(t) <= Len(c) + 1
         /\ (\E i \in DOMAIN c : c[i] = s) => Len(t) <= Len(c)
         /\ \A i \in DOMAIN c : \E k \in DOMAIN t : t[k] = c[i]
         /\ \A k \in DOMAIN t : t[k] = s \/ \E i \in DOMAIN c : t[k] = c[i]
         /\ \A S : Latest(c, S) => Latest(t, S \union {s})
<1> DEFINE P == {i \in DOMAIN c : c[i] # s}
           r == Subsequence(c, P)
           n == Cardinality(P)
<1>1. P \in SUBSET DOMAIN c /\ DOMAIN c = 1 .. Len(c) /\ Len(c) \in Nat
  OBVIOUS
<1>2. \A i \in P : c[i] # s
  OBVIOUS
<1>3. \A i \in DOMAIN c : c[i] # s => i \in P
  OBVIOUS
<1>4. t = Append(r, s)
  BY DEF Touched
<1> HIDE DEF P
<1>5. /\ r \in Seq(Signals) /\ Len(r) = n /\ n \in 0 .. Len(c) /\ DOMAIN r = 1 .. n
      /\ \A k \in 1 .. n : Nth(P, k) \in P /\ r[k] = c[Nth(P, k)]
      /\ \A i \in P : Rank(P, i) \in 1 .. n /\ r[Rank(P, i)] = c[i]
  BY <1>1, SubsequenceFacts
<1>6. \A k, l \in 1 .. n : k < l => Nth(P, k) < Nth(P, l)
  BY <1>1, NthInOrder
<1>7. (\E i \in DOMAIN c : c[i] = s) => n < Len(c)
  <2>1. SUFFICES ASSUME NEW i \in DOMAIN c, c[i] = s PROVE n < Len(c)
    OBVIOUS
  <2>2. P # DOMAIN c
    BY <1>2, <2>1
  <2>3. IsFiniteSet(DOMAIN c) /\ Cardinality(DOMAIN c) = Len(c)
    <3>1. 1 \in Int /\ Len(c) \in Int
      BY <1>1
    <3>2. IsFiniteSet(1 .. Len(c)) /\ Cardinality(1 .. Len(c)) = IF 1 > Len(c) THEN 0 ELSE Len(c) - 1 + 1
      BY <3>1, FS_Interval
    <3>3. QED BY <1>1, <3>2
  <2>4. n # Len(c)
    BY <1>1, <2>2, <2>3, FS_Subset
  <2>5. QED BY <1>1, <1>5, <2>4
<1> HIDE DEF n, r
<1>8. /\ t \in Seq(Signals) /\ t # <<>> /\ Len(t) = n + 1
      /\ \A k \in 1 .. n : t[k] = r[k]
      /\ t[n + 1] = s
  BY <1>4, <1>5, AppendProperties
<1>9. DOMAIN t = 1 .. n + 1 /\ n \in Nat
  BY <1>1, <1>5, <1>8
<1>10. ASSUME NEW k \in 1 .. n
       PROVE  /\ Nth(P, k) \in P /\ Nth(P, k) \in DOMAIN c /\ t[k] = c[Nth(P, k)] /\ t[k] # s
  BY SMTT(30), <1>1, <1>2, <1>5, <1>8
<1>11. Distinct(t)
  <2>1. SUFFICES ASSUME NEW k \in DOMAIN t, NEW l \in DOMAIN t, t[k] = t[l], k < l PROVE FALSE
    BY <1>9 DEF Distinct
  <2>2. k \in 1 .. n
    BY <1>9, <2>1
  <2>3. l # n + 1
    BY <1>8, <1>10, <2>1, <2>2
  <2>4. l \in 1 .. n
    BY <1>9, <2>3
  <2>5. Nth(P, k) = Nth(P, l)
    BY <1>10, <2>1, <2>2, <2>4 DEF Distinct
  <2>6. Nth(P, k) < Nth(P, l) /\ Nth(P, k) \in Int
    BY <1>1, <1>6, <1>10, <2>1, <2>2, <2>4
  <2>7. QED BY <2>5, <2>6
<1>12. ASSUME NEW i \in DOMAIN c PROVE \E k \in DOMAIN t : t[k] = c[i]
  <2>1. CASE c[i] = s
    BY <1>8, <1>9, <2>1
  <2>2. CASE c[i] # s
    BY <1>3, <1>5, <1>8, <1>9, <2>2
  <2>3. QED BY <2>1, <2>2
<1>13. \A k \in DOMAIN t : k \in 1 .. n \/ k = n + 1
  BY <1>9
<1>14. \A k \in DOMAIN t : t[k] = s \/ \E i \in DOMAIN c : t[k] = c[i]
  BY <1>8, <1>10, <1>13
<1>15. ASSUME NEW S, Latest(c, S) PROVE Latest(t, S \union {s})
  <2>1. ASSUME NEW x \in S \union {s} PROVE \E k \in DOMAIN t : t[k] = x
    <3>1. CASE x = s
      BY <1>8, <1>9, <3>1
    <3>2. CASE x \in S
      BY <1>12, <1>15, <3>2 DEF Latest
    <3>3. QED BY <3>1, <3>2
  <2>2. ASSUME NEW k \in DOMAIN t, NEW l \in DOMAIN t, k < l, t[k] \in S \union {s}
        PROVE  t[l] \in S \union {s}
    <3>1. CASE l = n + 1
      BY <1>8, <3>1
    <3>2. CASE l \in 1 .. n
      <4>1. k \in 1 .. n
        BY <1>9, <2>2, <3>2
      <4>2. c[Nth(P, k)] \in S
        BY <1>10, <2>2, <4>1
      <4>3. Nth(P, k) < Nth(P, l)
        BY <1>6, <2>2, <3>2, <4>1
      <4>4. c[Nth(P, l)] \in S
        BY <1>10, <1>15, <3>2, <4>1, <4>2, <4>3 DEF Latest
      <4>5. QED BY <1>10, <3>2, <4>4
    <3>3. QED BY <1>13, <3>1, <3>2
  <2>3. QED BY <2>1, <2>2 DEF Latest
<1>16. Len(t) <= Len(c) + 1 /\ ((\E i \in DOMAIN c : c[i] = s) => Len(t) <= Len(c))
  BY <1>1, <1>5, <1>7, <1>8
<1>17. t \in Seq(Signals) /\ t # <<>>
  BY <1>8
<1>18. QED BY <1>11, <1>12, <1>14, <1>15, <1>16, <1>17

\* The latest of c, from some position on, are left; all but the one are of the number
\* allowed, when the bytes do fit.
LEMMA EvictedFacts ==
  ASSUME limits \in LimitsSet, NEW c \in Seq(Signals), c # <<>>
  PROVE  \E d \in 0 .. Len(c) - 1 :
           /\ Evicted(c) = SubSeq(c, d + 1, Len(c))
           /\ Len(c) - d <= limits.entries
           /\ Len(c) - d > limits.bytes => Len(c) - d = 1
           /\ limits.entries <= limits.bytes /\ d # 0 => Len(c) - d = limits.entries
<1> DEFINE E == limits.entries
           B == limits.bytes
           n == Len(c)
           d1 == IF n > E THEN n - E ELSE 0
           counted == SubSeq(c, d1 + 1, n)
<1>1. E \in Nat /\ E # 0 /\ B \in Nat /\ B # 0
  BY LimitsAssumption
<1>2. n \in Nat /\ n # 0 /\ c = SubSeq(c, 1, n)
  BY SubSeqFull
<1>3. Evicted(c) = IF Len(counted) > B THEN <<counted[Len(counted)]>> ELSE counted
  <2>1. counted = IF n > E THEN SubSeq(c, n - E + 1, n) ELSE c
    <3>1. n > E => d1 + 1 = n - E + 1
      BY <1>1, <1>2
    <3>2. ~(n > E) => d1 + 1 = 1
      BY <1>1, <1>2
    <3> HIDE DEF d1
    <3>3. QED BY <1>2, <3>1, <3>2
  <2> HIDE DEF counted
  <2>2. QED BY <2>1 DEF Evicted, Last
<1> HIDE DEF E, B, n
<1>4. d1 \in 0 .. n - 1
  BY <1>1, <1>2
<1>5. Len(counted) = n - d1 /\ counted \in Seq(Signals)
      /\ \A i \in 1 .. n - d1 : counted[i] = c[d1 + i]
  <2>1. \A i \in d1 + 1 .. n : c[i] \in Signals
    BY <1>4 DEF n
  <2>2. /\ Len(counted) = IF d1 + 1 <= n THEN n - (d1 + 1) + 1 ELSE 0
        /\ counted \in Seq(Signals)
        /\ \A i \in 1 .. n - (d1 + 1) + 1 : counted[i] = c[d1 + 1 + i - 1]
    <3>1. d1 + 1 \in Int /\ n \in Int
      BY <1>2, <1>4
    <3> HIDE DEF d1
    <3>2. QED BY <2>1, <3>1, SubSeqProperties
  <2> HIDE DEF d1, counted
  <2>3. QED BY <1>2, <1>4, <2>2
<1>6. n - d1 <= E /\ (E <= B /\ d1 # 0 => n - d1 = E)
  BY <1>1, <1>2
<1> HIDE DEF d1, counted
<1>7. CASE Len(counted) > B
  <2>1. counted[Len(counted)] = c[n]
    <3>1. n - d1 \in 1 .. n - d1 /\ d1 + (n - d1) = n
      BY <1>2, <1>4
    <3>2. QED BY <1>5, <3>1
  <2>2. SubSeq(c, n, n) = <<c[n]>>
    <3>1. SubSeq(c, n, n) = SubSeq(c, n, n - 1) \o <<c[n]>>
      <4>1. n \in 1 .. Len(c) /\ n \in n .. Len(c)
        BY <1>2 DEF n
      <4>2. QED BY <4>1, SubSeqRecursiveSecond
    <3>2. SubSeq(c, n, n - 1) = <<>>
      <4>1. n \in Int /\ n - 1 \in Int /\ n - 1 < n
        BY <1>2
      <4>2. QED BY <4>1, SubSeqEmpty
    <3>3. <<>> \o <<c[n]>> = <<c[n]>>
      BY ConcatEmptySeq
    <3>4. QED BY <3>1, <3>2, <3>3
  <2>3. Evicted(c) = SubSeq(c, (n - 1) + 1, n)
    BY <1>2, <1>3, <1>7, <2>1, <2>2
  <2>4. /\ n - 1 \in 0 .. n - 1 /\ n - (n - 1) = 1
        /\ ~(1 > B) /\ 1 <= E
        /\ ~(E <= B)
    BY <1>1, <1>2, <1>4, <1>5, <1>6, <1>7
  <2>5. QED BY <2>3, <2>4 DEF n, E, B
<1>8. CASE ~(Len(counted) > B)
  <2>1. Evicted(c) = SubSeq(c, d1 + 1, n)
    BY <1>3, <1>8 DEF counted
  <2>2. QED BY <1>4, <1>5, <1>6, <1>8, <2>1 DEF n, E, B
<1>9. QED BY <1>7, <1>8

\* What is left of distinct elements, and of the latest, if there is room for them.
LEMMA LeftFacts ==
  ASSUME NEW c \in Seq(Signals), Distinct(c), NEW d \in 0 .. Len(c) - 1,
         NEW e, e = SubSeq(c, d + 1, Len(c))
  PROVE  /\ e \in Seq(Signals) /\ Distinct(e) /\ Len(e) = Len(c) - d
         /\ \A k \in DOMAIN e : \E i \in DOMAIN c : e[k] = c[i]
         /\ \A S : /\ Latest(c, S) /\ IsFiniteSet(S)
                   /\ d # 0 => Cardinality(S) <= Len(c) - d
                   => Latest(e, S)
<1> DEFINE n == Len(c)
<1>1. n \in Nat /\ d \in Nat /\ d < n /\ DOMAIN c = 1 .. n
  OBVIOUS
<1>2. /\ e \in Seq(Signals) /\ Len(e) = n - d
      /\ \A k \in 1 .. n - d : e[k] = c[d + k]
  <2>1. d + 1 \in Int /\ n \in Int /\ \A i \in d + 1 .. n : c[i] \in Signals
    BY <1>1
  <2>2. /\ Len(e) = IF d + 1 <= n THEN n - (d + 1) + 1 ELSE 0
        /\ e \in Seq(Signals)
        /\ \A i \in 1 .. n - (d + 1) + 1 : e[i] = c[d + 1 + i - 1]
    BY <2>1, SubSeqProperties
  <2>3. QED BY <1>1, <2>2
<1> HIDE DEF n
<1>3. DOMAIN e = 1 .. n - d
  BY <1>1, <1>2
<1>4. \A k \in DOMAIN e : k \in Nat /\ d + k \in DOMAIN c /\ e[k] = c[d + k]
  BY <1>1, <1>2, <1>3
<1>5. Distinct(e)
  <2>1. SUFFICES ASSUME NEW k \in DOMAIN e, NEW l \in DOMAIN e, e[k] = e[l] PROVE k = l
    BY DEF Distinct
  <2>2. d + k = d + l
    BY <1>4, <2>1 DEF Distinct
  <2>3. QED BY <1>1, <1>4, <2>2
<1>6. ASSUME NEW S, Latest(c, S), IsFiniteSet(S), d # 0 => Cardinality(S) <= n - d
      PROVE  Latest(e, S)
  <2>1. ASSUME NEW x \in S PROVE \E k \in DOMAIN e : e[k] = x
    <3>1. PICK i \in DOMAIN c : c[i] = x
      BY <1>6 DEF Latest
    <3>2. i \in 1 .. n
      BY <1>1
    <3>3. CASE i > d
      <4>1. i - d \in 1 .. n - d /\ d + (i - d) = i
        BY <1>1, <3>2, <3>3
      <4>2. QED BY <1>2, <1>3, <3>1, <4>1
    <3>4. CASE ~(i > d)
      <4> DEFINE f == [k \in i .. n |-> c[k]]
      <4>1. \A k \in i .. n : k \in DOMAIN c /\ (k = i \/ i < k)
        BY <1>1, <3>2
      <4>2. \A k \in i .. n : c[k] \in S
        BY <1>6, <3>1, <4>1 DEF Latest
      <4>3. f \in [i .. n -> S]
        BY <4>2
      <4>4. \A k, l \in i .. n : f[k] = f[l] => k = l
        BY <4>1 DEF Distinct
      <4>5. f \in Injection(i .. n, S)
        BY <4>3, <4>4 DEF Injection, IsInjective
      <4>6. Cardinality(i .. n) <= Cardinality(S)
        BY <1>6, <4>5, FS_Injection
      <4>7. Cardinality(i .. n) = n - i + 1
        <5>1. i \in Int /\ n \in Int /\ ~(i > n)
          BY <1>1, <3>2
        <5>2. QED BY <5>1, FS_Interval
      <4>8. d # 0 /\ n - i + 1 > n - d
        BY <1>1, <3>2, <3>4
      <4>9. Cardinality(S) \in Nat
        BY <1>6, FS_CardinalityType
      <4>10. n - i + 1 \in Int /\ n - d \in Int
        BY <1>1, <3>2
      <4>11. QED BY <1>6, <4>6, <4>7, <4>8, <4>9, <4>10
    <3>5. QED BY <3>3, <3>4
  <2>2. ASSUME NEW k \in DOMAIN e, NEW l \in DOMAIN e, k < l, e[k] \in S PROVE e[l] \in S
    <3>1. d + k < d + l
      BY <1>1, <1>4, <2>2
    <3>2. QED BY <1>4, <1>6, <2>2, <3>1 DEF Latest
  <2>3. QED BY <2>1, <2>2 DEF Latest
<1>7. QED BY <1>2, <1>4, <1>5, <1>6 DEF n

----------------------------------------------------------------------------
(* Every variable keeps to its values.                                     *)

Scored == Seq(Exits) \ {<<>>}

SettingsOK ==
  /\ limits \in LimitsSet /\ persistent \in BOOLEAN /\ manifests \in BOOLEAN
  /\ survivors \in Survivors
  /\ manifest \in BOOLEAN /\ (manifest => manifests)

StoreOK == cache \in Seq(Signals) /\ bad \subseteq ToSet(cache)

FilesOK == files \in [Generations \X Groups \X Folds -> {NoFile, Torn} \union Scored]

CallOK ==
  /\ pc \in {"idle", "resolve", "wait", "down"}
  /\ gen \in Generations /\ batch \in Batches \union {<<>>} /\ todo \in Seq(Signals)
  /\ calls \in 0 .. MaxCalls
  /\ pc \in {"resolve", "wait"} => batch \in Batches

ScoresOK == \A i \in DOMAIN scores : scores[i] \in [Folds -> Exits \union {NoScore}]

CountersOK == faults \in 0 .. MaxFaults /\ lost \in 0 .. faults

TypeInv == SettingsOK /\ StoreOK /\ FilesOK /\ CallOK /\ ScoresOK /\ CountersOK /\ ProcsInv

LEMMA Bounds == MaxGeneration \in Nat /\ MaxCalls \in Nat /\ MaxFaults \in Nat
BY BoundsAssumption

LEMMA TypeInit == Init => TypeInv
<1>1. ASSUME Init PROVE TypeInv
  <2>1. SettingsOK
    BY <1>1 DEF Init, SettingsOK
  <2>2. StoreOK
    BY <1>1 DEF Init, StoreOK
  <2>3. FilesOK
    BY <1>1 DEF Init, FilesOK
  <2>4. CallOK
    BY <1>1, Bounds DEF Init, CallOK, Generations
  <2>5. ScoresOK
    BY <1>1 DEF Init, ScoresOK
  <2>6. CountersOK
    BY <1>1, Bounds DEF Init, CountersOK
  <2>7. ProcsInv
    BY <1>1 DEF Init, ProcsInv
  <2>8. QED BY <2>1, <2>2, <2>3, <2>4, <2>5, <2>6, <2>7 DEF TypeInv
<1>2. QED BY <1>1

\* A process that is begun.
LEMMA ProcessFacts ==
  ASSUME calls \in 0 .. MaxCalls, gen \in Generations, batch \in Batches, NEW f \in Folds,
         NEW gs \in Seq(Groups), \A k \in DOMAIN gs : gs[k] \in GroupsOf(batch)
  PROVE  Process(f, gs) \in Processes /\ Sound(Process(f, gs))
<1>1. Process(f, gs) \in Processes
  BY DEF Process, Processes
<1>2. \A k \in DOMAIN gs : Members(batch, gs[k]) # {}
  BY BatchFacts
<1>3. Sound(Process(f, gs))
  BY <1>2 DEF Process, Sound
<1>4. QED BY <1>1, <1>3

\* The processes of a call, whether one for a fold or one for a group and fold.
LEMMA BegunFacts ==
  ASSUME CallOK, pc \in {"resolve", "wait"}
  PROVE  /\ \A p \in Manifests : p \in Processes /\ Sound(p)
         /\ \A p \in ParamBatches : p \in Processes /\ Sound(p)
<1>1. calls \in 0 .. MaxCalls /\ gen \in Generations /\ batch \in Batches
  BY DEF CallOK
<1>2. ASSUME NEW p \in Manifests PROVE p \in Processes /\ Sound(p)
  BY <1>1, <1>2, OrderFacts, ProcessFacts DEF Manifests
<1>3. ASSUME NEW p \in ParamBatches PROVE p \in Processes /\ Sound(p)
  <2>1. PICK f \in Folds, g \in GroupsOf(batch) : p = Process(f, <<g>>)
    BY <1>3 DEF ParamBatches
  <2>2. <<g>> \in Seq(Groups) /\ \A k \in DOMAIN <<g>> : <<g>>[k] = g
    BY <1>1, <2>1, BatchFacts
  <2>3. QED BY <1>1, <2>1, <2>2, ProcessFacts
<1>4. QED BY <1>2, <1>3

Stopped(p, code) == [p EXCEPT !.writing = FALSE, !.code = code]
Advanced(p) == [p EXCEPT !.writing = FALSE, !.groups = Tail(@)]
Writing(p) == [p EXCEPT !.writing = TRUE]

\* What a process is when it has ended, has gone on, or writes.
LEMMA ChangedFacts ==
  ASSUME NEW p \in Processes, Sound(p)
  PROVE  /\ \A code \in {"ok", "failed"} :
              /\ Stopped(p, code) \in Processes /\ Sound(Stopped(p, code))
              /\ Stopped(p, code).call = p.call /\ Stopped(p, code).gen = p.gen
              /\ Stopped(p, code).batch = p.batch /\ Stopped(p, code).fold = p.fold
              /\ Stopped(p, code).groups = p.groups /\ ~Stopped(p, code).writing
              /\ Stopped(p, code).code = code
         /\ p.groups # <<>> =>
              /\ Writing(p) \in Processes /\ Sound(Writing(p))
              /\ Advanced(p) \in Processes /\ Sound(Advanced(p))
              /\ Advanced(p).call = p.call /\ Advanced(p).gen = p.gen
              /\ Advanced(p).batch = p.batch /\ Advanced(p).fold = p.fold
              /\ Advanced(p).groups = Tail(p.groups) /\ ~Advanced(p).writing
              /\ Advanced(p).code = p.code
<1>1. ASSUME NEW code \in {"ok", "failed"}
      PROVE  /\ Stopped(p, code) \in Processes /\ Sound(Stopped(p, code))
             /\ Stopped(p, code).call = p.call /\ Stopped(p, code).gen = p.gen
             /\ Stopped(p, code).batch = p.batch /\ Stopped(p, code).fold = p.fold
             /\ Stopped(p, code).groups = p.groups /\ ~Stopped(p, code).writing
             /\ Stopped(p, code).code = code
  <2>1. /\ Stopped(p, code) \in Processes
        /\ Stopped(p, code).call = p.call /\ Stopped(p, code).gen = p.gen
        /\ Stopped(p, code).batch = p.batch /\ Stopped(p, code).fold = p.fold
        /\ Stopped(p, code).groups = p.groups /\ ~Stopped(p, code).writing
        /\ Stopped(p, code).code = code
    BY DEF Stopped, Processes
  <2>2. Sound(Stopped(p, code))
    BY <2>1 DEF Sound
  <2>3. QED BY <2>1, <2>2
<1>2. ASSUME p.groups # <<>>
      PROVE  Writing(p) \in Processes /\ Sound(Writing(p))
  <2>1. /\ Writing(p) \in Processes /\ Writing(p).groups = p.groups /\ Writing(p).batch = p.batch
    BY DEF Writing, Processes
  <2>2. QED BY <1>2, <2>1 DEF Sound
<1>3. ASSUME p.groups # <<>>
      PROVE  /\ Advanced(p) \in Processes /\ Sound(Advanced(p))
             /\ Advanced(p).call = p.call /\ Advanced(p).gen = p.gen
             /\ Advanced(p).batch = p.batch /\ Advanced(p).fold = p.fold
             /\ Advanced(p).groups = Tail(p.groups) /\ ~Advanced(p).writing
             /\ Advanced(p).code = p.code
  <2>1. p.groups \in Seq(Groups)
    BY DEF Processes
  <2>2. /\ Tail(p.groups) \in Seq(Groups) /\ Len(Tail(p.groups)) = Len(p.groups) - 1
        /\ \A k \in 1 .. Len(Tail(p.groups)) : Tail(p.groups)[k] = p.groups[k + 1]
    BY <1>3, <2>1, HeadTailProperties
  <2>3. /\ Advanced(p) \in Processes
        /\ Advanced(p).call = p.call /\ Advanced(p).gen = p.gen
        /\ Advanced(p).batch = p.batch /\ Advanced(p).fold = p.fold
        /\ Advanced(p).groups = Tail(p.groups) /\ ~Advanced(p).writing
        /\ Advanced(p).code = p.code
    BY <2>2 DEF Advanced, Processes
  <2>4. \A k \in DOMAIN Tail(p.groups) : k + 1 \in DOMAIN p.groups /\ Tail(p.groups)[k] = p.groups[k + 1]
    BY <2>1, <2>2
  <2>5. Sound(Advanced(p))
    BY <2>3, <2>4 DEF Sound
  <2>6. QED BY <2>3, <2>5
<1>4. QED BY <1>1, <1>2, <1>3

\* The group at whose file a process is, and what it writes.
LEMMA WrittenFacts ==
  ASSUME NEW p \in Processes, Sound(p), p.groups # <<>>
  PROVE  /\ FileOf(p) = <<p.gen, p.groups[1], p.fold>>
         /\ FileOf(p) \in Generations \X Groups \X Folds
         /\ Written(p) = RowsOf(p.batch, p.groups[1])
         /\ Written(p) \in Scored
         /\ 1 \in DOMAIN p.groups /\ p.groups[1] \in Groups /\ p.gen \in Generations /\ p.fold \in Folds
<1>1. p.groups \in Seq(Groups) /\ p.gen \in Generations /\ p.fold \in Folds /\ p.batch \in Batches
  BY DEF Processes
<1>2. Head(p.groups) = p.groups[1] /\ 1 \in DOMAIN p.groups
  BY <1>1
<1>3. p.groups[1] \in Groups /\ Members(p.batch, p.groups[1]) # {}
  BY <1>1, <1>2 DEF Sound
<1>4. RowsOf(p.batch, p.groups[1]) \in Scored
  BY <1>1, <1>3, RowsFacts DEF Scored
<1>5. QED BY <1>1, <1>2, <1>3, <1>4 DEF FileOf, Written

\* Nothing but p changes, or processes have gone.
LEMMA ProcsKept ==
  ASSUME ProcsInv, NEW q \in Processes, Sound(q), procs' \subseteq procs \union {q}
  PROVE  ProcsInv'
BY DEF ProcsInv

LEMMA ProcsFewer ==
  ASSUME ProcsInv, procs' \subseteq procs
  PROVE  ProcsInv'
BY DEF ProcsInv

LEMMA ExitedTyped ==
  ASSUME ProcsInv, NEW p \in procs, NEW code \in {"ok", "failed"}, Exited(p, code)
  PROVE  ProcsInv'
<1>1. p \in Processes /\ Sound(p)
  BY DEF ProcsInv
<1>2. Stopped(p, code) \in Processes /\ Sound(Stopped(p, code))
  BY <1>1, ChangedFacts
<1>3. procs' \subseteq procs \union {Stopped(p, code)}
  BY DEF Exited, Replace, Stopped
<1>4. QED BY <1>2, <1>3, ProcsKept

LEMMA NextGroupTyped ==
  ASSUME ProcsInv, NEW p \in procs, p.groups # <<>>, NextGroup(p)
  PROVE  ProcsInv'
<1>1. CASE Len(p.groups) = 1
  BY <1>1, ExitedTyped DEF NextGroup
<1>2. CASE Len(p.groups) # 1
  <2>1. p \in Processes /\ Sound(p)
    BY DEF ProcsInv
  <2>2. Advanced(p) \in Processes /\ Sound(Advanced(p))
    BY <2>1, ChangedFacts
  <2>3. procs' \subseteq procs \union {Advanced(p)}
    BY <1>2 DEF NextGroup, Replace, Advanced
  <2>4. QED BY <2>2, <2>3, ProcsKept
<1>3. QED BY <1>1, <1>2

\* The two ways a process changes a file.
LEMMA FileTyped ==
  ASSUME FilesOK, NEW p \in Processes, Sound(p), p.groups # <<>>,
         files' \in {files, [files EXCEPT ![FileOf(p)] = Written(p)], [files EXCEPT ![FileOf(p)] = Torn]}
  PROVE  FilesOK'
<1>1. FileOf(p) \in Generations \X Groups \X Folds /\ Written(p) \in Scored
  BY WrittenFacts
<1>2. QED BY <1>1 DEF FilesOK

\* What a process does of itself.
LEMMA ProcessStepTyped ==
  ASSUME TypeInv, NEW p \in procs, Evaluate(p) \/ WriteScores(p)
  PROVE  TypeInv'
<1>1. p \in Processes /\ Sound(p)
  BY DEF TypeInv, ProcsInv
<1>2. UNCHANGED <<settings, cache, bad, pc, manifest, call, scores, faults, lost>>
  BY DEF Evaluate, WriteScores
<1>3. SettingsOK' /\ StoreOK' /\ CallOK' /\ ScoresOK' /\ CountersOK'
  BY <1>2 DEF TypeInv, SettingsOK, StoreOK, CallOK, ScoresOK, CountersOK, settings, call
<1>4. FilesOK /\ ProcsInv
  BY DEF TypeInv
<1>5. FilesOK' /\ ProcsInv'
  <2>1. CASE Exited(p, "failed") /\ UNCHANGED files
    <3>1. FilesOK'
      BY <1>4, <2>1 DEF FilesOK
    <3>2. QED BY <1>4, <2>1, <3>1, ExitedTyped
  <2>2. CASE p.groups # <<>> /\ files' = [files EXCEPT ![FileOf(p)] = Written(p)] /\ NextGroup(p)
    BY <1>1, <1>4, <2>2, FileTyped, NextGroupTyped
  <2>3. CASE p.groups # <<>> /\ files' = [files EXCEPT ![FileOf(p)] = Torn] /\ procs' = Replace(p, Writing(p))
    <3>1. Writing(p) \in Processes /\ Sound(Writing(p))
      BY <1>1, <2>3, ChangedFacts
    <3>2. procs' \subseteq procs \union {Writing(p)}
      BY <2>3 DEF Replace
    <3>3. QED BY <1>1, <1>4, <2>3, <3>1, <3>2, FileTyped, ProcsKept
  <2>4. CASE Evaluate(p)
    BY <2>1, <2>2, <2>3, <2>4 DEF Evaluate, Writing
  <2>5. CASE WriteScores(p)
    <3>1. p.groups # <<>>
      BY <1>1, <2>5 DEF WriteScores, Sound
    <3>2. QED BY <2>2, <2>5, <3>1 DEF WriteScores
  <2>6. QED BY <2>4, <2>5
<1>6. QED BY <1>3, <1>5 DEF TypeInv

\* What befalls a process.
LEMMA ProcessFaultTyped ==
  ASSUME TypeInv, NEW p \in procs, ProcessFails(p) \/ ProcessUnreaped(p)
  PROVE  TypeInv'
<1>1. p \in Processes /\ Sound(p)
  BY DEF TypeInv, ProcsInv
<1>2. UNCHANGED <<settings, cache, bad, pc, manifest, call, scores>>
  BY DEF ProcessFails, ProcessUnreaped
<1>3. SettingsOK' /\ StoreOK' /\ CallOK' /\ ScoresOK'
  BY <1>2 DEF TypeInv, SettingsOK, StoreOK, CallOK, ScoresOK, settings, call
<1>4. CountersOK'
  BY Bounds DEF TypeInv, CountersOK, ProcessFails, ProcessUnreaped
<1>5. ProcsInv'
  BY ExitedTyped DEF TypeInv, ProcessFails, ProcessUnreaped
<1>6. FilesOK'
  <2>1. Abandoned(p)
    BY DEF ProcessFails, ProcessUnreaped
  <2>2. CASE p.groups # <<>>
    BY <1>1, <2>1, <2>2, FileTyped DEF TypeInv, Abandoned
  <2>3. CASE p.groups = <<>>
    BY <2>1, <2>3 DEF TypeInv, Abandoned, FilesOK
  <2>4. QED BY <2>2, <2>3
<1>7. QED BY <1>3, <1>4, <1>5, <1>6 DEF TypeInv

\* Fewer files fit where more do.
LEMMA FewerFit ==
  ASSUME NEW most \in Nat, NEW room \in Nat \ {0}, NEW n \in Nat, NEW m \in Nat, m <= n,
         n <= most, n > room => n = 1
  PROVE  m <= most /\ (m > room => m = 1)
OBVIOUS

\* The cache after a signal set was resolved: it has that set, and of those resolved
\* before what there is room for.
LEMMA ResolveFacts ==
  ASSUME TypeInv, CacheInv, Resolve
  PROVE  /\ CacheInv' /\ StoreOK'
         /\ todo # <<>> /\ todo' = Tail(todo) /\ Head(todo) \in Signals
         /\ \A S : /\ Latest(cache, S) /\ IsFiniteSet(S \union {Head(todo)})
                   /\ limits.entries <= limits.bytes
                   /\ Cardinality(S \union {Head(todo)}) <= limits.entries
                   => Latest(cache', S \union {Head(todo)})
<1> DEFINE s == Head(todo)
           hit == Contains(cache, s) /\ s \notin bad
           t == Touched(cache, s)
<1>1. /\ todo # <<>> /\ todo' = Tail(todo) /\ s \in Signals
      /\ limits' = limits /\ limits \in LimitsSet
  BY DEF Resolve, TypeInv, CallOK, SettingsOK, settings
<1>2. /\ cache' = IF hit THEN t ELSE Evicted(t)
      /\ bad' = (bad \ {s}) \intersect ToSet(cache')
  BY DEF Resolve
<1>3. cache \in Seq(Signals) /\ Distinct(cache) /\ CacheBounded
  BY DEF CacheInv
<1> HIDE DEF s, t
<1>4. /\ t \in Seq(Signals) /\ t # <<>> /\ Distinct(t)
      /\ (\E i \in DOMAIN cache : cache[i] = s) => Len(t) <= Len(cache)
      /\ \A S : Latest(cache, S) => Latest(t, S \union {s})
  BY <1>1, <1>3, TouchedFacts DEF t
<1>5. limits.entries \in Nat \ {0} /\ limits.bytes \in Nat \ {0} /\ Len(t) \in Nat \ {0} /\ Len(cache) \in Nat
  BY <1>1, <1>3, <1>4, LimitsAssumption
<1>6. CASE hit
  <2>1. cache' = t
    BY <1>2, <1>6
  <2>2. \E i \in DOMAIN cache : cache[i] = s
    BY <1>3, <1>6 DEF Contains
  <2>3. Len(cache') <= Len(cache)
    BY <1>4, <2>1, <2>2
  <2>4. CacheBounded'
    <3>1. Len(cache') \in Nat
      BY <1>5, <2>1
    <3>2. Len(cache) <= limits.entries /\ (Len(cache) > limits.bytes => Len(cache) = 1)
      BY <1>3 DEF CacheBounded
    <3>3. Len(cache') <= limits.entries /\ (Len(cache') > limits.bytes => Len(cache') = 1)
      BY <1>5, <2>3, <3>1, <3>2, FewerFit
    <3>4. QED BY <1>1, <3>3 DEF CacheBounded
  <2>5. CacheInv'
    BY <1>4, <2>1, <2>4 DEF CacheInv
  <2>6. StoreOK'
    BY <1>2, <1>4, <2>1 DEF StoreOK
  <2>7. QED BY <1>1, <1>4, <2>1, <2>5, <2>6 DEF s
<1>7. CASE ~hit
  <2>1. cache' = Evicted(t)
    BY <1>2, <1>7
  <2>2. PICK d \in 0 .. Len(t) - 1 :
          /\ Evicted(t) = SubSeq(t, d + 1, Len(t))
          /\ Len(t) - d <= limits.entries
          /\ Len(t) - d > limits.bytes => Len(t) - d = 1
          /\ limits.entries <= limits.bytes /\ d # 0 => Len(t) - d = limits.entries
    BY <1>1, <1>4, EvictedFacts
  <2>3. /\ cache' \in Seq(Signals) /\ Distinct(cache') /\ Len(cache') = Len(t) - d
        /\ \A S : /\ Latest(t, S) /\ IsFiniteSet(S)
                  /\ d # 0 => Cardinality(S) <= Len(t) - d
                  => Latest(cache', S)
    BY <1>4, <2>1, <2>2, LeftFacts
  <2>4. CacheBounded'
    BY <1>1, <2>2, <2>3 DEF CacheBounded
  <2>5. CacheInv'
    BY <2>3, <2>4 DEF CacheInv, Distinct
  <2>6. StoreOK'
    BY <1>2, <2>3 DEF StoreOK
  <2>7. ASSUME NEW S, Latest(cache, S), IsFiniteSet(S \union {s}),
               limits.entries <= limits.bytes, Cardinality(S \union {s}) <= limits.entries
        PROVE  Latest(cache', S \union {s})
    <3>1. Latest(t, S \union {s})
      BY <1>4, <2>7
    <3>2. d # 0 => Cardinality(S \union {s}) <= Len(t) - d
      BY <2>2, <2>7
    <3>3. QED BY <2>3, <2>7, <3>1, <3>2
  <2>8. QED BY <1>1, <2>5, <2>6, <2>7 DEF s
<1>8. QED BY <1>6, <1>7

\* The files found at a restart are of the signal sets that were cached.
LEMMA RestartFacts ==
  ASSUME TypeInv, CacheInv, Restart
  PROVE  CacheInv' /\ StoreOK'
<1> DEFINE D == ToSet(cache) \ bad
<1>1. /\ cache' \in SetToSeqs(D) /\ bad' = {} /\ limits' = limits
  BY DEF Restart, settings
<1>2. cache \in Seq(Signals) /\ CacheBounded /\ limits \in LimitsSet
  BY DEF CacheInv, TypeInv, SettingsOK
<1>3. ToSet(cache) \subseteq Signals
  BY <1>2 DEF ToSet
<1>4. /\ IsFiniteSet(ToSet(cache)) /\ Cardinality(ToSet(cache)) <= Len(cache)
      /\ Cardinality(ToSet(cache)) \in Nat
  <2>1. cache \in Surjection(1 .. Len(cache), ToSet(cache))
    BY <1>2 DEF Surjection, ToSet
  <2>2. IsFiniteSet(1 .. Len(cache)) /\ Cardinality(1 .. Len(cache)) = Len(cache)
    <3>1. 1 \in Int /\ Len(cache) \in Nat
      BY <1>2
    <3>2. IsFiniteSet(1 .. Len(cache)) /\ Cardinality(1 .. Len(cache)) = IF 1 > Len(cache) THEN 0 ELSE Len(cache) - 1 + 1
      BY <3>1, FS_Interval
    <3>3. QED BY <3>1, <3>2
  <2>3. IsFiniteSet(ToSet(cache)) /\ Cardinality(ToSet(cache)) <= Cardinality(1 .. Len(cache))
    BY <2>1, <2>2, FS_Surjection
  <2>4. QED BY <2>2, <2>3, FS_CardinalityType
<1>5. Cardinality(D) \in Nat /\ Cardinality(D) <= Len(cache)
  <2>1. D \in SUBSET ToSet(cache)
    OBVIOUS
  <2>2. IsFiniteSet(D) /\ Cardinality(D) <= Cardinality(ToSet(cache))
    BY <1>4, <2>1, FS_Subset
  <2>3. Cardinality(D) \in Nat
    BY <2>2, FS_CardinalityType
  <2>4. QED BY <1>2, <1>4, <2>2, <2>3
<1>6. D \subseteq Signals
  BY <1>3
<1> HIDE DEF D
<1>7. /\ cache' \in [1 .. Cardinality(D) -> D]
      /\ \A i, j \in 1 .. Cardinality(D) : i # j => cache'[i] # cache'[j]
  BY <1>1 DEF SetToSeqs
<1>8. cache' \in Seq(Signals) /\ Len(cache') = Cardinality(D) /\ DOMAIN cache' = 1 .. Cardinality(D)
  BY <1>5, <1>6, <1>7
<1>9. CacheBounded'
  <2>1. limits.entries \in Nat \ {0} /\ limits.bytes \in Nat \ {0} /\ Len(cache) \in Nat
    BY <1>2, LimitsAssumption
  <2>2. Len(cache) <= limits.entries /\ (Len(cache) > limits.bytes => Len(cache) = 1)
    BY <1>2 DEF CacheBounded
  <2>3. Len(cache') <= limits.entries /\ (Len(cache') > limits.bytes => Len(cache') = 1)
    BY ZenonT(30), <1>5, <1>8, <2>1, <2>2, FewerFit
  <2>4. QED BY <1>1, <2>3 DEF CacheBounded
<1>10. Distinct(cache')
  BY <1>7, <1>8 DEF Distinct
<1>11. CacheInv' /\ StoreOK'
  BY <1>1, <1>8, <1>9, <1>10 DEF CacheInv, StoreOK, Distinct
<1>12. QED BY <1>11

\* The scores that are read are scores.
LEMMA ScoreTyped ==
  ASSUME TypeInv, Ended, Readable, NEW i \in DOMAIN batch, NEW f \in Folds
  PROVE  ScoreOf(i, f) \in Exits \union {NoScore}
<1> DEFINE g == batch[i].group
           file == files[<<gen, g, f>>]
<1>1. CASE g \in GroupsOf(batch) /\ Available(g, f)
  <2>1. batch \in Batches /\ gen \in Generations
    BY DEF TypeInv, CallOK, Ended
  <2>2. g \in Groups /\ i \in Members(batch, g)
    BY <2>1, BatchFacts DEF Members
  <2>3. Position(batch, i) \in 1 .. Len(RowsOf(batch, g))
    BY <2>1, <2>2, RowsFacts
  <2>4. file \in {NoFile, Torn} \union Scored
    BY <2>1, <2>2 DEF TypeInv, FilesOK
  <2>5. ~Unreadable(g, f)
    BY <1>1 DEF Readable
  <2>6. file # NoFile /\ file # Torn /\ Len(file) \in {1, Len(RowsOf(batch, g))}
    BY <1>1, <2>5 DEF Unreadable, Available
  <2>7. file \in Seq(Exits) /\ Len(file) \in Nat
    BY <2>4, <2>6 DEF Scored
  <2>8. (IF Len(file) = 1 THEN 1 ELSE Position(batch, i)) \in 1 .. Len(file)
    <3>1. CASE Len(file) = 1
      BY <2>7, <3>1
    <3>2. CASE Len(file) # 1
      BY <2>3, <2>6, <3>2
    <3>3. QED BY <3>1, <3>2
  <2>9. file[IF Len(file) = 1 THEN 1 ELSE Position(batch, i)] \in Exits
    BY <2>7, <2>8
  <2>10. QED BY <1>1, <2>9 DEF ScoreOf
<1>2. CASE ~(g \in GroupsOf(batch) /\ Available(g, f))
  BY <1>2 DEF ScoreOf
<1>3. QED BY <1>1, <1>2

\* The orchestrator is down.
LEMMA DownTyped ==
  ASSUME CallOK, Down, UNCHANGED <<gen, batch, calls>>
  PROVE  CallOK' /\ ScoresOK'
<1>1. todo' = <<>> /\ pc' = "down" /\ scores' = Unscored(<<>>)
  BY DEF Down
<1>2. CallOK'
  BY <1>1 DEF CallOK
<1>3. DOMAIN scores' = {}
  BY <1>1 DEF Unscored
<1>4. QED BY <1>2, <1>3 DEF ScoresOK

LEMMA TypeStep == TypeInv /\ CacheInv /\ [Next]_vars => TypeInv' /\ CacheInv'
<1> SUFFICES ASSUME TypeInv, CacheInv, [Next]_vars PROVE TypeInv' /\ CacheInv'
  OBVIOUS
<1> USE DEF TypeInv
<1>0. CacheInv' \/ cache' # cache \/ limits' # limits
  BY DEF CacheInv, CacheBounded
<1>1. CASE Dispatch
  <2>1. PICK b \in Batches, g \in {gen, gen + 1} \intersect Generations :
          batch' = b /\ gen' = g /\ todo' = Unresolved(b) /\ scores' = Unscored(b)
    BY <1>1 DEF Dispatch
  <2>2. /\ calls < MaxCalls /\ calls' = calls + 1 /\ pc' = "resolve"
        /\ UNCHANGED <<settings, store, manifest, procs, faults, lost>>
    BY <1>1 DEF Dispatch
  <2>3. Unresolved(b) \in Seq(Signals)
    BY OrderFacts
  <2>4. calls' \in 0 .. MaxCalls
    BY <2>2, Bounds DEF CallOK
  <2>5. CallOK'
    BY <2>1, <2>2, <2>3, <2>4 DEF CallOK
  <2>6. ScoresOK'
    BY <2>1 DEF ScoresOK, Unscored
  <2>7. SettingsOK' /\ StoreOK' /\ FilesOK' /\ CountersOK' /\ ProcsInv'
    BY <2>2 DEF settings, store, SettingsOK, StoreOK, FilesOK, CountersOK, ProcsInv
  <2>8. CacheInv'
    BY <1>0, <2>2 DEF settings, store
  <2>9. QED BY <2>5, <2>6, <2>7, <2>8
<1>2. CASE Resolve
  <2>1. CacheInv' /\ StoreOK' /\ todo # <<>> /\ todo' = Tail(todo)
    BY <1>2, ResolveFacts
  <2>2. UNCHANGED <<settings, files, pc, manifest, gen, batch, calls, procs, scores, faults, lost>>
    BY <1>2 DEF Resolve
  <2>3. Tail(todo) \in Seq(Signals)
    BY <2>1 DEF CallOK
  <2>4. CallOK'
    BY <2>1, <2>2, <2>3 DEF CallOK
  <2>5. SettingsOK' /\ FilesOK' /\ ScoresOK' /\ CountersOK' /\ ProcsInv'
    BY <2>2 DEF settings, SettingsOK, FilesOK, ScoresOK, CountersOK, ProcsInv
  <2>6. QED BY <2>1, <2>4, <2>5
<1>3. CASE Spawn
  <2>1. /\ pc = "resolve" /\ pc' = "wait"
        /\ procs' = procs \union (IF manifest THEN Manifests ELSE ParamBatches)
        /\ UNCHANGED <<settings, store, manifest, call, scores, faults, lost>>
    BY <1>3 DEF Spawn
  <2>2. ProcsInv'
    <3>1. CallOK /\ pc \in {"resolve", "wait"}
      BY <2>1
    <3>2. /\ \A p \in Manifests : p \in Processes /\ Sound(p)
          /\ \A p \in ParamBatches : p \in Processes /\ Sound(p)
      BY <3>1, BegunFacts
    <3>3. QED BY <2>1, <3>2 DEF ProcsInv
  <2>3. CallOK'
    BY <2>1 DEF CallOK, call
  <2>4. SettingsOK' /\ StoreOK' /\ FilesOK' /\ ScoresOK' /\ CountersOK'
    BY <2>1 DEF settings, store, SettingsOK, StoreOK, FilesOK, ScoresOK, CountersOK
  <2>5. CacheInv'
    BY <1>0, <2>1 DEF settings, store
  <2>6. QED BY <2>2, <2>3, <2>4, <2>5
<1>4. CASE EvaluateOnWorkers
  <2>1. pc' = "idle" /\ UNCHANGED <<settings, store, manifest, call, procs, scores, faults, lost>>
    BY <1>4 DEF EvaluateOnWorkers
  <2>2. CallOK'
    BY <2>1 DEF CallOK, call
  <2>3. SettingsOK' /\ StoreOK' /\ FilesOK' /\ ScoresOK' /\ CountersOK' /\ ProcsInv'
    BY <2>1 DEF settings, store, SettingsOK, StoreOK, FilesOK, ScoresOK, CountersOK, ProcsInv
  <2>4. CacheInv'
    BY <1>0, <2>1 DEF settings, store
  <2>5. QED BY <2>2, <2>3, <2>4
<1>5. CASE Scatter
  <2>1. /\ Ended /\ Readable /\ pc' = "idle" /\ procs' = procs \ Awaited
        /\ scores' = [i \in DOMAIN batch |-> [f \in Folds |-> ScoreOf(i, f)]]
        /\ UNCHANGED <<settings, store, manifest, call, faults, lost>>
    BY <1>5 DEF Scatter
  <2>2. CallOK'
    BY <2>1 DEF CallOK, call
  <2>3. \A i \in DOMAIN batch, f \in Folds : ScoreOf(i, f) \in Exits \union {NoScore}
    BY <2>1, ScoreTyped
  <2>4. ScoresOK'
    BY <2>1, <2>3 DEF ScoresOK
  <2>5. SettingsOK' /\ StoreOK' /\ FilesOK' /\ CountersOK'
    BY <2>1 DEF settings, store, SettingsOK, StoreOK, FilesOK, CountersOK
  <2>6. ProcsInv'
    BY <2>1, ProcsFewer
  <2>7. CacheInv'
    BY <1>0, <2>1 DEF settings, store
  <2>8. QED BY <2>2, <2>4, <2>5, <2>6, <2>7
<1>6. CASE FallBack
  <2>1. /\ Ended /\ manifest' = FALSE /\ procs' = (procs \ Awaited) \union ParamBatches
        /\ UNCHANGED <<settings, store, pc, call, scores, faults, lost>>
    BY <1>6 DEF FallBack
  <2>2. CallOK'
    BY <2>1 DEF CallOK, call
  <2>3. SettingsOK' /\ StoreOK' /\ FilesOK' /\ ScoresOK' /\ CountersOK'
    BY <2>1 DEF settings, store, SettingsOK, StoreOK, FilesOK, ScoresOK, CountersOK
  <2>4. ProcsInv'
    <3>1. CallOK /\ pc \in {"resolve", "wait"}
      BY <2>1 DEF Ended
    <3>2. \A p \in ParamBatches : p \in Processes /\ Sound(p)
      BY <3>1, BegunFacts
    <3>3. QED BY <2>1, <3>2 DEF ProcsInv
  <2>5. CacheInv'
    BY <1>0, <2>1 DEF settings, store
  <2>6. QED BY <2>2, <2>3, <2>4, <2>5
<1>7. CASE Raise \/ PrecomputeFails \/ Kill
  <2>1. /\ Down /\ procs' \subseteq procs
        /\ UNCHANGED <<settings, store, manifest, gen, batch, calls>>
    BY <1>7 DEF Raise, PrecomputeFails, Kill
  <2>2. CallOK' /\ ScoresOK'
    BY <2>1, DownTyped
  <2>3. SettingsOK' /\ StoreOK' /\ FilesOK'
    BY <2>1 DEF settings, store, SettingsOK, StoreOK, FilesOK
  <2>4. \/ faults' = faults /\ lost' = lost
        \/ faults < MaxFaults /\ faults' = faults + 1 /\ lost' \in {lost, lost + 1}
    BY <1>7 DEF Raise, PrecomputeFails, Kill
  <2>5. CountersOK'
    BY <2>4, Bounds DEF CountersOK
  <2>6. ProcsInv'
    BY <2>1, ProcsFewer
  <2>7. CacheInv'
    BY <1>0, <2>1 DEF settings, store
  <2>8. QED BY <2>2, <2>3, <2>5, <2>6, <2>7
<1>8. CASE Restart
  <2>1. CacheInv' /\ StoreOK'
    BY <1>8, RestartFacts
  <2>2. /\ pc' = "idle" /\ manifest' = manifests /\ gen' \in 0 .. gen
        /\ UNCHANGED <<settings, files, batch, todo, calls, procs, scores, faults, lost>>
    BY <1>8 DEF Restart
  <2>3. gen' \in Generations
    BY <2>2, Bounds DEF CallOK, Generations
  <2>4. CallOK'
    BY <2>2, <2>3 DEF CallOK
  <2>5. SettingsOK'
    BY <2>2 DEF settings, SettingsOK
  <2>6. FilesOK' /\ ScoresOK' /\ CountersOK' /\ ProcsInv'
    BY <2>2 DEF FilesOK, ScoresOK, CountersOK, ProcsInv
  <2>7. QED BY <2>1, <2>4, <2>5, <2>6
<1>9. CASE Damage
  <2>1. /\ faults < MaxFaults /\ faults' = faults + 1
        /\ UNCHANGED <<settings, cache, files, pc, manifest, call, procs, scores, lost>>
    BY <1>9 DEF Damage
  <2>2. PICK s \in ToSet(cache) \ bad : bad' = bad \union {s}
    BY <1>9 DEF Damage
  <2>3. StoreOK'
    BY <2>1, <2>2 DEF StoreOK
  <2>4. CountersOK'
    BY <2>1, Bounds DEF CountersOK
  <2>5. SettingsOK' /\ CallOK' /\ FilesOK' /\ ScoresOK' /\ ProcsInv'
    BY <2>1 DEF settings, call, SettingsOK, CallOK, FilesOK, ScoresOK, ProcsInv
  <2>6. CacheInv'
    BY <1>0, <2>1 DEF settings
  <2>7. QED BY <2>3, <2>4, <2>5, <2>6
<1>10. ASSUME NEW p \in procs, Evaluate(p) \/ WriteScores(p) \/ ProcessFails(p) \/ ProcessUnreaped(p)
       PROVE  TypeInv' /\ CacheInv'
  <2>1. UNCHANGED <<settings, cache>>
    BY <1>10 DEF Evaluate, WriteScores, ProcessFails, ProcessUnreaped
  <2>2. CacheInv'
    BY <1>0, <2>1 DEF settings
  <2>3. TypeInv'
    BY <1>10, ProcessStepTyped, ProcessFaultTyped
  <2>4. QED BY <2>2, <2>3
<1>11. CASE UNCHANGED vars
  <2>1. SettingsOK' /\ StoreOK' /\ CallOK' /\ FilesOK'
    BY <1>11 DEF vars, settings, store, call, SettingsOK, StoreOK, CallOK, FilesOK
  <2>2. ScoresOK' /\ CountersOK' /\ ProcsInv'
    BY <1>11 DEF vars, ScoresOK, CountersOK, ProcsInv
  <2>3. CacheInv'
    BY <1>0, <1>11 DEF vars, settings, store
  <2>4. QED BY <2>1, <2>2, <2>3
<1>12. QED
  BY <1>1, <1>2, <1>3, <1>4, <1>5, <1>6, <1>7, <1>8, <1>9, <1>10, <1>11
  DEF Next, Progress, ProcessStep

----------------------------------------------------------------------------
(* Scores are of the candidates they are given to.                         *)

LEMMA AloneFacts ==
  ASSUME NEW g
  PROVE  Len(Alone(g)) = 1 /\ Alone(g)[1] = g /\ 1 \in DOMAIN Alone(g)
BY DEF Alone

\* What has just been begun is in charge of all groups and folds.
LEMMA BegunInCharge ==
  ASSUME CallOK, pc \in {"resolve", "wait"}, UNCHANGED <<survivors, gen, batch, calls>>,
         manifest' \in BOOLEAN, procs' = IF manifest' THEN Manifests ELSE ParamBatches
  PROVE  /\ OneInCharge'
         /\ \A p \in procs' : p.call = calls /\ p.gen = gen /\ p.batch = batch /\ ~p.writing
<1>1. batch \in Batches
  BY DEF CallOK
<1>2. GroupsOf(batch)' = GroupsOf(batch)
  BY DEF GroupsOf, Live
<1>3. ASSUME NEW f, NEW gs
      PROVE  /\ Process(f, gs).call = calls /\ Process(f, gs).gen = gen
             /\ Process(f, gs).batch = batch /\ ~Process(f, gs).writing
             /\ Process(f, gs).fold = f /\ Process(f, gs).groups = gs
             /\ Process(f, gs).code = "running"
  BY DEF Process
<1>4. CASE manifest'
  <2>1. \A p \in procs' : \E f \in Folds : p = Process(f, InOrder(batch))
    BY <1>4 DEF Manifests
  <2>2. \A f \in Folds : Process(f, InOrder(batch)) \in procs'
    BY <1>4 DEF Manifests
  <2>3. \A p, q \in procs' : p.fold = q.fold => p = q
    BY <1>3, <2>1
  <2>4. ASSUME NEW g \in GroupsOf(batch), NEW f \in Folds
        PROVE  \E p \in procs' : For(p, g, f)' /\ p.code = "running" /\ Ahead(p, g)
    <3>1. \E k \in DOMAIN InOrder(batch) : InOrder(batch)[k] = g
      BY <1>1, OrderFacts
    <3>2. PICK p \in procs' : p = Process(f, InOrder(batch))
      BY <2>2
    <3>3. Ahead(p, g) /\ p.fold = f /\ p.code = "running"
      BY <1>3, <3>1, <3>2 DEF Ahead
    <3>4. For(p, g, f)'
      BY <1>4, <3>3 DEF For
    <3>5. QED BY <3>3, <3>4
  <2>5. OneInCharge'
    BY <1>2, <1>4, <2>3, <2>4 DEF OneInCharge
  <2>6. QED BY <1>3, <2>1, <2>5
<1>5. CASE ~manifest'
  <2>0. procs' = ParamBatches
    BY <1>5
  <2>1. \A p \in procs' : \E f \in Folds, g \in GroupsOf(batch) : p = Process(f, Alone(g))
    <3>1. SUFFICES ASSUME NEW p \in procs' PROVE \E f \in Folds, g \in GroupsOf(batch) : p = Process(f, Alone(g))
      OBVIOUS
    <3>2. p \in ParamBatches
      BY <2>0
    <3>3. PICK f \in Folds, g \in GroupsOf(batch) : p = Process(f, <<g>>)
      BY <3>2 DEF ParamBatches
    <3>4. QED BY <3>3 DEF Alone
  <2>2. \A f \in Folds, g \in GroupsOf(batch) : Process(f, Alone(g)) \in procs'
    <3>1. SUFFICES ASSUME NEW f \in Folds, NEW g \in GroupsOf(batch) PROVE Process(f, Alone(g)) \in procs'
      OBVIOUS
    <3>2. Process(f, <<g>>) \in ParamBatches
      BY DEF ParamBatches
    <3>3. QED BY <2>0, <3>2 DEF Alone
  <2>3. \A p, q \in procs' : p.fold = q.fold /\ p.groups = q.groups => p = q
    BY <1>3, <2>1, AloneFacts
  <2>4. \A p \in procs' : Len(p.groups) = 1
    BY <1>3, <2>1, AloneFacts
  <2>5. ASSUME NEW g \in GroupsOf(batch), NEW f \in Folds
        PROVE  \E p \in procs' : For(p, g, f)' /\ p.code = "running" /\ Ahead(p, g)
    <3>1. 1 \in DOMAIN Alone(g) /\ Alone(g)[1] = g
      BY AloneFacts
    <3>2. PICK p \in procs' : p = Process(f, Alone(g))
      BY <2>2
    <3>3. Ahead(p, g) /\ p.fold = f /\ p.code = "running" /\ p.groups = Alone(g)
      BY <1>3, <3>1, <3>2 DEF Ahead
    <3>4. For(p, g, f)'
      BY <3>3 DEF For
    <3>5. QED BY <3>3, <3>4
  <2>6. OneInCharge'
    BY <1>2, <1>5, <2>3, <2>4, <2>5 DEF OneInCharge
  <2>7. QED BY <1>3, <2>1, <2>6
<1>6. QED BY <1>4, <1>5

\* A process that goes on, or fails, stays in charge.
LEMMA StillInCharge ==
  ASSUME TypeInv, OneInCharge, UNCHANGED <<survivors, gen, batch, manifest>>,
         NEW p \in procs, NEW q, procs' = Replace(p, q),
         q.fold = p.fold, ~manifest => q.groups = p.groups,
         \A g \in GroupsOf(batch), f \in Folds :
           \/ files'[<<gen, g, f>>] = files[<<gen, g, f>>]
           \/ p.groups # <<>> /\ g = p.groups[1] /\ f = p.fold,
         \A g \in GroupsOf(batch) :
           Done(g, p.fold) \/ p.code = "failed" \/ (p.code = "running" /\ Ahead(p, g))
             => Done(g, p.fold)' \/ q.code = "failed" \/ (q.code = "running" /\ Ahead(q, g))
  PROVE  OneInCharge'
<1>1. /\ \A a, b \in procs : a.fold = b.fold /\ (manifest \/ a.groups = b.groups) => a = b
      /\ ~manifest => \A a \in procs : Len(a.groups) = 1
      /\ \A g \in GroupsOf(batch), f \in Folds : \E a \in procs :
           /\ For(a, g, f)
           /\ Done(g, f) \/ a.code = "failed" \/ (a.code = "running" /\ Ahead(a, g))
  BY DEF OneInCharge
<1>2. \A a \in procs' : a = q \/ (a \in procs /\ a # p)
  BY DEF Replace
<1>3. q \in procs' /\ \A a \in procs : a # p => a \in procs'
  BY DEF Replace
<1>4. \A a, b \in procs' : a.fold = b.fold /\ (manifest \/ a.groups = b.groups) => a = b
  BY <1>1, <1>2
<1>5. ~manifest => \A a \in procs' : Len(a.groups) = 1
  BY <1>1, <1>2
<1>6. ASSUME NEW g \in GroupsOf(batch), NEW f \in Folds
      PROVE  \E a \in procs' :
               /\ For(a, g, f)
               /\ Done(g, f)' \/ a.code = "failed" \/ (a.code = "running" /\ Ahead(a, g))
  <2>1. PICK a \in procs :
          /\ For(a, g, f)
          /\ Done(g, f) \/ a.code = "failed" \/ (a.code = "running" /\ Ahead(a, g))
    BY <1>1
  <2>2. CASE a = p
    <3>1. f = p.fold /\ For(q, g, f)
      BY <2>1, <2>2 DEF For
    <3>2. Done(g, f)' \/ q.code = "failed" \/ (q.code = "running" /\ Ahead(q, g))
      BY <2>1, <2>2, <3>1
    <3>3. QED BY <1>3, <3>1, <3>2
  <2>3. CASE a # p
    <3>1. ~(p.groups # <<>> /\ g = p.groups[1] /\ f = p.fold)
      <4>1. SUFFICES ASSUME p.groups # <<>>, g = p.groups[1], f = p.fold PROVE FALSE
        OBVIOUS
      <4>2. p.groups \in Seq(Groups)
        BY DEF TypeInv, ProcsInv, Processes
      <4>3. ~manifest => p.groups = Alone(g)
        <5>1. ~manifest => Len(p.groups) = 1
          BY <1>1
        <5>2. QED BY <4>1, <4>2, <5>1 DEF Alone
      <4>4. a.fold = p.fold /\ (manifest \/ a.groups = p.groups)
        BY <2>1, <4>1, <4>3 DEF For
      <4>5. QED BY <1>1, <2>3, <4>4
    <3>2. files'[<<gen, g, f>>] = files[<<gen, g, f>>]
      BY <3>1
    <3>3. Done(g, f) => Done(g, f)'
      BY <3>2 DEF Done
    <3>4. QED BY <1>3, <2>1, <2>3, <3>3
  <2>4. QED BY <2>2, <2>3
<1>7. GroupsOf(batch)' = GroupsOf(batch)
  BY DEF GroupsOf, Live
<1>8. \A a, g, f : For(a, g, f)' <=> For(a, g, f)
  BY DEF For
<1>9. QED BY <1>4, <1>5, <1>6, <1>7, <1>8 DEF OneInCharge

\* A file that is there for a group and fold that succeeded is the right one.
LEMMA FoundIsRight ==
  ASSUME OwnInv, lost = 0, pc = "wait", NEW g \in GroupsOf(batch), NEW f \in Folds, Available(g, f)
  PROVE  files[<<gen, g, f>>] = RowsOf(batch, g)
<1>1. OneInCharge /\ \A p \in procs : p.call = calls
  BY DEF OwnInv, OwnProcs, FilesInv
<1>2. PICK p \in procs :
        /\ For(p, g, f)
        /\ Done(g, f) \/ p.code = "failed" \/ (p.code = "running" /\ Ahead(p, g))
  BY <1>1 DEF OneInCharge
<1>3. p \in Awaited /\ p.fold = f
  BY <1>1, <1>2 DEF Awaited, For
<1>4. ~manifest => g \in ToSet(p.groups)
  <2>1. 1 \in DOMAIN Alone(g) /\ Alone(g)[1] = g
    BY AloneFacts
  <2>2. ~manifest => p.groups = Alone(g)
    BY <1>2 DEF For
  <2>3. QED BY <2>1, <2>2 DEF ToSet
<1>5. p.code = "ok"
  BY <1>3, <1>4 DEF Available, Succeeded
<1>6. QED BY <1>2, <1>5 DEF Done

LEMMA NoMarks ==
  ASSUME NEW s \in Seq(Exits)
  PROVE  s # Torn /\ s # NoFile
<1>1. Len(s) = 1 => s[1] \in Exits
  OBVIOUS
<1>2. Len(Torn) = 1 /\ Torn[1] = "torn" /\ Len(NoFile) = 1 /\ NoFile[1] = "none"
  BY DEF Torn, NoFile
<1>3. "torn" \notin Exits /\ "none" \notin Exits
  BY ExitsAssumption
<1>4. QED BY <1>1, <1>2, <1>3

\* Files that are found are neither torn nor of another length.
LEMMA ReadableFacts ==
  ASSUME TypeInv, OwnInv, lost = 0, pc = "wait"
  PROVE  Readable
<1>1. SUFFICES ASSUME NEW g \in GroupsOf(batch), NEW f \in Folds, Unreadable(g, f) PROVE FALSE
  BY DEF Readable
<1>2. Available(g, f)
  BY <1>1 DEF Unreadable
<1>3. files[<<gen, g, f>>] = RowsOf(batch, g)
  BY <1>2, FoundIsRight
<1>4. batch \in Batches
  BY DEF TypeInv, CallOK
<1>5. RowsOf(batch, g) \in Seq(Exits)
  BY <1>4, BatchFacts, RowsFacts
<1>6. RowsOf(batch, g) # Torn
  BY <1>5, NoMarks
<1>7. QED BY <1>1, <1>3, <1>6 DEF Unreadable

\* What is read is right.
LEMMA ScoreIsOwn ==
  ASSUME TypeInv, OwnInv, lost = 0, Ended, NEW i \in DOMAIN batch, NEW f \in Folds
  PROVE  /\ ScoreOf(i, f) \in {NoScore, batch[i].exit}
         /\ batch[i].group \in GroupsOf(batch) /\ Available(batch[i].group, f)
              => ScoreOf(i, f) = batch[i].exit
<1> DEFINE g == batch[i].group
           file == files[<<gen, g, f>>]
<1>1. CASE g \in GroupsOf(batch) /\ Available(g, f)
  <2>1. batch \in Batches
    BY DEF TypeInv, CallOK, Ended
  <2>2. i \in Members(batch, g)
    BY <2>1 DEF Members
  <2>3. /\ RowsOf(batch, g) \in Scored
        /\ Position(batch, i) \in 1 .. Len(RowsOf(batch, g))
        /\ RowsOf(batch, g)[Position(batch, i)] = batch[i].exit
    BY <2>1, <2>2, RowsFacts DEF Scored
  <2>4. file = RowsOf(batch, g)
    BY <1>1, FoundIsRight DEF Ended
  <2>5. (IF Len(file) = 1 THEN 1 ELSE Position(batch, i)) = Position(batch, i)
    BY <2>3, <2>4
  <2>6. ScoreOf(i, f) = file[Position(batch, i)]
    BY <1>1, <2>5 DEF ScoreOf
  <2>7. QED BY <2>3, <2>4, <2>6
<1>2. CASE ~(g \in GroupsOf(batch) /\ Available(g, f))
  BY <1>2 DEF ScoreOf
<1>3. QED BY <1>1, <1>2

LEMMA NoneLost ==
  ASSUME TypeInv, [Next]_vars, lost' = 0
  PROVE  lost = 0
<1>1. lost \in Nat
  BY Bounds DEF TypeInv, CountersOK
<1>2. lost' = lost \/ lost' = lost + 1
  BY DEF Next, vars, Dispatch, Progress, ProcessStep, Resolve, Spawn, EvaluateOnWorkers, Scatter, FallBack,
         Raise, Evaluate, WriteScores, ProcessFails, ProcessUnreaped, PrecomputeFails, Kill, Restart, Damage
<1>3. QED BY <1>1, <1>2

\* What one of a call's own processes comes to: p goes on, ends or fails.
LEMMA OwnStep ==
  ASSUME TypeInv, OwnInv, lost = 0, NEW p \in procs, Evaluate(p) \/ WriteScores(p) \/ ProcessFails(p)
  PROVE  /\ pc = "wait" /\ Own(p) /\ (Evaluate(p) \/ ProcessFails(p))
         /\ p.gen = gen /\ p.batch = batch /\ p.code = "running" /\ p \in Processes /\ Sound(p)
         /\ \/ /\ procs' = Replace(p, Stopped(p, "failed"))
               /\ \/ files' = files
                  \/ p.groups # <<>> /\ files' = [files EXCEPT ![FileOf(p)] = Torn]
            \/ /\ p.groups # <<>>
               /\ files' = [files EXCEPT ![FileOf(p)] = Written(p)]
               /\ \/ Len(p.groups) = 1 /\ procs' = Replace(p, Stopped(p, "ok"))
                  \/ Len(p.groups) # 1 /\ procs' = Replace(p, Advanced(p))
<1>1. pc = "wait" /\ p.call = calls /\ p.gen = gen /\ p.batch = batch /\ ~p.writing
  BY DEF OwnInv, OwnProcs
<1>2. Own(p)
  BY <1>1 DEF Own
<1>3. Evaluate(p) \/ ProcessFails(p)
  BY <1>1 DEF WriteScores
<1>4. p \in Processes /\ Sound(p) /\ p.code = "running"
  BY <1>3 DEF TypeInv, ProcsInv, Evaluate, ProcessFails
<1>5. \A code : Exited(p, code) => procs' = Replace(p, Stopped(p, code))
  BY <1>2 DEF Exited, Stopped
<1>6. CASE Evaluate(p)
  <2>1. CASE p.groups = <<>> \/ ~Loadable(Head(p.groups))
    BY <1>1, <1>2, <1>4, <1>5, <1>6, <2>1 DEF Evaluate
  <2>2. CASE ~(p.groups = <<>> \/ ~Loadable(Head(p.groups)))
    <3>1. files' = [files EXCEPT ![FileOf(p)] = Written(p)] /\ NextGroup(p)
      BY <1>2, <1>6, <2>2 DEF Evaluate
    <3>2. \/ Len(p.groups) = 1 /\ procs' = Replace(p, Stopped(p, "ok"))
          \/ Len(p.groups) # 1 /\ procs' = Replace(p, Advanced(p))
      BY <1>5, <3>1 DEF NextGroup, Advanced
    <3>3. QED BY <1>1, <1>2, <1>4, <1>6, <2>2, <3>1, <3>2
  <2>3. QED BY <2>1, <2>2
<1>7. CASE ProcessFails(p)
  <2>1. Exited(p, "failed") /\ Abandoned(p)
    BY <1>7 DEF ProcessFails
  <2>2. \/ files' = files
        \/ p.groups # <<>> /\ files' = [files EXCEPT ![FileOf(p)] = Torn]
    BY <2>1 DEF Abandoned
  <2>3. QED BY <1>1, <1>2, <1>4, <1>5, <1>7, <2>1, <2>2
<1>8. QED BY <1>3, <1>6, <1>7

LEMMA OwnProcessStep ==
  ASSUME TypeInv, OwnInv, lost = 0, NEW p \in procs, Evaluate(p) \/ WriteScores(p) \/ ProcessFails(p)
  PROVE  OwnInv'
<1>1. /\ pc = "wait" /\ Own(p) /\ (Evaluate(p) \/ ProcessFails(p))
      /\ p.gen = gen /\ p.batch = batch /\ p.code = "running" /\ p \in Processes /\ Sound(p)
  BY OwnStep
<1>2. UNCHANGED <<survivors, pc, manifest, gen, batch, calls, scores, lost>>
  BY <1>1 DEF Evaluate, ProcessFails, settings, call
<1>3. OneInCharge
  BY <1>1 DEF OwnInv, FilesInv
<1>4. OwnScores'
  BY <1>2 DEF OwnInv, OwnScores
<1>5. \A g \in GroupsOf(batch), f \in Folds : <<gen, g, f>> \in DOMAIN files
  <2>1. batch \in Batches /\ gen \in Generations
    BY <1>1 DEF TypeInv, CallOK
  <2>2. QED BY <2>1, BatchFacts DEF TypeInv, FilesOK
<1>6. p.groups # <<>> => FileOf(p) = <<gen, p.groups[1], p.fold>> /\ Written(p) = RowsOf(batch, p.groups[1])
  BY <1>1, WrittenFacts
<1>7. ASSUME NEW e, files' = files \/ (p.groups # <<>> /\ files' = [files EXCEPT ![FileOf(p)] = e])
      PROVE  \A g \in GroupsOf(batch), f \in Folds :
               \/ files'[<<gen, g, f>>] = files[<<gen, g, f>>]
               \/ p.groups # <<>> /\ g = p.groups[1] /\ f = p.fold
  BY <1>5, <1>6, <1>7
<1>8. ASSUME NEW q, procs' = Replace(p, q), q.call = p.call, q.gen = p.gen, q.batch = p.batch, ~q.writing
      PROVE  OwnProcs'
  <2>1. \A a \in procs' : a = q \/ a \in procs
    BY <1>8 DEF Replace
  <2>2. QED BY <1>1, <1>2, <1>8, <2>1 DEF OwnInv, OwnProcs
<1>9. CASE /\ procs' = Replace(p, Stopped(p, "failed"))
           /\ \/ files' = files
              \/ p.groups # <<>> /\ files' = [files EXCEPT ![FileOf(p)] = Torn]
  <2> DEFINE q == Stopped(p, "failed")
  <2>1. /\ q.call = p.call /\ q.gen = p.gen /\ q.batch = p.batch /\ q.fold = p.fold
        /\ q.groups = p.groups /\ ~q.writing /\ q.code = "failed"
    BY <1>1, ChangedFacts
  <2> HIDE DEF q
  <2>2. procs' = Replace(p, q)
    BY <1>9 DEF q
  <2>3. OneInCharge'
    BY <1>2, <1>3, <1>7, <1>9, <2>1, <2>2, StillInCharge
  <2>4. OwnProcs'
    BY <1>8, <2>1, <2>2
  <2>5. QED BY <1>4, <2>3, <2>4 DEF OwnInv, FilesInv
<1>10. CASE /\ p.groups # <<>>
            /\ files' = [files EXCEPT ![FileOf(p)] = Written(p)]
            /\ \/ Len(p.groups) = 1 /\ procs' = Replace(p, Stopped(p, "ok"))
               \/ Len(p.groups) # 1 /\ procs' = Replace(p, Advanced(p))
  <2>1. p.groups \in Seq(Groups) /\ 1 \in DOMAIN p.groups
    BY <1>1, <1>10 DEF Processes
  <2>2. ASSUME NEW g \in GroupsOf(batch), g = p.groups[1], p.fold \in Folds PROVE Done(g, p.fold)'
    <3>1. FileOf(p) = <<gen, g, p.fold>> /\ Written(p) = RowsOf(batch, g) /\ <<gen, g, p.fold>> \in DOMAIN files
      BY <1>5, <1>6, <1>10, <2>2
    <3>2. files'[<<gen, g, p.fold>>] = RowsOf(batch, g)
      BY <1>10, <3>1
    <3>3. QED BY <1>2, <3>2 DEF Done
  <2>3. p.fold \in Folds
    BY <1>1 DEF Processes
  <2>4. ASSUME NEW g \in GroupsOf(batch), Done(g, p.fold) PROVE Done(g, p.fold)'
    <3>1. CASE g = p.groups[1]
      BY <2>2, <2>3, <3>1
    <3>2. CASE g # p.groups[1]
      <4>1. files'[<<gen, g, p.fold>>] = files[<<gen, g, p.fold>>]
        BY <1>7, <1>10, <2>3, <3>2
      <4>2. QED BY <1>2, <2>4, <4>1 DEF Done
    <3>3. QED BY <3>1, <3>2
  <2>5. CASE Len(p.groups) = 1 /\ procs' = Replace(p, Stopped(p, "ok"))
    <3> DEFINE q == Stopped(p, "ok")
    <3>1. /\ q.call = p.call /\ q.gen = p.gen /\ q.batch = p.batch /\ q.fold = p.fold
          /\ q.groups = p.groups /\ ~q.writing /\ q.code = "ok"
      BY <1>1, ChangedFacts
    <3> HIDE DEF q
    <3>2. procs' = Replace(p, q)
      BY <2>5 DEF q
    <3>3. ASSUME NEW g \in GroupsOf(batch), Done(g, p.fold) \/ p.code = "failed" \/ (p.code = "running" /\ Ahead(p, g))
          PROVE  Done(g, p.fold)'
      <4>1. CASE Done(g, p.fold)
        BY <2>4, <4>1
      <4>2. CASE Ahead(p, g)
        <5>1. g = p.groups[1]
          BY <2>1, <2>5, <4>2 DEF Ahead
        <5>2. QED BY <2>2, <2>3, <5>1
      <4>3. QED BY <1>1, <3>3, <4>1, <4>2
    <3>4. OneInCharge'
      BY <1>2, <1>3, <1>7, <1>10, <3>1, <3>2, <3>3, StillInCharge
    <3>5. OwnProcs'
      BY <1>8, <3>1, <3>2
    <3>6. QED BY <1>4, <3>4, <3>5 DEF OwnInv, FilesInv
  <2>6. CASE Len(p.groups) # 1 /\ procs' = Replace(p, Advanced(p))
    <3> DEFINE q == Advanced(p)
    <3>1. /\ q.call = p.call /\ q.gen = p.gen /\ q.batch = p.batch /\ q.fold = p.fold
          /\ q.groups = Tail(p.groups) /\ ~q.writing /\ q.code = p.code
      BY <1>1, <1>10, ChangedFacts
    <3> HIDE DEF q
    <3>2. procs' = Replace(p, q)
      BY <2>6 DEF q
    <3>3. ASSUME NEW g \in GroupsOf(batch), Done(g, p.fold) \/ p.code = "failed" \/ (p.code = "running" /\ Ahead(p, g))
          PROVE  Done(g, p.fold)' \/ (q.code = "running" /\ Ahead(q, g))
      <4>1. CASE Done(g, p.fold)
        BY <2>4, <4>1
      <4>2. CASE Ahead(p, g)
        <5>1. PICK k \in DOMAIN p.groups : p.groups[k] = g
          BY <4>2 DEF Ahead
        <5>2. CASE k = 1
          BY <2>2, <2>3, <5>1, <5>2
        <5>3. CASE k # 1
          <6>1. k - 1 \in DOMAIN Tail(p.groups) /\ Tail(p.groups)[k - 1] = p.groups[k]
            BY <1>10, <2>1, <5>1, <5>3
          <6>2. QED BY <1>1, <3>1, <5>1, <6>1 DEF Ahead
        <5>4. QED BY <5>2, <5>3
      <4>3. QED BY <1>1, <3>3, <4>1, <4>2
    <3>4. manifest
      BY <1>1, <1>3, <2>6 DEF OneInCharge
    <3>5. OneInCharge'
      BY <1>2, <1>3, <1>7, <1>10, <3>1, <3>2, <3>3, <3>4, StillInCharge
    <3>6. OwnProcs'
      BY <1>8, <3>1, <3>2
    <3>7. QED BY <1>4, <3>5, <3>6 DEF OwnInv, FilesInv
  <2>7. QED BY <1>10, <2>5, <2>6
<1>11. QED BY <1>9, <1>10, OwnStep

LEMMA OwnInit == Init => OwnInv
BY DEF Init, OwnInv, OwnProcs, FilesInv, OwnScores

LEMMA OwnNext == TypeInv /\ OwnInv /\ [Next]_vars => OwnInv'
<1> SUFFICES ASSUME TypeInv, OwnInv, [Next]_vars, lost' = 0 PROVE OwnInv'
  BY DEF OwnInv, OwnProcs, FilesInv, OwnScores
<1>0. lost = 0
  BY NoneLost
<1>1. /\ pc # "wait" => procs = {}
      /\ \A p \in procs : p.call = calls /\ p.gen = gen /\ p.batch = batch /\ ~p.writing
      /\ pc = "wait" => OneInCharge
      /\ OwnScores
  BY <1>0 DEF OwnInv, OwnProcs, FilesInv
<1>2. procs \ Awaited = {}
  BY <1>1 DEF Awaited
<1>3. CASE Dispatch
  <2>1. PICK b \in Batches : scores' = Unscored(b)
    BY <1>3 DEF Dispatch
  <2>2. \A i \in DOMAIN scores', f \in Folds : scores'[i][f] = NoScore
    BY <2>1 DEF Unscored
  <2>3. OwnScores'
    BY <2>2 DEF OwnScores
  <2>4. procs' = {} /\ pc' = "resolve"
    BY <1>1, <1>3 DEF Dispatch
  <2>5. QED BY <2>3, <2>4 DEF OwnInv, OwnProcs, FilesInv
<1>4. CASE Resolve \/ EvaluateOnWorkers
  <2>1. procs' = {} /\ pc' # "wait" /\ UNCHANGED <<scores, batch, lost>>
    BY <1>1, <1>4 DEF Resolve, EvaluateOnWorkers, call
  <2>2. QED BY <1>1, <2>1 DEF OwnInv, OwnProcs, FilesInv, OwnScores
<1>5. CASE Spawn
  <2>1. /\ pc = "resolve" /\ procs' = IF manifest' THEN Manifests ELSE ParamBatches
        /\ UNCHANGED <<survivors, gen, batch, calls, scores, lost>> /\ manifest' \in BOOLEAN
    BY <1>1, <1>5 DEF Spawn, settings, call, TypeInv, SettingsOK
  <2>2. CallOK
    BY DEF TypeInv
  <2>3. /\ OneInCharge'
        /\ \A p \in procs' : p.call = calls /\ p.gen = gen /\ p.batch = batch /\ ~p.writing
    BY <2>1, <2>2, BegunInCharge
  <2>4. pc' = "wait"
    BY <1>5 DEF Spawn
  <2>5. QED BY <1>1, <2>1, <2>3, <2>4 DEF OwnInv, OwnProcs, FilesInv, OwnScores
<1>6. CASE Scatter
  <2>1. /\ Ended /\ scores' = [i \in DOMAIN batch |-> [f \in Folds |-> ScoreOf(i, f)]]
        /\ procs' = {} /\ pc' = "idle" /\ batch' = batch
    BY <1>2, <1>6 DEF Scatter, call
  <2>2. \A i \in DOMAIN batch, f \in Folds : ScoreOf(i, f) \in {NoScore, batch[i].exit}
    BY <1>0, <2>1, ScoreIsOwn
  <2>3. OwnScores'
    BY <2>1, <2>2 DEF OwnScores
  <2>4. QED BY <2>1, <2>3 DEF OwnInv, OwnProcs, FilesInv
<1>7. CASE FallBack
  <2>1. /\ pc = "wait" /\ procs' = ParamBatches /\ manifest' = FALSE
        /\ UNCHANGED <<survivors, gen, batch, calls, scores, lost, pc>>
    BY <1>2, <1>7 DEF FallBack, Ended, settings, call
  <2>2. CallOK
    BY DEF TypeInv
  <2>3. /\ OneInCharge'
        /\ \A p \in procs' : p.call = calls /\ p.gen = gen /\ p.batch = batch /\ ~p.writing
    BY <2>1, <2>2, BegunInCharge
  <2>4. QED BY <1>1, <2>1, <2>3 DEF OwnInv, OwnProcs, FilesInv, OwnScores
<1>8. CASE Raise \/ PrecomputeFails \/ Kill
  <2>1. Down /\ procs' = {}
    <3>1. ~Raise
      BY <1>0, ReadableFacts DEF Raise, Readable
    <3>2. QED BY <1>0, <1>1, <1>8, <3>1 DEF PrecomputeFails, Kill
  <2>2. pc' = "down" /\ DOMAIN scores' = {}
    BY <2>1 DEF Down, Unscored
  <2>3. QED BY <2>1, <2>2 DEF OwnInv, OwnProcs, FilesInv, OwnScores
<1>9. CASE Restart
  <2>1. procs' = {} /\ pc' = "idle" /\ UNCHANGED <<scores, batch, lost>>
    BY <1>1, <1>9 DEF Restart
  <2>2. QED BY <1>1, <2>1 DEF OwnInv, OwnProcs, FilesInv, OwnScores
<1>10. CASE Damage \/ UNCHANGED vars
  <2>1. UNCHANGED <<procs, pc, calls, gen, batch, files, manifest, survivors, scores, lost>>
    BY <1>10 DEF Damage, vars, settings, store, call
  <2>2. OneInCharge => OneInCharge'
    BY <2>1 DEF OneInCharge, For, Done, GroupsOf, Live
  <2>3. QED BY <1>1, <2>1, <2>2 DEF OwnInv, OwnProcs, FilesInv, OwnScores
<1>11. ASSUME NEW p \in procs, Evaluate(p) \/ WriteScores(p) \/ ProcessFails(p)
       PROVE  OwnInv'
  BY <1>0, <1>11, OwnProcessStep
<1>12. ASSUME NEW p \in procs, ProcessUnreaped(p)
       PROVE  OwnInv'
  BY <1>0, <1>12 DEF ProcessUnreaped
<1>13. QED
  BY <1>3, <1>4, <1>5, <1>6, <1>7, <1>8, <1>9, <1>10, <1>11, <1>12
  DEF Next, Progress, ProcessStep

LEMMA CacheInit == Init => CacheInv
<1>1. ASSUME Init PROVE CacheInv
  <2>1. cache = <<>> /\ limits \in LimitsSet
    BY <1>1 DEF Init
  <2>2. limits.entries \in Nat /\ limits.bytes \in Nat
    BY <2>1, LimitsAssumption
  <2>3. Len(cache) = 0 /\ DOMAIN cache = {} /\ cache \in Seq(Signals)
    BY <2>1
  <2>4. QED BY <2>2, <2>3 DEF CacheInv, CacheBounded, Distinct
<1>2. QED BY <1>1

LEMMA DispatchInvHolds == Spec => [](TypeInv /\ CacheInv /\ OwnInv)
<1>1. Init => TypeInv /\ CacheInv /\ OwnInv
  BY TypeInit, CacheInit, OwnInit
<1>2. TypeInv /\ CacheInv /\ OwnInv /\ [Next]_vars => (TypeInv /\ CacheInv /\ OwnInv)'
  BY TypeStep, OwnNext
<1>3. QED BY <1>1, <1>2, PTL DEF Spec

\* A score is that of the candidate it is given to, whatever other branches, generations
\* or groups have left in the directories, unless a process was killed and not reaped,
\* or outlived a killed orchestrator (_read_fold_scores, _dispatch_grouped).
THEOREM ScoresAreOwn == Spec => []OwnScores
<1>1. TypeInv /\ CacheInv /\ OwnInv => OwnScores
  BY DEF OwnInv
<1>2. QED BY <1>1, DispatchInvHolds, PTL

----------------------------------------------------------------------------
(* Without a fault, what fits in the cache is scored.                      *)

\* The elements of a sequence are finitely many.
LEMMA FiniteRange ==
  ASSUME NEW S, NEW s \in Seq(S)
  PROVE  IsFiniteSet(ToSet(s))
<1>1. s \in Surjection(1 .. Len(s), ToSet(s))
  BY DEF Surjection, ToSet
<1>2. IsFiniteSet(1 .. Len(s))
  <2>1. 1 \in Int /\ Len(s) \in Int
    OBVIOUS
  <2>2. QED BY <2>1, FS_Interval
<1>3. QED BY <1>1, <1>2, FS_Surjection

LEMMA NoFaultsSoFar ==
  ASSUME TypeInv, [Next]_vars, faults' = 0
  PROVE  /\ faults = 0 /\ lost = 0
         /\ ~PrecomputeFails /\ ~Kill /\ ~Damage
         /\ \A p : ~ProcessFails(p) /\ ~ProcessUnreaped(p)
<1>1. faults \in Nat /\ lost \in 0 .. faults
  BY Bounds DEF TypeInv, CountersOK
<1>2. faults' = faults \/ faults' = faults + 1
  BY DEF Next, vars, Dispatch, Progress, ProcessStep, Resolve, Spawn, EvaluateOnWorkers, Scatter, FallBack,
         Raise, Evaluate, WriteScores, ProcessFails, ProcessUnreaped, PrecomputeFails, Kill, Restart, Damage
<1>3. faults = 0 /\ lost = 0
  BY <1>1, <1>2
<1>4. faults' # faults + 1
  BY <1>3
<1>5. QED
  BY <1>3, <1>4 DEF PrecomputeFails, Kill, Damage, ProcessFails, ProcessUnreaped

\* The processes that a call begins are at work, and the data they need is there.
LEMMA BegunAtWork ==
  ASSUME CallOK, pc \in {"resolve", "wait"}, UNCHANGED <<survivors, gen, batch, calls>>,
         procs' = Manifests \/ procs' = ParamBatches
  PROVE  ProcsAtWork' /\ \A p \in procs' : p.code = "running"
<1>1. batch \in Batches
  BY DEF CallOK
<1>2. GroupsOf(batch)' = GroupsOf(batch)
  BY DEF GroupsOf, Live
<1>3. ASSUME NEW p \in procs'
      PROVE  /\ p.code = "running"
             /\ \A k \in DOMAIN p.groups : p.groups[k] \in GroupsOf(batch)
             /\ p.groups = <<>> => GroupsOf(batch) = {}
  <2>1. CASE p \in Manifests
    <3>1. p.groups = InOrder(batch) /\ p.code = "running"
      BY <2>1 DEF Manifests, Process
    <3>2. DOMAIN <<>> = {}
      OBVIOUS
    <3>3. QED BY <1>1, <3>1, <3>2, OrderFacts
  <2>2. CASE p \in ParamBatches
    <3>1. PICK f \in Folds, g \in GroupsOf(batch) : p = Process(f, <<g>>)
      BY SMTT(30), <2>2 DEF ParamBatches
    <3>2. p.groups = Alone(g) /\ p.code = "running"
      BY <3>1 DEF Process, Alone
    <3>3. Alone(g) # <<>> /\ \A k \in DOMAIN Alone(g) : Alone(g)[k] = g
      BY DEF Alone
    <3>4. QED BY <3>1, <3>2, <3>3
  <2>3. QED BY <2>1, <2>2
<1>4. QED BY <1>2, <1>3 DEF ProcsAtWork

\* All that survived is scored, when no process has failed.
LEMMA AllScored ==
  ASSUME TypeInv, OwnInv, lost = 0, Ended, \A p \in procs : p.code = "failed" => GroupsOf(batch) = {},
         NEW i \in DOMAIN batch, NEW f \in Folds
  PROVE  ScoreOf(i, f) # NoScore <=> batch[i].group \in survivors
<1> DEFINE g == batch[i].group
<1>1. batch \in Batches /\ pc = "wait"
  BY DEF TypeInv, CallOK, Ended
<1>2. g \in GroupsOf(batch) <=> g \in survivors
  BY DEF GroupsOf, Live
<1>3. CASE g \notin survivors
  BY <1>2, <1>3 DEF ScoreOf
<1>4. CASE g \in survivors
  <2>1. g \in GroupsOf(batch)
    BY <1>2, <1>4
  <2>2. \A p \in procs : p.code # "failed"
    BY <2>1
  <2>3. Succeeded(g, f)
    BY <2>2 DEF Succeeded, Awaited, Ended, TypeInv, ProcsInv, Processes
  <2>4. OneInCharge /\ \A p \in procs : p.call = calls
    BY <1>1 DEF OwnInv, OwnProcs, FilesInv
  <2>5. PICK p \in procs : Done(g, f) \/ p.code = "failed" \/ (p.code = "running" /\ Ahead(p, g))
    BY <2>1, <2>4 DEF OneInCharge
  <2>6. p.code # "running"
    BY <2>4 DEF Ended, Awaited
  <2>7. files[<<gen, g, f>>] = RowsOf(batch, g)
    BY <2>2, <2>5, <2>6 DEF Done
  <2>8. RowsOf(batch, g) \in Seq(Exits)
    BY <1>1, <2>1, BatchFacts, RowsFacts
  <2>9. RowsOf(batch, g) # NoFile
    BY <2>8, NoMarks
  <2>10. Available(g, f)
    BY <2>3, <2>7, <2>9 DEF Available
  <2>11. ScoreOf(i, f) = batch[i].exit
    BY <2>1, <2>10, ScoreIsOwn
  <2>12. batch[i].exit \in Exits
    BY <1>1, BatchFacts
  <2>13. QED BY <1>4, <2>11, <2>12, ExitsAssumption DEF NoScore
<1>5. QED BY <1>3, <1>4

LEMMA WorkInit == Init => WorkInv
BY DEF Init, WorkInv, ProcsAtWork

\* A process that goes on without faults: it fails only where there is nothing to score.
LEMMA WorkProcessStep ==
  ASSUME TypeInv, OwnInv, WorkInv, lost = 0, faults = 0, NEW p \in procs, Evaluate(p)
  PROVE  WorkInv'
<1>1. /\ pc = "wait" /\ Own(p) /\ p.batch = batch /\ p.code = "running" /\ p \in Processes /\ Sound(p)
  BY OwnStep
<1>2. UNCHANGED <<limits, persistent, survivors, cache, bad, pc, manifest, batch, calls, faults>>
  BY DEF Evaluate, settings, call
<1>3. GroupsOf(batch)' = GroupsOf(batch) /\ SignalsOf(batch)' = SignalsOf(batch)
  BY <1>2 DEF GroupsOf, SignalsOf, Live
<1>4. AllFit(batch)' <=> AllFit(batch)
  BY <1>2, <1>3 DEF AllFit
<1>5. ProcsAtWork /\ bad = {} /\ (AllFit(batch) /\ ~persistent => Loaded)
  BY <1>1 DEF WorkInv
<1>6. p.groups \in Seq(Groups)
  BY <1>1 DEF Processes
<1>7. ASSUME NEW q, procs' = Replace(p, q),
             \A k \in DOMAIN q.groups : q.groups[k] \in GroupsOf(batch),
             q.groups = <<>> => GroupsOf(batch) = {},
             AllFit(batch) /\ ~persistent /\ q.code = "failed" => GroupsOf(batch) = {}
      PROVE  WorkInv'
  <2>1. \A a \in procs' : a = q \/ a \in procs
    BY <1>7 DEF Replace
  <2>2. ProcsAtWork'
    BY <1>3, <1>5, <1>7, <2>1 DEF ProcsAtWork
  <2>3. AllFit(batch) /\ ~persistent => Loaded'
    BY <1>2, <1>3, <1>5, <1>7, <2>1 DEF Loaded
  <2>4. QED BY <1>1, <1>2, <1>4, <1>5, <2>2, <2>3 DEF WorkInv
<1>8. \A code : Exited(p, code) => procs' = Replace(p, Stopped(p, code))
  BY <1>1 DEF Exited, Stopped
<1>9. ASSUME NEW code \in {"ok", "failed"}, procs' = Replace(p, Stopped(p, code)),
             code = "failed" => (AllFit(batch) /\ ~persistent => GroupsOf(batch) = {})
      PROVE  WorkInv'
  <2>1. Stopped(p, code).groups = p.groups /\ Stopped(p, code).code = code
    BY <1>1, ChangedFacts
  <2>2. /\ \A k \in DOMAIN p.groups : p.groups[k] \in GroupsOf(batch)
        /\ p.groups = <<>> => GroupsOf(batch) = {}
    BY <1>5 DEF ProcsAtWork
  <2> DEFINE q == Stopped(p, code)
  <2>3. q.groups = p.groups /\ q.code = code /\ procs' = Replace(p, q)
    BY <1>9, <2>1
  <2> HIDE DEF q
  <2>4. QED BY <1>7, <1>9, <2>2, <2>3
<1>10. CASE p.groups = <<>> \/ ~Loadable(Head(p.groups))
  <2>1. procs' = Replace(p, Stopped(p, "failed"))
    BY <1>8, <1>10 DEF Evaluate
  <2>2. AllFit(batch) /\ ~persistent => GroupsOf(batch) = {}
    <3>1. SUFFICES ASSUME AllFit(batch), ~persistent, p.groups # <<>> PROVE FALSE
      BY <1>5 DEF ProcsAtWork
    <3>2. Head(p.groups) \in GroupsOf(batch)
      <4>1. Head(p.groups) = p.groups[1] /\ 1 \in DOMAIN p.groups
        BY <1>6, <3>1
      <4>2. QED BY <1>5, <4>1 DEF ProcsAtWork
    <3>3. SignalOf[Head(p.groups)] \in ToSet(cache)
      BY <1>5, <3>1, <3>2 DEF Loaded, SignalsOf
    <3>4. cache \in Seq(Signals)
      BY DEF TypeInv, StoreOK
    <3>5. Contains(cache, SignalOf[Head(p.groups)])
      BY <3>3, <3>4 DEF Contains, ToSet
    <3>6. QED BY <1>5, <1>10, <3>1, <3>5 DEF Loadable
  <2>3. QED BY <1>9, <2>1, <2>2
<1>11. CASE ~(p.groups = <<>> \/ ~Loadable(Head(p.groups)))
  <2>1. NextGroup(p)
    BY <1>1, <1>11 DEF Evaluate
  <2>2. CASE Len(p.groups) = 1
    BY <1>8, <1>9, <2>1, <2>2 DEF NextGroup
  <2>3. CASE Len(p.groups) # 1
    <3>1. procs' = Replace(p, Advanced(p))
      BY <2>1, <2>3 DEF NextGroup, Advanced
    <3>2. Advanced(p).groups = Tail(p.groups) /\ Advanced(p).code = "running"
      BY <1>1, <1>11, ChangedFacts
    <3>3. /\ Len(Tail(p.groups)) = Len(p.groups) - 1 /\ Tail(p.groups) \in Seq(Groups)
          /\ \A k \in 1 .. Len(Tail(p.groups)) : Tail(p.groups)[k] = p.groups[k + 1]
      BY <1>6, <1>11, HeadTailProperties
    <3>4. \A k \in DOMAIN Tail(p.groups) : k + 1 \in DOMAIN p.groups /\ Tail(p.groups)[k] = p.groups[k + 1]
      BY <1>6, <3>3
    <3>5. Tail(p.groups) # <<>>
      <4>1. Len(p.groups) \in Nat /\ Len(p.groups) # 0
        BY <1>6, <1>11
      <4>2. Len(Tail(p.groups)) # 0
        BY <2>3, <3>3, <4>1
      <4>3. Len(<<>>) = 0
        OBVIOUS
      <4>4. QED BY <4>2, <4>3
    <3>6. \A k \in DOMAIN Tail(p.groups) : Tail(p.groups)[k] \in GroupsOf(batch)
      BY <1>5, <3>4 DEF ProcsAtWork
    <3> DEFINE q == Advanced(p)
    <3>7. q.groups = Tail(p.groups) /\ q.code = "running" /\ procs' = Replace(p, q)
      BY <3>1, <3>2
    <3> HIDE DEF q
    <3>8. QED BY <1>7, <3>5, <3>6, <3>7
  <2>4. QED BY <2>2, <2>3
<1>12. QED BY <1>10, <1>11

\* The next signal set is in the cache with those that were resolved before it.
LEMMA WorkResolve ==
  ASSUME TypeInv, CacheInv, WorkInv, faults = 0, procs = {}, Resolve
  PROVE  WorkInv'
<1> DEFINE s == Head(todo)
<1>1. UNCHANGED <<settings, pc, batch, calls, procs, faults>> /\ pc = "resolve"
      /\ bad' = (bad \ {s}) \intersect ToSet(cache')
  BY DEF Resolve
<1>2. /\ todo # <<>> /\ todo' = Tail(todo) /\ s \in Signals
      /\ \A S : /\ Latest(cache, S) /\ IsFiniteSet(S \union {s})
                /\ limits.entries <= limits.bytes
                /\ Cardinality(S \union {s}) <= limits.entries
                => Latest(cache', S \union {s})
  BY ResolveFacts
<1>3. bad' = {}
  BY <1>1 DEF WorkInv
<1>4. batch \in Batches /\ todo \in Seq(Signals) /\ limits \in LimitsSet
  BY <1>1 DEF TypeInv, CallOK, SettingsOK
<1>5. SignalsOf(batch)' = SignalsOf(batch)
  BY <1>1 DEF SignalsOf, GroupsOf, Live, settings
<1>6. /\ s \in ToSet(todo) /\ ToSet(todo') \subseteq ToSet(todo)
      /\ ToSet(todo) \subseteq ToSet(todo') \union {s}
  <2>1. /\ s = todo[1] /\ 1 \in DOMAIN todo
    BY <1>2, <1>4
  <2>2. /\ Tail(todo) \in Seq(Signals) /\ Len(Tail(todo)) = Len(todo) - 1
        /\ \A k \in 1 .. Len(Tail(todo)) : Tail(todo)[k] = todo[k + 1]
    BY <1>2, <1>4, HeadTailProperties
  <2>3. \A k \in DOMAIN Tail(todo) : k + 1 \in DOMAIN todo /\ Tail(todo)[k] = todo[k + 1]
    BY <1>4, <2>2
  <2>4. \A k \in DOMAIN todo : k # 1 => k - 1 \in DOMAIN Tail(todo) /\ Tail(todo)[k - 1] = todo[k]
    BY <1>4, <2>2
  <2>5. QED BY <1>2, <2>1, <2>3, <2>4 DEF ToSet
<1> HIDE DEF s
<1>7. ASSUME AllFit(batch), ~persistent PROVE Resolved'
  <2>1. PICK S \in SUBSET SignalsOf(batch) :
          Latest(cache, S) /\ SignalsOf(batch) \subseteq S \union ToSet(todo)
    BY <1>1, <1>7 DEF WorkInv, Resolved
  <2>2. ToSet(todo) \subseteq SignalsOf(batch)
    BY <1>1, <1>7 DEF WorkInv, Resolved
  <2>3. S \union {s} \in SUBSET SignalsOf(batch)
    BY <1>6, <2>2
  <2>4. IsFiniteSet(SignalsOf(batch))
    <3>1. Unresolved(batch) \in Seq(Signals) /\ ToSet(Unresolved(batch)) = SignalsOf(batch)
      BY <1>4, OrderFacts
    <3>2. QED BY <3>1, FiniteRange
  <2>5. IsFiniteSet(S \union {s}) /\ Cardinality(S \union {s}) <= Cardinality(SignalsOf(batch))
    BY <2>3, <2>4, FS_Subset
  <2>6. Cardinality(S \union {s}) <= limits.entries /\ limits.entries <= limits.bytes
    <3>1. Cardinality(S \union {s}) \in Nat /\ Cardinality(SignalsOf(batch)) \in Nat
      BY <2>4, <2>5, FS_CardinalityType
    <3>2. limits.entries \in Nat
      BY <1>4, LimitsAssumption
    <3>3. QED BY <1>7, <2>5, <3>1, <3>2 DEF AllFit
  <2>7. Latest(cache', S \union {s})
    BY <1>2, <2>1, <2>5, <2>6
  <2>8. SignalsOf(batch) \subseteq (S \union {s}) \union ToSet(todo')
    BY <1>6, <2>1
  <2>9. QED BY <1>5, <1>6, <2>2, <2>3, <2>7, <2>8 DEF Resolved
<1>8. AllFit(batch)' => AllFit(batch)
  BY <1>1, <1>5 DEF AllFit, settings
<1>9. ProcsAtWork'
  BY <1>1 DEF ProcsAtWork
<1>10. QED BY <1>1, <1>3, <1>7, <1>8, <1>9 DEF WorkInv, settings

LEMMA WorkNext == TypeInv /\ CacheInv /\ OwnInv /\ WorkInv /\ [Next]_vars => WorkInv'
<1> SUFFICES ASSUME TypeInv, CacheInv, OwnInv, WorkInv, [Next]_vars, faults' = 0 PROVE WorkInv'
  BY DEF WorkInv
<1>0. /\ faults = 0 /\ lost = 0
      /\ ~PrecomputeFails /\ ~Kill /\ ~Damage
      /\ \A p : ~ProcessFails(p) /\ ~ProcessUnreaped(p)
  BY NoFaultsSoFar
<1>1. /\ bad = {} /\ pc # "down" /\ ProcsAtWork
      /\ AllFit(batch) /\ ~persistent =>
           /\ pc = "resolve" => Resolved
           /\ pc = "wait" => Loaded
           /\ pc = "idle" /\ calls # 0 => Complete
  BY <1>0 DEF WorkInv
<1>2. /\ pc # "wait" => procs = {}
      /\ \A p \in procs : p.call = calls /\ ~p.writing
  BY <1>0 DEF OwnInv, OwnProcs
<1>3. CASE Dispatch
  <2>1. PICK b \in Batches : batch' = b /\ todo' = Unresolved(b)
    BY <1>3 DEF Dispatch
  <2>2. procs' = {} /\ pc' = "resolve" /\ bad' = {} /\ UNCHANGED <<cache, survivors>>
    BY <1>1, <1>2, <1>3 DEF Dispatch, store, settings
  <2>3. ToSet(todo') = SignalsOf(b)
    BY <2>1, OrderFacts
  <2>4. SignalsOf(batch)' = SignalsOf(b)
    BY <2>1, <2>2 DEF SignalsOf, GroupsOf, Live
  <2>5. Latest(cache', {})
    BY DEF Latest
  <2>6. Resolved'
    BY <2>3, <2>4, <2>5 DEF Resolved
  <2>7. QED BY <2>2, <2>6 DEF WorkInv, ProcsAtWork
<1>4. CASE Resolve
  BY <1>0, <1>2, <1>4, WorkResolve DEF Resolve
<1>5. CASE Spawn
  <2>1. /\ pc = "resolve" /\ pc' = "wait" /\ todo = <<>>
        /\ UNCHANGED <<limits, persistent, survivors, gen, batch, calls, bad, cache>>
        /\ procs' = Manifests \/ procs' = ParamBatches
    BY <1>2, <1>5 DEF Spawn, settings, store, call
  <2>2. CallOK
    BY DEF TypeInv
  <2>3. ProcsAtWork' /\ \A p \in procs' : p.code = "running"
    BY <2>1, <2>2, BegunAtWork
  <2>4. GroupsOf(batch)' = GroupsOf(batch) /\ SignalsOf(batch)' = SignalsOf(batch)
    BY <2>1 DEF GroupsOf, SignalsOf, Live
  <2>5. AllFit(batch)' => AllFit(batch)
    BY <2>1, <2>4 DEF AllFit
  <2>6. ASSUME AllFit(batch), ~persistent PROVE Loaded'
    <3>1. PICK S \in SUBSET SignalsOf(batch) :
            Latest(cache, S) /\ SignalsOf(batch) \subseteq S \union ToSet(todo)
      BY <1>1, <2>1, <2>6 DEF Resolved
    <3>2. ToSet(todo) = {}
      BY <2>1 DEF ToSet
    <3>3. SignalsOf(batch) \subseteq ToSet(cache)
      BY <3>1, <3>2 DEF Latest, ToSet
    <3>4. QED BY <2>1, <2>3, <2>4, <3>3 DEF Loaded
  <2>7. QED BY <1>1, <2>1, <2>3, <2>5, <2>6 DEF WorkInv
<1>6. CASE EvaluateOnWorkers
  <2>1. /\ persistent /\ pc' = "idle" /\ procs' = {}
        /\ UNCHANGED <<persistent, bad>>
    BY <1>2, <1>6 DEF EvaluateOnWorkers, settings, store
  <2>2. QED BY <1>1, <2>1 DEF WorkInv, ProcsAtWork
<1>7. CASE Scatter
  <2>1. /\ Ended /\ pc = "wait" /\ pc' = "idle"
        /\ scores' = [i \in DOMAIN batch |-> [f \in Folds |-> ScoreOf(i, f)]]
        /\ UNCHANGED <<limits, persistent, survivors, batch, bad>>
    BY <1>7 DEF Scatter, Ended, settings, store, call
  <2>2. procs' = {}
    BY <1>2, <1>7 DEF Scatter, Awaited
  <2>3. AllFit(batch)' => AllFit(batch)
    BY <2>1 DEF AllFit, SignalsOf, GroupsOf, Live
  <2>4. ASSUME AllFit(batch), ~persistent PROVE Complete'
    <3>1. \A p \in procs : p.code = "failed" => GroupsOf(batch) = {}
      BY <1>1, <2>1, <2>4 DEF Loaded
    <3>2. \A i \in DOMAIN batch, f \in Folds : ScoreOf(i, f) # NoScore <=> batch[i].group \in survivors
      BY <1>0, <2>1, <3>1, AllScored
    <3>3. QED BY <2>1, <3>2 DEF Complete
  <2>5. QED BY <1>1, <2>1, <2>2, <2>3, <2>4 DEF WorkInv, ProcsAtWork
<1>8. CASE FallBack
  <2>1. /\ pc = "wait" /\ pc' = "wait" /\ procs' = ParamBatches
        /\ UNCHANGED <<limits, persistent, survivors, gen, batch, calls, bad, cache>>
    BY <1>2, <1>8 DEF FallBack, Ended, Awaited, settings, store, call
  <2>2. CallOK
    BY DEF TypeInv
  <2>3. ProcsAtWork' /\ \A p \in procs' : p.code = "running"
    BY <2>1, <2>2, BegunAtWork
  <2>4. GroupsOf(batch)' = GroupsOf(batch) /\ SignalsOf(batch)' = SignalsOf(batch)
    BY <2>1 DEF GroupsOf, SignalsOf, Live
  <2>5. AllFit(batch)' => AllFit(batch)
    BY <2>1, <2>4 DEF AllFit
  <2>6. AllFit(batch) /\ ~persistent => Loaded'
    BY <1>1, <2>1, <2>3, <2>4 DEF Loaded
  <2>7. QED BY <1>1, <2>1, <2>3, <2>5, <2>6 DEF WorkInv
<1>9. CASE Raise
  BY <1>0, <1>9, ReadableFacts DEF Raise, Readable
<1>10. CASE Restart
  BY <1>1, <1>10 DEF Restart
<1>11. CASE UNCHANGED vars
  <2>1. UNCHANGED <<limits, persistent, survivors, cache, bad, pc, procs, batch, todo, calls, scores, faults>>
    BY <1>11 DEF vars, settings, store, call
  <2>2. GroupsOf(batch)' = GroupsOf(batch) /\ SignalsOf(batch)' = SignalsOf(batch)
    BY <2>1 DEF GroupsOf, SignalsOf, Live
  <2>3. /\ ProcsAtWork' <=> ProcsAtWork
        /\ AllFit(batch)' <=> AllFit(batch)
        /\ Resolved' <=> Resolved
        /\ Loaded' <=> Loaded
        /\ Complete' <=> Complete
    BY <2>1, <2>2 DEF ProcsAtWork, AllFit, Resolved, Loaded, Complete
  <2>4. QED BY <1>1, <2>1, <2>3 DEF WorkInv
<1>12. ASSUME NEW p \in procs, Evaluate(p) PROVE WorkInv'
  BY <1>0, <1>12, WorkProcessStep
<1>13. ASSUME NEW p \in procs, WriteScores(p) PROVE WorkInv'
  BY <1>2, <1>13 DEF WriteScores
<1>14. QED
  BY <1>0, <1>3, <1>4, <1>5, <1>6, <1>7, <1>8, <1>9, <1>10, <1>11, <1>12, <1>13
  DEF Next, Progress, ProcessStep

LEMMA WorkInvHolds == Spec => [](TypeInv /\ CacheInv /\ WorkInv)
<1>1. Init => WorkInv
  BY WorkInit
<1>2. TypeInv /\ CacheInv /\ OwnInv /\ WorkInv /\ [Next]_vars => WorkInv'
  BY WorkNext
<1>3. QED BY <1>1, <1>2, DispatchInvHolds, PTL DEF Spec

\* Without a fault, a generation whose signal sets fit in the cache is scored completely:
\* the least recently used are evicted, and never what the call has just been given
\* (get_or_compute against _evict_if_needed, run_manifest_mode).
THEOREM FittingIsScored == Spec => []ScoredWhenItFits
<1>1. TypeInv /\ CacheInv /\ WorkInv => ScoredWhenItFits
  BY DEF WorkInv, ScoredWhenItFits, AllFit, Complete
<1>2. QED BY <1>1, WorkInvHolds, PTL
----------------------------------------------------------------------------
(* Sums.                                                                   *)

\* Induction up to n, for a set of numbers.
LEMMA Upwards ==
  ASSUME NEW n \in Nat, NEW G, 0 \in G, \A k \in 1 .. n : k - 1 \in G => k \in G
  PROVE  \A k \in 0 .. n : k \in G
<1> DEFINE T == (0 .. n) \ G
<1>1. SUFFICES ASSUME T # {} PROVE FALSE
  OBVIOUS
<1>2. PICK k \in T : \A l \in T : k <= l
  <2>1. T \in SUBSET Nat
    OBVIOUS
  <2>2. QED BY <1>1, <2>1, LeastElement
<1>3. k \in 1 .. n /\ k - 1 \in 0 .. n /\ k \notin G
  BY <1>2
<1>4. k - 1 \in G
  <2>1. ~(k <= k - 1)
    BY <1>3
  <2>2. QED BY <1>2, <1>3, <2>1
<1>5. QED BY <1>3, <1>4

\* A function is defined by its first value and by how each value follows from the one
\* before.
Follows(f, b, step, n) == f[0] = b /\ \A k \in 1 .. n : f[k] = step[<<k, f[k - 1]>>]

\* There is a function for every first value and every step, up to any number.
LEMMA RecursionExists ==
  ASSUME NEW n \in Nat, NEW V, NEW b \in V, NEW step \in [(1 .. n) \X V -> V]
  PROVE  \E f \in [0 .. n -> V] : Follows(f, b, step, n)
<1> DEFINE G == {m \in 0 .. n : \E f \in [0 .. m -> V] : Follows(f, b, step, m)}
<1>1. 0 \in G
  <2> DEFINE f == [k \in 0 .. 0 |-> b]
  <2>1. f \in [0 .. 0 -> V] /\ Follows(f, b, step, 0)
    BY DEF Follows
  <2> HIDE DEF f
  <2>2. QED BY <2>1
<1>2. ASSUME NEW m \in 1 .. n, m - 1 \in G PROVE m \in G
  <2>1. PICK f \in [0 .. (m - 1) -> V] : Follows(f, b, step, m - 1)
    BY <1>2
  <2> DEFINE x == step[<<m, f[m - 1]>>]
             g == [k \in 0 .. m |-> IF k = m THEN x ELSE f[k]]
  <2>2. f[m - 1] \in V /\ x \in V
    OBVIOUS
  <2>3. g \in [0 .. m -> V]
    <3> HIDE DEF x
    <3>1. \A k \in 0 .. m : k # m => k \in 0 .. (m - 1)
      OBVIOUS
    <3>2. QED BY <2>2, <3>1
  <2>4. g[m] = x /\ \A k \in 0 .. (m - 1) : g[k] = f[k]
    <3> HIDE DEF x
    <3>1. QED OBVIOUS
  <2> HIDE DEF g
  <2>5. g[0] = b
    BY <2>1, <2>4 DEF Follows
  <2>6. ASSUME NEW k \in 1 .. m PROVE g[k] = step[<<k, g[k - 1]>>]
    <3>1. k - 1 \in 0 .. (m - 1)
      OBVIOUS
    <3>2. g[k - 1] = f[k - 1]
      BY <2>4, <3>1
    <3>3. CASE k = m
      BY <2>4, <3>2, <3>3
    <3>4. CASE k # m
      <4>1. k \in 1 .. (m - 1) /\ k \in 0 .. (m - 1)
        BY <3>4
      <4>2. f[k] = step[<<k, f[k - 1]>>]
        BY <2>1, <4>1 DEF Follows
      <4>3. QED BY <2>4, <3>2, <4>1, <4>2
    <3>5. QED BY <3>3, <3>4
  <2>7. Follows(g, b, step, m)
    BY <2>5, <2>6 DEF Follows
  <2>8. QED BY <2>3, <2>7
<1>3. \A m \in 0 .. n : m \in G
  <2> HIDE DEF G
  <2>1. QED BY <1>1, <1>2, Upwards
<1>4. QED BY <1>3

SumsOf(s, P) ==
  LET upTo[n \in 0 .. Len(s)] == IF n = 0 THEN 0 ELSE upTo[n - 1] + IF n \in P THEN s[n] ELSE 0
  IN  upTo

SumsBy(s, P) == CHOOSE upTo : upTo = [n \in 0 .. Len(s) |->
  IF n = 0 THEN 0 ELSE upTo[n - 1] + IF n \in P THEN s[n] ELSE 0]

\* The sums of the beginnings of a sequence.
LEMMA SumsFacts ==
  ASSUME NEW s \in Seq(Nat), NEW P
  PROVE  /\ SumAt(s, P) = SumsOf(s, P)[Len(s)]
         /\ SumsOf(s, P)[0] = 0
         /\ \A n \in 1 .. Len(s) :
              SumsOf(s, P)[n] = SumsOf(s, P)[n - 1] + IF n \in P THEN s[n] ELSE 0
         /\ \A n \in 0 .. Len(s) : SumsOf(s, P)[n] \in Nat
<1> DEFINE m == Len(s)
           step == [p \in (1 .. m) \X Nat |-> p[2] + IF p[1] \in P THEN s[p[1]] ELSE 0]
           Grown(f) == [n \in 0 .. m |-> IF n = 0 THEN 0 ELSE f[n - 1] + IF n \in P THEN s[n] ELSE 0]
<1>0. m \in Nat /\ \A n \in 1 .. m : s[n] \in Nat
  OBVIOUS
<1>1. SumsOf(s, P) = Grown(SumsOf(s, P))
  <2>1. step \in [(1 .. m) \X Nat -> Nat]
    <3> HIDE DEF m
    <3>1. \A p \in (1 .. m) \X Nat : p[2] \in Nat /\ p[1] \in 1 .. m
      OBVIOUS
    <3>2. \A p \in (1 .. m) \X Nat : p[2] + (IF p[1] \in P THEN s[p[1]] ELSE 0) \in Nat
      BY <1>0, <3>1
    <3>3. QED BY <3>2
  <2>2. PICK f \in [0 .. m -> Nat] : Follows(f, 0, step, m)
    <3> HIDE DEF step, m
    <3>1. QED BY <1>0, <2>1, RecursionExists
  <2>3. f = Grown(f)
    <3> HIDE DEF m
    <3>1. ASSUME NEW n \in 1 .. m
          PROVE  f[n] = f[n - 1] + IF n \in P THEN s[n] ELSE 0
      <4>1. n - 1 \in 0 .. m /\ f[n] = step[<<n, f[n - 1]>>]
        <5> HIDE DEF step
        <5>1. QED BY <1>0, <2>2 DEF Follows
      <4>2. <<n, f[n - 1]>> \in (1 .. m) \X Nat
        BY <4>1
      <4>3. QED BY <4>1, <4>2
    <3>2. f[0] = 0 /\ \A n \in 0 .. m : n # 0 => n \in 1 .. m
      BY <1>0, <2>2 DEF Follows
    <3>3. QED BY <3>1, <3>2
  <2>4. \E a : a = Grown(a)
    BY <2>3
  <2>5. SumsBy(s, P) = Grown(SumsBy(s, P))
    BY <2>4, Zenon DEF SumsBy
  <2>6. QED BY <2>5, Zenon DEF SumsOf, SumsBy
<1>2. SumAt(s, P) = SumsOf(s, P)[Len(s)]
  BY DEF SumAt, SumsOf
<1> HIDE DEF SumsOf
<1>3. Len(s) \in Nat
  OBVIOUS
<1>4. /\ SumsOf(s, P)[0] = 0
      /\ \A n \in 1 .. Len(s) :
           SumsOf(s, P)[n] = SumsOf(s, P)[n - 1] + IF n \in P THEN s[n] ELSE 0
  BY SMTT(30), <1>1, <1>3
<1> DEFINE G == {n \in 0 .. Len(s) : SumsOf(s, P)[n] \in Nat}
<1>5. 0 \in G
  BY <1>3, <1>4
<1>6. ASSUME NEW n \in 1 .. Len(s), n - 1 \in G PROVE n \in G
  <2>1. s[n] \in Nat /\ SumsOf(s, P)[n - 1] \in Nat
    BY <1>6
  <2>2. SumsOf(s, P)[n] = SumsOf(s, P)[n - 1] + IF n \in P THEN s[n] ELSE 0
    BY <1>4
  <2>3. SumsOf(s, P)[n] \in Nat
    <3>1. CASE n \in P
      BY <2>1, <2>2, <3>1
    <3>2. CASE n \notin P
      BY <2>1, <2>2, <3>2
    <3>3. QED BY <3>1, <3>2
  <2>4. QED BY <2>3
<1>7. \A n \in 0 .. Len(s) : n \in G
  <2> HIDE DEF G
  <2>1. QED BY <1>3, <1>5, <1>6, Upwards
<1>8. QED BY <1>2, <1>4, <1>7

\* A sum is a natural number, and that of nothing is zero.
LEMMA SumFacts ==
  ASSUME NEW s \in Seq(Nat), NEW P
  PROVE  SumAt(s, P) \in Nat /\ SumAt(s, {}) = 0
<1>1. Len(s) \in Nat
  OBVIOUS
<1>2. SumAt(s, P) \in Nat
  BY <1>1, SumsFacts
<1>3. /\ SumAt(s, {}) = SumsOf(s, {})[Len(s)] /\ SumsOf(s, {})[0] = 0
      /\ \A n \in 1 .. Len(s) :
              SumsOf(s, {})[n] = SumsOf(s, {})[n - 1] + IF n \in {} THEN s[n] ELSE 0
  BY SumsFacts
<1> DEFINE G == {n \in 0 .. Len(s) : SumsOf(s, {})[n] = 0}
<1>4. 0 \in G /\ \A n \in 1 .. Len(s) : n - 1 \in G => n \in G
  BY <1>1, <1>3
<1>5. \A n \in 0 .. Len(s) : n \in G
  <2> HIDE DEF G
  <2>1. QED BY <1>1, <1>4, Upwards
<1>6. QED BY <1>1, <1>2, <1>3, <1>5

\* The sum over two disjoint sets of positions.
LEMMA SumOfBoth ==
  ASSUME NEW s \in Seq(Nat), NEW P, NEW Q, P \intersect Q = {}
  PROVE  SumAt(s, P \union Q) = SumAt(s, P) + SumAt(s, Q)
<1>1. Len(s) \in Nat
  OBVIOUS
<1> DEFINE G == {n \in 0 .. Len(s) : SumsOf(s, P \union Q)[n] = SumsOf(s, P)[n] + SumsOf(s, Q)[n]}
<1>2. 0 \in G
  BY <1>1, SumsFacts
<1>3. ASSUME NEW n \in 1 .. Len(s), n - 1 \in G PROVE n \in G
  <2>1. /\ SumsOf(s, P)[n] = SumsOf(s, P)[n - 1] + IF n \in P THEN s[n] ELSE 0
        /\ SumsOf(s, Q)[n] = SumsOf(s, Q)[n - 1] + IF n \in Q THEN s[n] ELSE 0
        /\ SumsOf(s, P \union Q)[n]
             = SumsOf(s, P \union Q)[n - 1] + IF n \in P \union Q THEN s[n] ELSE 0
    BY SumsFacts
  <2>2. n - 1 \in 0 .. Len(s) /\ s[n] \in Nat
    BY <1>1
  <2>3. SumsOf(s, P)[n - 1] \in Nat /\ SumsOf(s, Q)[n - 1] \in Nat
    BY <2>2, SumsFacts
  <2>4. SumsOf(s, P \union Q)[n - 1] = SumsOf(s, P)[n - 1] + SumsOf(s, Q)[n - 1]
    BY <1>3
  <2>5. ~(n \in P /\ n \in Q) /\ (n \in P \union Q <=> n \in P \/ n \in Q)
    OBVIOUS
  <2>6. SumsOf(s, P \union Q)[n] = SumsOf(s, P)[n] + SumsOf(s, Q)[n]
    BY <2>1, <2>2, <2>3, <2>4, <2>5
  <2>7. QED BY <2>6
<1>4. \A n \in 0 .. Len(s) : n \in G
  <2> HIDE DEF G
  <2>1. \A n \in 1 .. Len(s) : n - 1 \in G => n \in G
    BY <1>3
  <2>2. QED BY <1>1, <1>2, <2>1, Upwards
<1>5. /\ SumAt(s, P) = SumsOf(s, P)[Len(s)] /\ SumAt(s, Q) = SumsOf(s, Q)[Len(s)]
      /\ SumAt(s, P \union Q) = SumsOf(s, P \union Q)[Len(s)]
  BY SumsFacts
<1>6. Len(s) \in G
  <2>1. Len(s) \in 0 .. Len(s)
    BY <1>1
  <2> HIDE DEF G
  <2>2. QED BY <1>4, <2>1
<1>7. QED BY <1>5, <1>6

\* The sum at one position.
LEMMA SumOfOne ==
  ASSUME NEW s \in Seq(Nat), NEW i \in DOMAIN s
  PROVE  SumAt(s, {i}) = s[i]
<1>1. Len(s) \in Nat /\ i \in 1 .. Len(s) /\ s[i] \in Nat
  OBVIOUS
<1> DEFINE G == {n \in 0 .. Len(s) : SumsOf(s, {i})[n] = IF n < i THEN 0 ELSE s[i]}
<1>2. 0 \in G
  BY <1>1, SumsFacts
<1>3. ASSUME NEW n \in 1 .. Len(s), n - 1 \in G PROVE n \in G
  <2>1. SumsOf(s, {i})[n] = SumsOf(s, {i})[n - 1] + IF n \in {i} THEN s[n] ELSE 0
    BY SumsFacts
  <2>2. SumsOf(s, {i})[n - 1] = IF n - 1 < i THEN 0 ELSE s[i]
    BY <1>3
  <2>3. SumsOf(s, {i})[n] = IF n < i THEN 0 ELSE s[i]
    BY <1>1, <2>1, <2>2
  <2>4. QED BY <2>3
<1>4. \A n \in 0 .. Len(s) : n \in G
  <2> HIDE DEF G
  <2>1. \A n \in 1 .. Len(s) : n - 1 \in G => n \in G
    BY <1>3
  <2>2. QED BY <1>1, <1>2, <2>1, Upwards
<1>5. SumAt(s, {i}) = SumsOf(s, {i})[Len(s)]
  BY SumsFacts
<1>6. Len(s) \in G
  <2>1. Len(s) \in 0 .. Len(s)
    BY <1>1
  <2> HIDE DEF G
  <2>2. QED BY <1>4, <2>1
<1>7. QED BY <1>1, <1>5, <1>6

\* What a subsequence sums up to.
LEMMA SumOfSubsequence ==
  ASSUME NEW s \in Seq(Nat), NEW P \in SUBSET DOMAIN s, NEW t, t = Subsequence(s, P)
  PROVE  SumAt(t, DOMAIN t) = SumAt(s, P)
<1>1. /\ t \in Seq(Nat) /\ Len(t) = Cardinality(P) /\ Len(t) \in Nat /\ DOMAIN t = 1 .. Len(t)
      /\ \A i \in P : Rank(P, i) \in 1 .. Len(t) /\ t[Rank(P, i)] = s[i]
      /\ Len(s) \in Nat /\ P \in SUBSET (1 .. Len(s))
  BY SMTT(30), SubsequenceFacts
<1>2. ASSUME NEW n \in 0 .. Len(s)
      PROVE  IsFiniteSet(UpTo(P, n)) /\ Cardinality(UpTo(P, n)) \in 0 .. Len(t)
  <2>1. UpTo(P, n) \in SUBSET (1 .. Len(s)) /\ UpTo(P, n) \subseteq P
    BY <1>1 DEF UpTo
  <2>2. IsFiniteSet(UpTo(P, n)) /\ Cardinality(UpTo(P, n)) \in Nat /\ IsFiniteSet(P)
    BY <1>1, <2>1, FinitelyMany
  <2>3. Cardinality(UpTo(P, n)) <= Cardinality(P)
    BY <2>1, <2>2, FS_Subset
  <2>4. QED BY <1>1, <2>2, <2>3
<1> DEFINE So(n) == SumsOf(t, DOMAIN t)[Cardinality(UpTo(P, n))]
           G == {n \in 0 .. Len(s) : So(n) = SumsOf(s, P)[n]}
<1>3. 0 \in G
  <2>1. \A j \in P : ~(j <= 0)
    BY <1>1
  <2>2. UpTo(P, 0) = {}
    BY <2>1 DEF UpTo
  <2>3. Cardinality(UpTo(P, 0)) = 0
    BY <2>2, FS_EmptySet
  <2>4. QED BY <1>1, <2>3, SumsFacts
<1>4. ASSUME NEW n \in 1 .. Len(s), n - 1 \in G PROVE n \in G
  <2>1. /\ n \in 0 .. Len(s) /\ n - 1 \in 0 .. Len(s) /\ n \in Nat
        /\ So(n - 1) = SumsOf(s, P)[n - 1]
        /\ SumsOf(s, P)[n] = SumsOf(s, P)[n - 1] + IF n \in P THEN s[n] ELSE 0
        /\ SumsOf(s, P)[n - 1] \in Nat
    BY <1>1, <1>4, SumsFacts
  <2>2. CASE n \notin P
    <3>1. \A j \in P : j <= n <=> j <= n - 1
      BY <1>1, <2>1, <2>2
    <3>2. UpTo(P, n) = UpTo(P, n - 1)
      BY <3>1 DEF UpTo
    <3>3. So(n) = SumsOf(s, P)[n]
      BY <2>1, <2>2, <3>2
    <3>4. QED BY <2>1, <3>3
  <2>3. CASE n \in P
    <3>1. \A j \in P : j <= n <=> (j <= n - 1 \/ j = n)
      BY SMTT(30), <1>1, <2>1
    <3>2. UpTo(P, n) = UpTo(P, n - 1) \union {n} /\ n \notin UpTo(P, n - 1)
      BY <2>1, <2>3, <3>1 DEF UpTo
    <3>3. Cardinality(UpTo(P, n)) = Cardinality(UpTo(P, n - 1)) + 1
      BY <1>2, <2>1, <3>2, FS_AddElement
    <3>4. Rank(P, n) = Cardinality(UpTo(P, n))
      BY DEF Rank, UpTo
    <3>5. PICK r \in 1 .. Len(t) : r = Cardinality(UpTo(P, n)) /\ t[r] = s[n]
      BY <1>1, <2>3, <3>4
    <3>6. Cardinality(UpTo(P, n - 1)) = r - 1
      <4>1. Cardinality(UpTo(P, n - 1)) \in 0 .. Len(t)
        BY <1>2, <2>1
      <4>2. QED BY <1>1, <3>3, <3>5, <4>1
    <3>7. SumsOf(t, DOMAIN t)[r] = SumsOf(t, DOMAIN t)[r - 1] + t[r]
      <4>1. t \in Seq(Nat) /\ r \in 1 .. Len(t) /\ r \in DOMAIN t
        BY <1>1, <3>5
      <4> HIDE DEF So, G
      <4>2. SumsOf(t, DOMAIN t)[r]
              = SumsOf(t, DOMAIN t)[r - 1] + IF r \in DOMAIN t THEN t[r] ELSE 0
        BY <4>1, SumsFacts
      <4>3. QED BY <4>1, <4>2
    <3>8. So(n) = SumsOf(s, P)[n]
      BY <2>1, <2>3, <3>5, <3>6, <3>7
    <3>9. QED BY <2>1, <3>8
  <2>4. QED BY <2>2, <2>3
<1>5. \A n \in 0 .. Len(s) : n \in G
  <2> HIDE DEF G
  <2>1. \A n \in 1 .. Len(s) : n - 1 \in G => n \in G
    BY <1>4
  <2>2. QED BY <1>1, <1>3, <2>1, Upwards
<1>6. UpTo(P, Len(s)) = P
  <2>1. \A j \in P : j <= Len(s)
    BY <1>1
  <2>2. QED BY <2>1 DEF UpTo
<1>7. So(Len(s)) = SumsOf(s, P)[Len(s)]
  BY <1>1, <1>5
<1>8. QED BY <1>1, <1>6, <1>7, SumsFacts

\* The sums of the beginnings, when no position is left out.
LEMMA SumsOfAll ==
  ASSUME NEW s \in Seq(Nat)
  PROVE  /\ SumAt(s, DOMAIN s) = SumsOf(s, DOMAIN s)[Len(s)]
         /\ SumsOf(s, DOMAIN s)[0] = 0
         /\ \A n \in 1 .. Len(s) : SumsOf(s, DOMAIN s)[n] = SumsOf(s, DOMAIN s)[n - 1] + s[n]
         /\ \A n \in 0 .. Len(s) : SumsOf(s, DOMAIN s)[n] \in Nat
<1>1. \A n \in 1 .. Len(s) :
        SumsOf(s, DOMAIN s)[n] = SumsOf(s, DOMAIN s)[n - 1] + IF n \in DOMAIN s THEN s[n] ELSE 0
  BY SumsFacts
<1>2. DOMAIN s = 1 .. Len(s)
  OBVIOUS
<1>3. \A n \in 1 .. Len(s) : SumsOf(s, DOMAIN s)[n] = SumsOf(s, DOMAIN s)[n - 1] + s[n]
  BY <1>1, <1>2
<1>4. QED BY <1>3, SumsFacts

\* One more number.
LEMMA SumOfMore ==
  ASSUME NEW s \in Seq(Nat), NEW x \in Nat, NEW t \in Seq(Nat), Len(t) = Len(s) + 1,
         t[1] = x, \A n \in 1 .. Len(s) : t[n + 1] = s[n]
  PROVE  SumAt(t, DOMAIN t) = x + SumAt(s, DOMAIN s)
<1> DEFINE old == SumsOf(s, DOMAIN s)
           new == SumsOf(t, DOMAIN t)
<1>1. Len(s) \in Nat
  OBVIOUS
<1>2. /\ SumAt(t, DOMAIN t) = new[Len(t)] /\ new[0] = 0
      /\ \A n \in 1 .. Len(t) : new[n] = new[n - 1] + t[n]
  BY SumsOfAll
<1>3. /\ SumAt(s, DOMAIN s) = old[Len(s)] /\ old[0] = 0
      /\ \A n \in 1 .. Len(s) : old[n] = old[n - 1] + s[n]
      /\ \A n \in 0 .. Len(s) : old[n] \in Nat
  BY SumsOfAll
<1> HIDE DEF old, new
<1> DEFINE G == {n \in 0 .. Len(s) : new[n + 1] = x + old[n]}
<1>4. 0 \in G
  <2>1. 1 \in 1 .. Len(t)
    BY <1>1
  <2>2. new[1] = new[0] + t[1]
    BY <1>2, <2>1
  <2>3. QED BY <1>1, <1>2, <1>3, <2>2
<1>5. ASSUME NEW n \in 1 .. Len(s), n - 1 \in G PROVE n \in G
  <2>1. n + 1 \in 1 .. Len(t) /\ (n + 1) - 1 = n /\ n \in 0 .. Len(s) /\ (n - 1) + 1 = n
        /\ n - 1 \in 0 .. Len(s)
    BY <1>1
  <2>2. new[n + 1] = new[n] + s[n]
    BY <1>2, <2>1
  <2>3. old[n] = old[n - 1] + s[n] /\ old[n - 1] \in Nat /\ s[n] \in Nat
    <3>1. old[n - 1] \in Nat
      BY <1>3, <2>1
    <3>2. s[n] \in Nat
      BY SMTT(30)
    <3>3. QED BY <1>3, <3>1, <3>2
  <2>4. new[n] = x + old[n - 1]
    BY <1>5, <2>1
  <2>5. new[n + 1] = x + old[n]
    BY SMTT(30), <2>2, <2>3, <2>4
  <2>6. QED BY <2>1, <2>5
<1>6. \A n \in 0 .. Len(s) : n \in G
  <2> HIDE DEF G
  <2>1. \A n \in 1 .. Len(s) : n - 1 \in G => n \in G
    BY <1>5
  <2>2. QED BY <1>1, <1>4, <2>1, Upwards
<1>7. new[Len(s) + 1] = x + old[Len(s)]
  BY <1>1, <1>6
<1>8. QED BY <1>2, <1>3, <1>7

----------------------------------------------------------------------------
(* The entries of the worker's cache.                                      *)

CacheEntries == [key : Keys, path : Paths, inFlight : 0 .. 1]
Unique(es) == \A i, j \in DOMAIN es : es[i].key = es[j].key => i = j
SizesOf(es) == [i \in DOMAIN es |-> SizeOf[es[i].path]]

\* The entries of t are those of es at the positions P, all of them.
Within(t, es, P) == \A k \in DOMAIN t : \E i \in P : t[k] = es[i]
Covers(t, es, P) == \A i \in P : \E k \in DOMAIN t : t[k] = es[i]
With(e, es) == <<e>> \o es

LEMMA SizesFacts ==
  ASSUME NEW es \in Seq(CacheEntries)
  PROVE  /\ SizesOf(es) \in Seq(Nat) /\ Len(SizesOf(es)) = Len(es)
         /\ DOMAIN SizesOf(es) = DOMAIN es
         /\ \A i \in DOMAIN es : SizesOf(es)[i] = SizeOf[es[i].path]
         /\ \A P : BytesAt(es, P) = SumAt(SizesOf(es), P) /\ BytesAt(es, P) \in Nat
         /\ BytesOf(es) = SumAt(SizesOf(es), DOMAIN SizesOf(es))
         /\ BytesAt(es, {}) = 0
<1>1. \A i \in DOMAIN es : SizeOf[es[i].path] \in Nat
  <2>1. \A i \in DOMAIN es : es[i].path \in Paths
    <3>1. \A i \in DOMAIN es : es[i] \in CacheEntries
      OBVIOUS
    <3>2. QED BY <3>1 DEF CacheEntries
  <2>2. QED BY <2>1, SizesAssumption
<1>2. SizesOf(es) \in [1 .. Len(es) -> Nat] /\ Len(es) \in Nat /\ DOMAIN es = 1 .. Len(es)
  BY <1>1 DEF SizesOf
<1>3. SizesOf(es) \in Seq(Nat) /\ Len(SizesOf(es)) = Len(es) /\ DOMAIN SizesOf(es) = DOMAIN es
  BY <1>2
<1>4. \A P : BytesAt(es, P) = SumAt(SizesOf(es), P)
  BY DEF BytesAt, SizesOf
<1>5. \A P : BytesAt(es, P) \in Nat /\ BytesAt(es, {}) = 0
  BY <1>3, <1>4, SumFacts
<1>6. \A i \in DOMAIN es : SizesOf(es)[i] = SizeOf[es[i].path]
  BY DEF SizesOf
<1>7. BytesOf(es) = SumAt(SizesOf(es), DOMAIN SizesOf(es))
  BY <1>3, <1>4 DEF BytesOf
<1>8. QED BY <1>3, <1>4, <1>5, <1>6, <1>7

\* Some of the entries: they take what those take.
LEMMA SomeFacts ==
  ASSUME NEW es \in Seq(CacheEntries), Unique(es), NEW P \in SUBSET DOMAIN es,
         NEW t, t = Subsequence(es, P)
  PROVE  /\ t \in Seq(CacheEntries) /\ Unique(t)
         /\ BytesOf(t) = BytesAt(es, P)
         /\ BytesOf(es) = BytesAt(es, P) + BytesAt(es, DOMAIN es \ P)
         /\ Within(t, es, P) /\ Covers(t, es, P)
<1>1. /\ t \in Seq(CacheEntries) /\ DOMAIN t = 1 .. Cardinality(P) /\ Cardinality(P) \in Nat
      /\ \A k \in 1 .. Cardinality(P) : Nth(P, k) \in P /\ t[k] = es[Nth(P, k)]
      /\ \A i \in P : Rank(P, i) \in 1 .. Cardinality(P) /\ t[Rank(P, i)] = es[i]
      /\ P \in SUBSET (1 .. Len(es)) /\ Len(es) \in Nat
  BY SubsequenceFacts
<1>2. Unique(t)
  <2>1. SUFFICES ASSUME NEW k \in DOMAIN t, NEW l \in DOMAIN t, t[k].key = t[l].key
                 PROVE  k = l
    BY DEF Unique
  <2>2. Nth(P, k) = Nth(P, l)
    BY <1>1, <2>1 DEF Unique
  <2>3. k = Rank(P, Nth(P, k)) /\ l = Rank(P, Nth(P, l))
    BY <1>1, NthFacts
  <2>4. QED BY <2>2, <2>3
<1>3. SizesOf(t) = Subsequence(SizesOf(es), P)
  <2>1. \A k \in 1 .. Cardinality(P) : SizesOf(es)[Nth(P, k)] = SizeOf[es[Nth(P, k)].path]
    BY <1>1, SizesFacts
  <2>2. SizesOf(t) = [k \in 1 .. Cardinality(P) |-> SizeOf[t[k].path]]
    BY <1>1 DEF SizesOf
  <2>3. \A k \in 1 .. Cardinality(P) : SizeOf[t[k].path] = SizesOf(es)[Nth(P, k)]
    BY <1>1, <2>1
  <2>4. QED BY <2>2, <2>3 DEF Subsequence
<1>4. BytesOf(t) = BytesAt(es, P)
  <2>1. SizesOf(es) \in Seq(Nat) /\ P \in SUBSET DOMAIN SizesOf(es)
    BY SizesFacts
  <2>2. SumAt(SizesOf(t), DOMAIN SizesOf(t)) = SumAt(SizesOf(es), P)
    BY <1>3, <2>1, SumOfSubsequence
  <2>3. QED BY <1>1, <2>2, SizesFacts
<1>5. BytesOf(es) = BytesAt(es, P) + BytesAt(es, DOMAIN es \ P)
  <2>1. P \union (DOMAIN es \ P) = DOMAIN es /\ P \intersect (DOMAIN es \ P) = {}
    OBVIOUS
  <2>2. SizesOf(es) \in Seq(Nat)
    BY SizesFacts
  <2>3. SumAt(SizesOf(es), P \union (DOMAIN es \ P))
          = SumAt(SizesOf(es), P) + SumAt(SizesOf(es), DOMAIN es \ P)
    BY <2>1, <2>2, SumOfBoth
  <2>4. QED BY <2>1, <2>3, SizesFacts
<1>6. Within(t, es, P) /\ Covers(t, es, P)
  BY <1>1 DEF Within, Covers
<1>7. QED BY <1>1, <1>2, <1>4, <1>5, <1>6

\* Another entry in front.
LEMMA MoreFacts ==
  ASSUME NEW es \in Seq(CacheEntries), Unique(es), NEW e \in CacheEntries, e.key \notin KeysOf(es),
         NEW t, t = With(e, es)
  PROVE  /\ t \in Seq(CacheEntries) /\ Unique(t) /\ t # <<>> /\ t[1] = e
         /\ BytesOf(t) = SizeOf[e.path] + BytesOf(es)
         /\ \A k \in DOMAIN t : k = 1 \/ (k - 1 \in DOMAIN es /\ t[k] = es[k - 1])
<1>1. /\ t \in Seq(CacheEntries) /\ Len(t) = Len(es) + 1 /\ Len(es) \in Nat /\ t[1] = e
      /\ \A n \in 1 .. Len(es) : t[n + 1] = es[n]
      /\ \A k \in 2 .. Len(es) + 1 : t[k] = es[k - 1]
  BY DEF With
<1>2. DOMAIN t = 1 .. Len(es) + 1 /\ DOMAIN es = 1 .. Len(es)
  BY <1>1
<1>3. \A k \in DOMAIN t : k = 1 \/ (k - 1 \in DOMAIN es /\ t[k] = es[k - 1])
  BY <1>1, <1>2
<1>4. Unique(t)
  <2>1. SUFFICES ASSUME NEW k \in DOMAIN t, NEW l \in DOMAIN t, t[k].key = t[l].key
                 PROVE  k = l
    BY DEF Unique
  <2>2. \A i \in DOMAIN es : es[i].key # e.key
    BY DEF KeysOf
  <2>3. CASE k = 1 \/ l = 1
    <3>1. k = 1 /\ l = 1
      BY <1>1, <1>3, <2>1, <2>2, <2>3
    <3>2. QED BY <3>1
  <2>4. CASE k # 1 /\ l # 1
    <3>1. k - 1 = l - 1
      BY <1>3, <2>1, <2>4 DEF Unique
    <3>2. QED BY <1>1, <1>2, <3>1
  <2>5. QED BY <2>3, <2>4
<1>5. BytesOf(t) = SizeOf[e.path] + BytesOf(es)
  <2>1. SizesOf(es) \in Seq(Nat) /\ SizesOf(t) \in Seq(Nat) /\ Len(SizesOf(t)) = Len(SizesOf(es)) + 1
    BY <1>1, SizesFacts
  <2>2. SizesOf(t)[1] = SizeOf[e.path]
    <3>1. 1 \in DOMAIN t
      BY <1>1, <1>2
    <3>2. QED BY <1>1, <3>1, SizesFacts
  <2>3. \A n \in 1 .. Len(es) : SizesOf(t)[n + 1] = SizesOf(es)[n]
    <3>1. \A n \in 1 .. Len(es) : n \in DOMAIN es /\ n + 1 \in DOMAIN t
      BY <1>1, <1>2
    <3>2. \A n \in 1 .. Len(es) : SizesOf(es)[n] = SizeOf[es[n].path]
      BY <3>1, SizesFacts
    <3>3. \A n \in 1 .. Len(es) : SizesOf(t)[n + 1] = SizeOf[t[n + 1].path]
      <4>1. \A k \in DOMAIN t : SizesOf(t)[k] = SizeOf[t[k].path]
        BY <1>1, SizesFacts
      <4>2. QED BY <3>1, <4>1
    <3>4. QED BY <1>1, <3>2, <3>3
  <2>4. SizeOf[e.path] \in Nat
    BY SizesAssumption DEF CacheEntries
  <2>5. PICK x \in Nat : x = SizeOf[e.path]
    BY <2>4
  <2>6. PICK s \in Seq(Nat) : s = SizesOf(es)
    BY <2>1
  <2>7. PICK u \in Seq(Nat) : u = SizesOf(t)
    BY <2>1
  <2>8. Len(u) = Len(s) + 1 /\ u[1] = x /\ \A n \in 1 .. Len(s) : u[n + 1] = s[n]
    <3>1. Len(SizesOf(es)) = Len(es)
      BY SizesFacts
    <3>2. QED BY <2>1, <2>2, <2>3, <2>5, <2>6, <2>7, <3>1
  <2>9. SumAt(u, DOMAIN u) = x + SumAt(s, DOMAIN s)
    BY <2>8, SumOfMore
  <2>10. QED BY <1>1, <2>5, <2>6, <2>7, <2>9, SizesFacts
<1>6. t # <<>>
  BY <1>1
<1>7. QED BY <1>1, <1>3, <1>4, <1>5, <1>6

\* The entry of a key, and what is left without it.
LEMMA PlaceFacts ==
  ASSUME NEW es \in Seq(CacheEntries), Unique(es), NEW key \in KeysOf(es)
  PROVE  \E i \in DOMAIN es :
           /\ PlacesOf(es, key) = {i} /\ Find(es, key) = es[i] /\ es[i].key = key
           /\ BytesAt(es, PlacesOf(es, key)) = SizeOf[es[i].path]
<1>1. PICK i \in DOMAIN es : es[i].key = key
  BY DEF KeysOf
<1>2. PlacesOf(es, key) = {i}
  BY <1>1 DEF PlacesOf, Unique
<1>3. Find(es, key) = es[i]
  BY <1>2 DEF Find
<1>4. BytesAt(es, {i}) = SizeOf[es[i].path]
  <2>1. SizesOf(es) \in Seq(Nat) /\ i \in DOMAIN SizesOf(es)
    BY SizesFacts
  <2>2. SumAt(SizesOf(es), {i}) = SizesOf(es)[i]
    BY <2>1, SumOfOne
  <2>3. QED BY <2>2, SizesFacts
<1>5. QED BY <1>1, <1>2, <1>3, <1>4

LEMMA WithoutFacts ==
  ASSUME NEW es \in Seq(CacheEntries), Unique(es), NEW key, NEW t, t = Without(es, key)
  PROVE  /\ t \in Seq(CacheEntries) /\ Unique(t) /\ key \notin KeysOf(t)
         /\ BytesOf(es) = BytesAt(es, PlacesOf(es, key)) + BytesOf(t)
         /\ Within(t, es, DOMAIN es)
<1>1. PICK P \in SUBSET DOMAIN es : P = DOMAIN es \ PlacesOf(es, key)
  OBVIOUS
<1>2. /\ \A i \in DOMAIN es : i \in P <=> es[i].key # key
      /\ DOMAIN es \ P = PlacesOf(es, key)
      /\ t = Subsequence(es, P)
  BY <1>1 DEF PlacesOf, Without
<1>3. /\ t \in Seq(CacheEntries) /\ Unique(t)
      /\ BytesOf(t) = BytesAt(es, P)
      /\ BytesOf(es) = BytesAt(es, P) + BytesAt(es, DOMAIN es \ P)
      /\ Within(t, es, P)
  BY <1>2, SomeFacts
<1>4. key \notin KeysOf(t) /\ Within(t, es, DOMAIN es)
  BY <1>1, <1>2, <1>3 DEF KeysOf, Within
<1>5. BytesAt(es, P) \in Nat /\ BytesAt(es, PlacesOf(es, key)) \in Nat
  BY SizesFacts
<1>6. BytesOf(es) = BytesAt(es, PlacesOf(es, key)) + BytesOf(t)
  <2>1. BytesAt(es, DOMAIN es \ P) = BytesAt(es, PlacesOf(es, key))
    BY <1>2
  <2>2. QED BY <1>3, <1>5, <2>1
<1>7. QED BY <1>3, <1>4, <1>6

\* An entry that is made the latest: it comes first, and nothing else changes.
LEMMA PromotedFacts ==
  ASSUME NEW es \in Seq(CacheEntries), Unique(es), NEW key \in KeysOf(es), NEW t, t = Promoted(es, key)
  PROVE  /\ t \in Seq(CacheEntries) /\ Unique(t) /\ t # <<>> /\ t[1].key = key
         /\ BytesOf(t) = BytesOf(es)
         /\ Within(t, es, DOMAIN es)
<1>1. PICK i \in DOMAIN es : /\ Find(es, key) = es[i] /\ es[i].key = key
                             /\ BytesAt(es, PlacesOf(es, key)) = SizeOf[es[i].path]
  BY PlaceFacts
<1>2. PICK e \in CacheEntries : e = es[i]
  OBVIOUS
<1>3. PICK s : s = Without(es, key)
  OBVIOUS
<1>4. /\ s \in Seq(CacheEntries) /\ Unique(s) /\ key \notin KeysOf(s)
      /\ BytesOf(es) = SizeOf[e.path] + BytesOf(s)
      /\ Within(s, es, DOMAIN es)
  BY <1>1, <1>2, <1>3, WithoutFacts
<1>5. t = With(e, s) /\ e.key \notin KeysOf(s)
  BY <1>1, <1>2, <1>3, <1>4 DEF Promoted, With
<1>6. /\ t \in Seq(CacheEntries) /\ Unique(t) /\ t # <<>> /\ t[1] = e
      /\ BytesOf(t) = SizeOf[e.path] + BytesOf(s)
      /\ \A k \in DOMAIN t : k = 1 \/ (k - 1 \in DOMAIN s /\ t[k] = s[k - 1])
  BY <1>4, <1>5, MoreFacts
<1>7. ASSUME NEW k \in DOMAIN t PROVE \E j \in DOMAIN es : t[k] = es[j]
  BY <1>2, <1>4, <1>6 DEF Within
<1>8. QED BY <1>1, <1>2, <1>4, <1>6, <1>7 DEF Within

\* What is evicted is not in use, and is enough unless nothing else could be evicted.
LEMMA VictimsFacts ==
  ASSUME NEW es \in Seq(CacheEntries), NEW needed, NEW b, NEW V, V = Victims(es, needed, b)
  PROVE  /\ V \subseteq Idle(es) /\ Idle(es) \subseteq DOMAIN es
         /\ V = Idle(es) \/ used - BytesAt(es, V) + needed <= b
<1> DEFINE Enough == {n \in 0 .. Cardinality(Idle(es)) : Fits(es, FirstIdle(es, n), needed, b)}
           least == CHOOSE n \in Enough : \A m \in Enough : n <= m
<1>1. V = IF Enough = {} THEN Idle(es) ELSE FirstIdle(es, least)
  BY DEF Victims
<1>2. Idle(es) \subseteq DOMAIN es /\ FirstIdle(es, least) \subseteq Idle(es)
  BY DEF Idle, FirstIdle
<1>3. ASSUME Enough # {} PROVE least \in Enough
  <2>1. Enough \in SUBSET Nat
    <3>1. Idle(es) \in SUBSET (1 .. Len(es)) /\ Len(es) \in Nat
      BY DEF Idle
    <3>2. Cardinality(Idle(es)) \in Nat
      BY <3>1, FinitelyMany
    <3>3. QED BY <3>2
  <2> HIDE DEF Enough
  <2>2. \E n \in Enough : \A m \in Enough : n <= m
    BY <1>3, <2>1, LeastElement
  <2>3. QED BY <2>2
<1>4. ASSUME Enough # {} PROVE used - BytesAt(es, V) + needed <= b
  <2>1. PICK n : n = least
    OBVIOUS
  <2>2. n \in Enough /\ V = FirstIdle(es, n)
    BY <1>1, <1>3, <1>4, <2>1
  <2>3. QED BY <2>2 DEF Fits
<1>5. QED BY <1>1, <1>2, <1>4

Holding(es, n) == [es EXCEPT ![1].inFlight = n]
SameButHeld(t, es) ==
  \A i \in DOMAIN es : t[i].key = es[i].key /\ t[i].path = es[i].path /\ (i # 1 => t[i] = es[i])

\* Entries of which one is held, or released.
LEMMA HoldFacts ==
  ASSUME NEW es \in Seq(CacheEntries), Unique(es), es # <<>>, NEW n \in 0 .. 1,
         NEW t, t = Holding(es, n)
  PROVE  /\ t \in Seq(CacheEntries) /\ Unique(t) /\ BytesOf(t) = BytesOf(es) /\ DOMAIN t = DOMAIN es
         /\ 1 \in DOMAIN es /\ t[1].inFlight = n /\ SameButHeld(t, es)
<1>1. Len(es) \in Nat /\ DOMAIN es = 1 .. Len(es) /\ 1 \in DOMAIN es
  OBVIOUS
<1>2. es[1] \in CacheEntries /\ es \in [1 .. Len(es) -> CacheEntries]
  BY <1>1
<1>3. PICK e : e = [es[1] EXCEPT !.inFlight = n]
  OBVIOUS
<1>4. e \in CacheEntries /\ e.key = es[1].key /\ e.path = es[1].path /\ e.inFlight = n
  BY <1>2, <1>3 DEF CacheEntries
<1>5. t = [es EXCEPT ![1] = e]
  BY <1>3 DEF Holding
<1>6. t \in [1 .. Len(es) -> CacheEntries] /\ t[1] = e /\ \A i \in DOMAIN es : i # 1 => t[i] = es[i]
  BY <1>1, <1>2, <1>4, <1>5
<1>7. /\ t \in Seq(CacheEntries) /\ DOMAIN t = DOMAIN es
      /\ \A i \in DOMAIN es : t[i].key = es[i].key /\ t[i].path = es[i].path
  BY <1>1, <1>4, <1>6
<1>8. Unique(t)
  BY <1>7 DEF Unique
<1>9. SizesOf(t) = SizesOf(es)
  BY <1>7 DEF SizesOf
<1>10. BytesOf(t) = BytesOf(es)
  BY <1>7, <1>9, SizesFacts
<1>11. SameButHeld(t, es)
  BY <1>6, <1>7 DEF SameButHeld
<1>12. QED BY <1>1, <1>4, <1>6, <1>7, <1>8, <1>10, <1>11

\* When nothing is in use, so much is evicted that what is needed fits, or everything.
LEMMA EvictionFacts ==
  ASSUME NEW es \in Seq(CacheEntries), Unique(es), \A i \in DOMAIN es : es[i].inFlight = 0,
         NEW needed, NEW b, NEW V, V = Victims(es, needed, b), NEW t, t = Kept(es, V)
  PROVE  /\ t \in Seq(CacheEntries) /\ Unique(t) /\ Within(t, es, DOMAIN es)
         /\ BytesOf(es) = BytesOf(t) + BytesAt(es, V)
         /\ BytesOf(t) = 0 \/ used - BytesAt(es, V) + needed <= b
<1>1. /\ V \subseteq Idle(es) /\ Idle(es) = DOMAIN es
      /\ V = Idle(es) \/ used - BytesAt(es, V) + needed <= b
  BY VictimsFacts DEF Idle
<1>2. PICK P \in SUBSET DOMAIN es : P = DOMAIN es \ V
  OBVIOUS
<1>3. t = Subsequence(es, P) /\ DOMAIN es \ P = V
  BY <1>1, <1>2 DEF Kept
<1>4. /\ t \in Seq(CacheEntries) /\ Unique(t) /\ Within(t, es, P)
      /\ BytesOf(t) = BytesAt(es, P)
      /\ BytesOf(es) = BytesAt(es, P) + BytesAt(es, DOMAIN es \ P)
  BY <1>3, SomeFacts
<1>5. Within(t, es, DOMAIN es)
  BY <1>4 DEF Within
<1>6. V = Idle(es) => BytesOf(t) = 0
  <2>1. BytesAt(es, {}) = 0
    BY SizesFacts
  <2>2. V = Idle(es) => P = {}
    BY <1>1, <1>2
  <2>3. QED BY <1>4, <2>1, <2>2
<1>7. BytesOf(es) = BytesOf(t) + BytesAt(es, V)
  <2>1. BytesAt(es, DOMAIN es \ P) = BytesAt(es, V)
    BY <1>3
  <2>2. QED BY <1>4, <2>1
<1>8. QED BY <1>1, <1>4, <1>5, <1>6, <1>7

----------------------------------------------------------------------------
(* The worker's cache at every moment.                                     *)

\* e holds the file that l says, and is held by an evaluation of key k.
Right(e, l, k) == e.path = l[e.key] /\ e.inFlight = IF e.key = k THEN 1 ELSE 0
AllRight(es, l, k) == \A i \in DOMAIN es : Right(es[i], l, k)

Bytes == used = BytesOf(entries) /\ used <= budget

WorkerInv ==
  /\ entries \in Seq(CacheEntries) /\ Unique(entries)
  /\ Bytes
  /\ AllRight(entries, loaded, evaluating)
  /\ costModel \in BOOLEAN /\ used \in Nat /\ budget \in Nat
  /\ loaded \in [Keys -> Paths \union {None}]
  /\ evaluating \in Keys \union {None}
  /\ evaluating # None => evaluating \in KeysOf(entries)

LEMMA WorkerInvIsEnough ==
  ASSUME WorkerInv
  PROVE  WorkerTypeOK /\ Accounted /\ LoadedData /\ HeldOnlyWhileEvaluating
<1>1. WorkerTypeOK
  BY DEF WorkerInv, WorkerTypeOK, CacheEntries, Unique
<1>2. Accounted
  BY DEF WorkerInv, Accounted, Bytes
<1>3. LoadedData /\ HeldOnlyWhileEvaluating
  BY DEF WorkerInv, AllRight, Right, LoadedData, HeldOnlyWhileEvaluating
<1>4. QED BY <1>1, <1>2, <1>3

LEMMA WorkerStart ==
  ASSUME WorkerInit
  PROVE  WorkerInv
<1>1. PICK es : es = <<>>
  OBVIOUS
<1>2. entries = es /\ es \in Seq(CacheEntries) /\ DOMAIN es = {}
  BY <1>1 DEF WorkerInit
<1>3. BytesOf(es) = 0
  BY <1>2, SizesFacts DEF BytesOf
<1>4. Unique(es) /\ AllRight(es, loaded, evaluating)
  BY <1>2 DEF Unique, AllRight
<1>5. budget \in Nat /\ used = 0
  BY BudgetsAssumption DEF WorkerInit
<1>6. used = BytesOf(entries) /\ used <= budget
  BY <1>2, <1>3, <1>5
<1>7. loaded \in [Keys -> Paths \union {None}]
  BY DEF WorkerInit
<1>8. costModel \in BOOLEAN /\ evaluating = None
  BY DEF WorkerInit
<1>9. entries \in Seq(CacheEntries) /\ Unique(entries) /\ AllRight(entries, loaded, evaluating)
  BY <1>2, <1>4
<1>10. QED BY <1>5, <1>6, <1>7, <1>8, <1>9 DEF WorkerInv, Bytes

\* Between evaluations nothing is held.
LEMMA NothingHeld ==
  ASSUME WorkerInv, evaluating = None
  PROVE  \A i \in DOMAIN entries : entries[i] \in CacheEntries /\ entries[i].inFlight = 0
<1>1. ASSUME NEW i \in DOMAIN entries
      PROVE  entries[i] \in CacheEntries /\ entries[i].inFlight = 0
  <2>1. entries[i] \in CacheEntries /\ Right(entries[i], loaded, evaluating)
    BY DEF WorkerInv, AllRight
  <2>2. entries[i].key \in Keys
    BY <2>1 DEF CacheEntries
  <2>3. QED BY <2>1, <2>2, KeysAssumption DEF Right
<1>2. QED BY <1>1

LEMMA InitStep ==
  ASSUME WorkerInv, NEW b \in Budgets, HandleInit(b)
  PROVE  WorkerInv'
<1>1. PICK es : es = entries
  OBVIOUS
<1>2. PICK V : V = Victims(es, 0, b)
  OBVIOUS
<1>3. PICK t : t = Kept(es, V)
  OBVIOUS
<1>4. /\ evaluating = None /\ entries' = t /\ used' = used - BytesAt(es, V) /\ budget' = b
      /\ costModel' \in {TRUE, costModel} /\ UNCHANGED <<evaluating, loaded>>
  BY <1>1, <1>2, <1>3 DEF HandleInit
<1>5. /\ es \in Seq(CacheEntries) /\ Unique(es) /\ AllRight(es, loaded, evaluating)
      /\ used = BytesOf(es) /\ \A i \in DOMAIN es : es[i].inFlight = 0
  BY <1>1, <1>4, NothingHeld DEF WorkerInv, Bytes
<1>6. /\ t \in Seq(CacheEntries) /\ Unique(t) /\ Within(t, es, DOMAIN es)
      /\ BytesOf(es) = BytesOf(t) + BytesAt(es, V)
      /\ BytesOf(t) = 0 \/ used - BytesAt(es, V) + 0 <= b
  BY <1>2, <1>3, <1>5, EvictionFacts
<1>7. BytesOf(t) \in Nat /\ BytesAt(es, V) \in Nat /\ b \in Nat
  BY <1>5, <1>6, SizesFacts, BudgetsAssumption DEF BytesOf
<1>8. used' = BytesOf(t) /\ used' <= b
  BY <1>4, <1>5, <1>6, <1>7
<1>9. AllRight(t, loaded, evaluating)
  BY <1>5, <1>6 DEF AllRight, Within
<1>10. Bytes'
  BY <1>4, <1>8 DEF Bytes, BytesOf, BytesAt
<1>11. QED BY <1>4, <1>6, <1>7, <1>8, <1>9, <1>10 DEF WorkerInv

LEMMA LoadCachedStep ==
  ASSUME WorkerInv, NEW key \in Keys, NEW path \in Paths, LoadCached(key, path)
  PROVE  WorkerInv'
<1>1. PICK es : es = entries
  OBVIOUS
<1>2. PICK t : t = Promoted(es, key)
  OBVIOUS
<1>3. PICK l : l = [loaded EXCEPT ![key] = path]
  OBVIOUS
<1>4. /\ evaluating = None /\ key \in KeysOf(es) /\ Find(es, key).path = path
      /\ entries' = t /\ loaded' = l /\ UNCHANGED <<costModel, used, budget, evaluating>>
  BY <1>1, <1>2, <1>3 DEF LoadCached, Hit
<1>5. /\ es \in Seq(CacheEntries) /\ Unique(es) /\ AllRight(es, loaded, evaluating)
      /\ used = BytesOf(es) /\ used <= budget
  BY <1>1 DEF WorkerInv, Bytes
<1>6. /\ t \in Seq(CacheEntries) /\ Unique(t) /\ BytesOf(t) = BytesOf(es)
      /\ Within(t, es, DOMAIN es)
  BY <1>2, <1>4, <1>5, PromotedFacts
<1>7. l = loaded
  <2>1. PICK i \in DOMAIN es : Find(es, key) = es[i] /\ es[i].key = key
    BY <1>4, <1>5, PlaceFacts
  <2>2. loaded[key] = path
    BY <1>4, <1>5, <2>1 DEF AllRight, Right
  <2>3. QED BY <1>3, <2>2 DEF WorkerInv
<1>8. AllRight(t, loaded, evaluating)
  BY <1>5, <1>6 DEF AllRight, Within
<1>9. Bytes'
  BY <1>4, <1>5, <1>6 DEF Bytes, BytesOf, BytesAt
<1>10. QED BY <1>4, <1>6, <1>7, <1>8, <1>9 DEF WorkerInv

LEMMA LoadFailsStep ==
  ASSUME WorkerInv, NEW key \in Keys, NEW path \in Paths, LoadFails(key, path)
  PROVE  WorkerInv'
<1>1. PICK es : es = entries
  OBVIOUS
<1>2. PICK t : t = Without(es, key)
  OBVIOUS
<1>3. PICK l : l = [loaded EXCEPT ![key] = None]
  OBVIOUS
<1>4. /\ evaluating = None /\ entries' = t /\ loaded' = l
      /\ used' = used - BytesAt(es, PlacesOf(es, key))
      /\ UNCHANGED <<costModel, budget, evaluating>>
  BY <1>1, <1>2, <1>3 DEF LoadFails, StaleBytes
<1>5. /\ es \in Seq(CacheEntries) /\ Unique(es) /\ AllRight(es, loaded, evaluating)
      /\ used = BytesOf(es) /\ used <= budget /\ budget \in Nat
      /\ loaded \in [Keys -> Paths \union {None}]
  BY <1>1 DEF WorkerInv, Bytes
<1>6. /\ t \in Seq(CacheEntries) /\ Unique(t) /\ key \notin KeysOf(t)
      /\ BytesOf(es) = BytesAt(es, PlacesOf(es, key)) + BytesOf(t)
      /\ Within(t, es, DOMAIN es)
  BY <1>2, <1>5, WithoutFacts
<1>7. BytesOf(t) \in Nat /\ BytesAt(es, PlacesOf(es, key)) \in Nat
  BY <1>5, <1>6, SizesFacts DEF BytesOf
<1>8. used' = BytesOf(t) /\ used' <= budget
  BY <1>4, <1>5, <1>6, <1>7
<1>9. AllRight(t, l, evaluating)
  <2>1. SUFFICES ASSUME NEW k \in DOMAIN t PROVE Right(t[k], l, evaluating)
    BY DEF AllRight
  <2>2. t[k] \in CacheEntries /\ Right(t[k], loaded, evaluating)
    BY <1>5, <1>6 DEF AllRight, Within
  <2>3. t[k].key # key /\ t[k].key \in Keys
    BY <1>6, <2>2 DEF KeysOf, CacheEntries
  <2>4. l[t[k].key] = loaded[t[k].key]
    BY <1>3, <1>5, <2>3
  <2>5. QED BY <2>2, <2>4 DEF Right
<1>10. Bytes'
  BY <1>4, <1>8 DEF Bytes, BytesOf, BytesAt
<1>11. l \in [Keys -> Paths \union {None}]
  BY <1>3, <1>5
<1>12. QED BY <1>4, <1>6, <1>7, <1>8, <1>9, <1>10, <1>11 DEF WorkerInv

LEMMA LoadStep ==
  ASSUME WorkerInv, NEW key \in Keys, NEW path \in Paths, Load(key, path)
  PROVE  WorkerInv'
<1>1. PICK es : es = entries
  OBVIOUS
<1>2. PICK others : others = Without(es, key)
  OBVIOUS
<1>3. PICK old : old = BytesAt(es, PlacesOf(es, key))
  OBVIOUS
<1>4. PICK needed : needed = SizeOf[path] - old
  OBVIOUS
<1>5. PICK V : V = Victims(others, needed, budget)
  OBVIOUS
<1>6. PICK t : t = Kept(others, V)
  OBVIOUS
<1>7. /\ es \in Seq(CacheEntries) /\ Unique(es) /\ AllRight(es, loaded, evaluating)
      /\ used = BytesOf(es) /\ used <= budget /\ budget \in Nat
      /\ loaded \in [Keys -> Paths \union {None}]
      /\ evaluating = None
      /\ \A i \in DOMAIN es : es[i].inFlight = 0
  BY <1>1, NothingHeld DEF WorkerInv, Bytes, Load
<1>8. /\ others \in Seq(CacheEntries) /\ Unique(others) /\ key \notin KeysOf(others)
      /\ BytesOf(es) = old + BytesOf(others)
      /\ Within(others, es, DOMAIN es)
  BY <1>2, <1>3, <1>7, WithoutFacts
<1>9. /\ t \in Seq(CacheEntries) /\ Unique(t) /\ Within(t, others, DOMAIN others)
      /\ BytesOf(others) = BytesOf(t) + BytesAt(others, V)
      /\ BytesOf(t) = 0 \/ used - BytesAt(others, V) + needed <= budget
  <2>1. \A i \in DOMAIN others : others[i].inFlight = 0
    BY <1>7, <1>8 DEF Within
  <2>2. QED BY <1>5, <1>6, <1>8, <2>1, EvictionFacts
<1>10. key \notin KeysOf(t) /\ Within(t, es, DOMAIN es)
  BY <1>8, <1>9 DEF KeysOf, Within
<1>11. /\ BytesOf(t) \in Nat /\ BytesAt(others, V) \in Nat /\ old \in Nat /\ SizeOf[path] \in Nat
  BY <1>3, <1>7, <1>8, <1>9, SizesFacts, SizesAssumption DEF BytesOf
<1>12. used - BytesAt(others, V) = BytesOf(t) + old
  BY <1>7, <1>8, <1>9, <1>11
<1>13. ASSUME NEW l, NEW file \in Paths \union {None}, l = [loaded EXCEPT ![key] = file]
       PROVE  AllRight(t, l, evaluating) /\ l \in [Keys -> Paths \union {None}] /\ l[key] = file
  <2>1. SUFFICES ASSUME NEW k \in DOMAIN t PROVE Right(t[k], l, evaluating)
    BY <1>7, <1>13 DEF AllRight
  <2>2. t[k] \in CacheEntries /\ Right(t[k], loaded, evaluating)
    BY <1>7, <1>9, <1>10 DEF AllRight, Within
  <2>3. t[k].key # key /\ t[k].key \in Keys
    BY <1>10, <2>2 DEF KeysOf, CacheEntries
  <2>4. l[t[k].key] = loaded[t[k].key]
    BY <1>7, <1>13, <2>3
  <2>5. QED BY <2>2, <2>4 DEF Right
<1>14. CASE ~Fits(others, V, needed, budget)
  <2>1. PICK l : l = [loaded EXCEPT ![key] = None]
    OBVIOUS
  <2>2. /\ entries' = <<>> \o t /\ used' = used - BytesAt(others, V) + (- old) /\ loaded' = l
        /\ UNCHANGED <<costModel, budget, evaluating>>
    BY <1>1, <1>2, <1>3, <1>4, <1>5, <1>6, <1>14, <2>1 DEF Load, StaleBytes
  <2>3. entries' = t
    BY <1>9, <2>2
  <2>4. BytesOf(t) = 0 /\ used' = BytesOf(t)
    BY <1>9, <1>11, <1>12, <1>14, <2>2 DEF Fits
  <2>5. AllRight(t, l, evaluating) /\ l \in [Keys -> Paths \union {None}]
    BY <1>13, <2>1
  <2>6. Bytes'
    BY <1>7, <2>2, <2>3, <2>4 DEF Bytes, BytesOf, BytesAt
  <2>7. QED BY <1>7, <1>9, <2>2, <2>3, <2>4, <2>5, <2>6 DEF WorkerInv
<1>15. CASE Fits(others, V, needed, budget)
  <2>1. PICK l : l = [loaded EXCEPT ![key] = path]
    OBVIOUS
  <2>2. PICK e : e = Entry(key, path)
    OBVIOUS
  <2>3. PICK u : u = With(e, t)
    OBVIOUS
  <2>4. e \in CacheEntries /\ e.key = key /\ e.path = path /\ e.inFlight = 0
    BY <2>2 DEF Entry, CacheEntries
  <2>5. /\ entries' = u /\ used' = used - BytesAt(others, V) + needed /\ loaded' = l
        /\ UNCHANGED <<costModel, budget, evaluating>>
    BY <1>1, <1>2, <1>3, <1>4, <1>5, <1>6, <1>15, <2>1, <2>2, <2>3 DEF Load, StaleBytes, With
  <2>6. /\ u \in Seq(CacheEntries) /\ Unique(u) /\ u[1] = e
        /\ BytesOf(u) = SizeOf[e.path] + BytesOf(t)
        /\ \A k \in DOMAIN u : k = 1 \/ (k - 1 \in DOMAIN t /\ u[k] = t[k - 1])
    BY <1>9, <1>10, <2>3, <2>4, MoreFacts
  <2>7. used' = BytesOf(u) /\ used' \in Nat
    BY <1>4, <1>11, <1>12, <2>4, <2>5, <2>6
  <2>8. used' <= budget
    BY <1>15, <2>5 DEF Fits
  <2>9. AllRight(t, l, evaluating) /\ l \in [Keys -> Paths \union {None}] /\ l[key] = path
    BY <1>13, <2>1
  <2>10. Right(e, l, evaluating)
    BY <1>7, <2>4, <2>9, KeysAssumption DEF Right
  <2>11. AllRight(u, l, evaluating)
    BY <2>6, <2>9, <2>10 DEF AllRight
  <2>12. Bytes'
    BY <2>5, <2>7, <2>8 DEF Bytes, BytesOf, BytesAt
  <2>13. QED BY <1>7, <2>5, <2>6, <2>7, <2>9, <2>11, <2>12 DEF WorkerInv
<1>16. QED BY <1>14, <1>15

LEMMA BeginEvalStep ==
  ASSUME WorkerInv, NEW key \in Keys, BeginEval(key)
  PROVE  WorkerInv'
<1>1. PICK es : es = entries
  OBVIOUS
<1>2. PICK t : t = Promoted(es, key)
  OBVIOUS
<1>3. PICK n : n = t[1].inFlight + 1
  OBVIOUS
<1>4. PICK u : u = Holding(t, n)
  OBVIOUS
<1>5. /\ evaluating = None /\ key \in KeysOf(es)
      /\ entries' = u /\ evaluating' = key /\ UNCHANGED <<costModel, used, budget, loaded>>
  BY <1>1, <1>2, <1>3, <1>4 DEF BeginEval, Holding
<1>6. /\ es \in Seq(CacheEntries) /\ Unique(es) /\ AllRight(es, loaded, None)
      /\ used = BytesOf(es) /\ used <= budget
      /\ \A i \in DOMAIN es : es[i].inFlight = 0
  BY <1>1, <1>5, NothingHeld DEF WorkerInv, Bytes
<1>7. /\ t \in Seq(CacheEntries) /\ Unique(t) /\ t # <<>> /\ t[1].key = key
      /\ BytesOf(t) = BytesOf(es) /\ Within(t, es, DOMAIN es)
  BY <1>2, <1>5, <1>6, PromotedFacts
<1>8. 1 \in DOMAIN t /\ \A k \in DOMAIN t : Right(t[k], loaded, None) /\ t[k].inFlight = 0
  <2>1. 1 \in DOMAIN t
    BY <1>7
  <2>2. QED BY <1>6, <1>7, <2>1 DEF AllRight, Within
<1>9. n = 1
  BY <1>3, <1>8
<1>10. /\ u \in Seq(CacheEntries) /\ Unique(u) /\ BytesOf(u) = BytesOf(t) /\ DOMAIN u = DOMAIN t
       /\ u[1].inFlight = 1
       /\ \A i \in DOMAIN t : /\ u[i].key = t[i].key /\ u[i].path = t[i].path
                              /\ i # 1 => u[i] = t[i]
  <2>1. n \in 0 .. 1
    BY <1>9
  <2>2. /\ u \in Seq(CacheEntries) /\ Unique(u) /\ BytesOf(u) = BytesOf(t) /\ DOMAIN u = DOMAIN t
        /\ u[1].inFlight = n /\ SameButHeld(u, t)
    BY <1>4, <1>7, <2>1, HoldFacts
  <2>3. QED BY <1>9, <2>2 DEF SameButHeld
<1>11. AllRight(u, loaded, key)
  <2>1. SUFFICES ASSUME NEW k \in DOMAIN u PROVE Right(u[k], loaded, key)
    BY DEF AllRight
  <2>2. u[k].path = loaded[u[k].key]
    BY <1>8, <1>10 DEF Right
  <2>3. CASE k = 1
    BY <1>7, <1>8, <1>10, <2>2, <2>3 DEF Right
  <2>4. CASE k # 1
    <3>1. u[k].key # key
      BY <1>7, <1>8, <1>10, <2>4 DEF Unique
    <3>2. u[k].inFlight = 0
      BY <1>8, <1>10, <2>4
    <3>3. QED BY <2>2, <3>1, <3>2 DEF Right
  <2>5. QED BY <2>3, <2>4
<1>12. key \in KeysOf(u)
  BY <1>7, <1>8, <1>10 DEF KeysOf
<1>13. Bytes'
  BY <1>5, <1>6, <1>7, <1>10 DEF Bytes, BytesOf, BytesAt
<1>14. KeysOf(entries') = KeysOf(u)
  BY <1>5
<1>15. QED
  BY <1>5, <1>10, <1>11, <1>12, <1>13, <1>14 DEF WorkerInv, KeysOf

LEMMA EndEvalStep ==
  ASSUME WorkerInv, EndEval
  PROVE  WorkerInv'
<1>1. PICK es : es = entries
  OBVIOUS
<1>2. PICK key \in Keys : key = evaluating
  BY DEF WorkerInv, EndEval
<1>3. PICK t : t = Promoted(es, key)
  OBVIOUS
<1>4. PICK n : n = t[1].inFlight - 1
  OBVIOUS
<1>5. PICK u : u = Holding(t, n)
  OBVIOUS
<1>6. /\ entries' = u /\ evaluating' = None /\ UNCHANGED <<costModel, used, budget, loaded>>
  BY <1>1, <1>2, <1>3, <1>4, <1>5 DEF EndEval, Released, Holding
<1>7. /\ es \in Seq(CacheEntries) /\ Unique(es) /\ AllRight(es, loaded, key)
      /\ used = BytesOf(es) /\ used <= budget /\ key \in KeysOf(es)
  BY <1>1, <1>2 DEF WorkerInv, Bytes, EndEval
<1>8. /\ t \in Seq(CacheEntries) /\ Unique(t) /\ t # <<>> /\ t[1].key = key
      /\ BytesOf(t) = BytesOf(es) /\ Within(t, es, DOMAIN es)
  BY <1>3, <1>7, PromotedFacts
<1>9. 1 \in DOMAIN t /\ \A k \in DOMAIN t : Right(t[k], loaded, key) /\ t[k] \in CacheEntries
  <2>1. 1 \in DOMAIN t
    BY <1>8
  <2>2. QED BY <1>7, <1>8, <2>1 DEF AllRight, Within
<1>10. n = 0
  <2>1. t[1].inFlight = 1
    BY <1>8, <1>9 DEF Right
  <2>2. QED BY <1>4, <2>1
<1>11. /\ u \in Seq(CacheEntries) /\ Unique(u) /\ BytesOf(u) = BytesOf(t) /\ DOMAIN u = DOMAIN t
       /\ u[1].inFlight = 0
       /\ \A i \in DOMAIN t : /\ u[i].key = t[i].key /\ u[i].path = t[i].path
                              /\ i # 1 => u[i] = t[i]
  <2>1. n \in 0 .. 1
    BY <1>10
  <2>2. /\ u \in Seq(CacheEntries) /\ Unique(u) /\ BytesOf(u) = BytesOf(t) /\ DOMAIN u = DOMAIN t
        /\ u[1].inFlight = n /\ SameButHeld(u, t)
    BY <1>5, <1>8, <2>1, HoldFacts
  <2>3. QED BY <1>10, <2>2 DEF SameButHeld
<1>12. AllRight(u, loaded, None)
  <2>1. SUFFICES ASSUME NEW k \in DOMAIN u PROVE Right(u[k], loaded, None)
    BY DEF AllRight
  <2>2. u[k].path = loaded[u[k].key]
    BY <1>9, <1>11 DEF Right
  <2>3. u[k].inFlight = 0
    <3>1. CASE k = 1
      BY <1>11, <3>1
    <3>2. CASE k # 1
      <4>1. t[k].key # key
        BY <1>8, <1>9, <1>11, <3>2 DEF Unique
      <4>2. QED BY <1>9, <1>11, <3>2, <4>1 DEF Right
    <3>3. QED BY <3>1, <3>2
  <2>4. u[k].key # None
    <3>1. u[k].key \in Keys
      BY <1>9, <1>11 DEF CacheEntries
    <3>2. QED BY <3>1, KeysAssumption
  <2>5. QED BY <2>2, <2>3, <2>4 DEF Right
<1>13. Bytes'
  BY <1>6, <1>7, <1>8, <1>11 DEF Bytes, BytesOf, BytesAt
<1>14. QED
  BY <1>6, <1>11, <1>12, <1>13 DEF WorkerInv

LEMMA WorkerStep ==
  ASSUME WorkerInv, [WorkerNext]_worker
  PROVE  WorkerInv'
<1>1. CASE UNCHANGED worker
  BY <1>1 DEF worker, WorkerInv, Bytes, BytesOf, BytesAt, AllRight, Right, Unique, KeysOf
<1>2. CASE WorkerNext
  <2>1. CASE \E b \in Budgets : HandleInit(b)
    BY <2>1, InitStep
  <2>2. CASE \E k \in Keys, p \in Paths : LoadCached(k, p) \/ LoadFails(k, p) \/ Load(k, p)
    BY <2>2, LoadCachedStep, LoadFailsStep, LoadStep
  <2>3. CASE \E k \in Keys : BeginEval(k)
    BY <2>3, BeginEvalStep
  <2>4. CASE EndEval
    BY <2>4, EndEvalStep
  <2>5. QED BY <1>2, <2>1, <2>2, <2>3, <2>4 DEF WorkerNext
<1>3. QED BY <1>1, <1>2

----------------------------------------------------------------------------
(* The two parts of an evaluation.                                         *)

LEMMA TypesHold ==
  ASSUME TypeInv
  PROVE  TypeOK
<1>1. \A k \in DOMAIN files : files[k] \in {NoFile, Torn} \/ files[k] \in Seq(Exits) \ {<<>>}
  BY DEF TypeInv, FilesOK, Scored
<1>2. QED
  BY <1>1 DEF TypeInv, SettingsOK, StoreOK, CallOK, ScoresOK, CountersOK, TypeOK

LEMMA PartsInvHolds == PartsSpec => [](TypeInv /\ CacheInv /\ WorkerInv)
<1>1. PartsInit => TypeInv /\ CacheInv /\ OwnInv /\ WorkerInv
  BY TypeInit, CacheInit, OwnInit, WorkerStart DEF PartsInit
<1>2. [PartsNext]_<<part, vars, worker>> => [Next]_vars /\ [WorkerNext]_worker
  BY DEF PartsNext
<1>3. /\ TypeInv /\ CacheInv /\ OwnInv /\ WorkerInv
      /\ [PartsNext]_<<part, vars, worker>>
      => (TypeInv /\ CacheInv /\ OwnInv /\ WorkerInv)'
  BY <1>2, TypeStep, OwnNext, WorkerStep
<1>4. QED BY <1>1, <1>3, PTL DEF PartsSpec

\* The cache of signals keeps to its limits, and the worker accounts for every byte of the
\* data it holds, within its budget: through loads, replacements, refused and failed loads,
\* evictions and new budgets (_evict_if_needed, evict_until_free, handle_load_data).
THEOREM MemoryStaysBounded == PartsSpec => []MemoryBounded
<1>1. TypeInv /\ CacheInv /\ WorkerInv => MemoryBounded
  BY TypesHold, WorkerInvIsEnough DEF CacheInv, MemoryBounded
<1>2. QED BY <1>1, PartsInvHolds, PTL

\* The data under a key is that of the file it was last loaded from, and is held by the
\* evaluation in progress only (handle_load_data, handle_eval).
THEOREM DataIsFresh == PartsSpec => []FreshData
<1>1. TypeInv /\ CacheInv /\ WorkerInv => FreshData
  BY WorkerInvIsEnough DEF FreshData
<1>2. QED BY <1>1, PartsInvHolds, PTL

==============================================================================
