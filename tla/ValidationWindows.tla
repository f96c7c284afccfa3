---------------------------- MODULE ValidationWindows ----------------------------
(***************************************************************************)
(* How the data is cut for training and testing: the cross-validation      *)
(* folds of the optimization (fold_manager.py), the walk-forward windows   *)
(* (walk_forward.py) and combinatorial purged cross-validation with its    *)
(* gate (cpcv.py).                                                         *)
(*                                                                         *)
(* Bars are numbered from 0 and ranges exclude their end.  The score of a  *)
(* candidate on a range is a choice of the evaluator, if the dispatcher    *)
(* has one: without evaluate_candidate every score is zero.                *)
(***************************************************************************)
EXTENDS Integers, Sequences, FiniteSets, FiniteSetsExt, SequencesExt

CONSTANTS
  Jobs,     \* what is asked for: [kind, length, n, k, tenths, purge, embargo, evaluates]
  Sharpes   \* scores of the evaluator

\* What a job may ask for; the constructors refuse the rest.
ASSUME JobsAssumption ==
  \A j \in Jobs :
    /\ j.kind \in {"folds", "walk_forward", "cpcv"}
    /\ j.length \in Nat /\ j.n \in Nat \ {0} /\ j.k \in Nat
    /\ j.tenths \in 1 .. 9 /\ j.purge \in Nat /\ j.embargo \in Nat
    /\ j.kind = "cpcv" => j.k \in 1 .. (j.n - 1)
    /\ j.evaluates \in BOOLEAN
ASSUME SharpesAssumption == Sharpes \subseteq Int

VARIABLES
  job,
  status,   \* "asked", "evaluating", "done", or "raised"
  ranges,   \* the folds or the windows, in order
  scores,   \* in and out of sample, of each combination of cpcv so far
  gate      \* pbo_gate_passed, and "none" before it is computed

windows == <<job, status, ranges, scores, gate>>

Clipped(i) == IF i < 0 THEN 0 ELSE i
BarsOf(first, end) == first .. end - 1

----------------------------------------------------------------------------
(* Folds.                                                                  *)

FoldBlock == job.length \div (job.n + 1)

\* Mutant: the bars that are over are tested by no fold.
FoldOfBlock(i) ==
  LET test_start == (i + 1) * FoldBlock
      train_end == Clipped(test_start - job.embargo)
  IN  [train_start |-> 0,
       train_end |-> IF train_end <= 0 THEN test_start ELSE train_end,
       test_start |-> test_start, test_end |-> (i + 2) * FoldBlock]

\* Training is all before the test block, minus the embargo; the embargo is dropped
\* when nothing would be left.  The last block takes the bars that are over.
Fold(i) ==
  LET test_start == (i + 1) * FoldBlock
      train_end == Clipped(test_start - job.embargo)
  IN  [train_start |-> 0,
       train_end |-> IF train_end <= 0 THEN test_start ELSE train_end,
       test_start |-> test_start,
       test_end |-> IF i < job.n - 1 THEN (i + 2) * FoldBlock ELSE job.length]

ComputeFolds ==
  /\ job.kind = "folds" /\ status = "asked"
  /\ IF job.length < job.n * 2 \/ job.n < 2
     THEN status' = "raised" /\ UNCHANGED ranges
     ELSE status' = "done" /\ ranges' = [i \in 1 .. job.n |-> Fold(i - 1)]
  /\ UNCHANGED <<job, scores, gate>>

----------------------------------------------------------------------------
(* Walk-forward windows.                                                   *)

WindowSize == job.length \div job.n

\* Mutant: training goes on to the end of the purge.
WindowUnpurged(i) ==
  LET purge_end == i * WindowSize + (WindowSize * job.tenths) \div 10
  IN  [train_start |-> 0, train_end |-> purge_end,
       test_start |-> purge_end + job.embargo, test_end |-> (i + 1) * WindowSize]

\* Anchored at the first bar; purge and embargo lie between training and test.
Window(i) ==
  LET purge_end == i * WindowSize + (WindowSize * job.tenths) \div 10
  IN  [train_start |-> 0, train_end |-> Clipped(purge_end - job.purge),
       test_start |-> purge_end + job.embargo, test_end |-> (i + 1) * WindowSize]

HasTest(w) == w.test_start < w.test_end

LongEnough == job.length > (job.purge + job.embargo) * job.n

\* The numbers of the windows that have a test, and the k-th of them.
Kept == {i \in 1 .. job.n : HasTest(Window(i - 1))}
NthKept(k) == CHOOSE i \in Kept : Cardinality({l \in Kept : l <= i}) = k

GenerateWindows ==
  /\ job.kind = "walk_forward" /\ status = "asked"
  /\ ranges' = IF LongEnough
               THEN [k \in 1 .. Cardinality(Kept) |-> Window(NthKept(k) - 1)] ELSE <<>>
  /\ status' = "done"
  /\ UNCHANGED <<job, scores, gate>>

----------------------------------------------------------------------------
(* Combinatorial purged cross-validation.                                  *)

GroupSize == job.length \div job.n
GroupStart(g) == g * GroupSize
GroupEnd(g) == (g + 1) * GroupSize
Groups == 0 .. job.n - 1

\* The test groups of each combination, in lexicographic order.
Before(s, t) == s # t /\ Min((s \ t) \cup (t \ s)) \in s
Combinations ==
  LET all == kSubset(job.k, Groups)
  IN  [c \in 1 .. Cardinality(all) |->
         CHOOSE s \in all : Cardinality({t \in all : Before(t, s)}) = c - 1]

\* Mutant: the embargo is forgotten.
ExcludedByPurge(tests) ==
  UNION {BarsOf(Clipped(GroupStart(g) - job.purge), GroupStart(g)) : g \in tests}

\* Purged before a test, and under embargo after it.
Excluded(tests) ==
  UNION {BarsOf(Clipped(GroupStart(g) - job.purge), GroupStart(g))
           \cup BarsOf(GroupEnd(g), GroupEnd(g) + job.embargo) : g \in tests}

NoStart == -1

\* The runs of bars that are not excluded: one that is begins a run unless there is one,
\* and one that is excluded ends it.
NothingFound == [kept |-> {}, start |-> NoStart]
Scan(found, b, excluded) ==
  IF b \notin excluded
  THEN [found EXCEPT !.start = IF @ = NoStart THEN b ELSE @]
  ELSE IF found.start # NoStart
       THEN [kept |-> found.kept \cup {<<found.start, b>>}, start |-> NoStart]
       ELSE found

\* What is found after each bar of a group, and the runs of the group.
Scanned(g, excluded) ==
  LET found[i \in 0 .. GroupSize] ==
        IF i = 0 THEN NothingFound ELSE Scan(found[i - 1], GroupStart(g) + i - 1, excluded)
  IN  found
Segments(g, excluded) ==
  LET all == Scanned(g, excluded)[GroupSize]
  IN  all.kept \cup (IF all.start = NoStart THEN {} ELSE {<<all.start, GroupEnd(g)>>})

TrainRanges(tests) == UNION {Segments(g, Excluded(tests)) : g \in Groups \ tests}

\* What a range, if there is any, may score.
Scored(some) == IF job.evaluates /\ some THEN Sharpes ELSE {0}

\* Without a bar left to train on the score in sample is zero.
EvaluateCombination(is, oos) ==
  LET tests == Combinations[Len(scores) + 1]
  IN  /\ job.kind = "cpcv" /\ status \in {"asked", "evaluating"}
      /\ Len(scores) < Len(Combinations)
      /\ is \in Scored(TrainRanges(tests) # {})
      /\ oos \in Scored(GroupSize > 0)
      /\ scores' = Append(scores, [is |-> is, oos |-> oos])
      /\ status' = "evaluating"
      /\ UNCHANGED <<job, ranges, gate>>

Values(field) == [c \in DOMAIN scores |-> scores[c][field]]

\* Twice the median: the two middle values, which are one when the number is odd.
TwiceMedian(s) ==
  LET Rank(c) == {d \in DOMAIN s : s[d] < s[c] \/ (s[d] = s[c] /\ d <= c)}
      At(r) == s[CHOOSE c \in DOMAIN s : Cardinality(Rank(c)) = r]
  IN  At((Len(s) + 1) \div 2) + At(Len(s) \div 2 + 1)

BelowMedian(s) == {c \in DOMAIN s : 2 * s[c] < TwiceMedian(s)}

Fraction(part, all) == [over |-> Cardinality(part), of |-> Cardinality(all)]

\* compute_pbo: of the combinations best in sample, those worst out of sample; when
\* the two are the same throughout, of all combinations.
Pbo ==
  LET is == Values("is")  oos == Values("oos")
      best == IF is = oos THEN DOMAIN is ELSE DOMAIN is \ BelowMedian(is)
  IN  IF Len(scores) < 2 \/ best = {} THEN [over |-> 0, of |-> 1]
      ELSE Fraction(best \cap BelowMedian(oos), best)

\* pbo_red_threshold is 0.40.
ApplyGate ==
  /\ job.kind = "cpcv" /\ status \in {"asked", "evaluating"}
  /\ Len(scores) = Len(Combinations)
  /\ gate' = IF 10 * Pbo.over <= 4 * Pbo.of THEN "passed" ELSE "failed"
  /\ status' = "done"
  /\ UNCHANGED <<job, ranges, scores>>

----------------------------------------------------------------------------
WindowsInit ==
  /\ job \in Jobs
  /\ status = "asked" /\ ranges = <<>> /\ scores = <<>> /\ gate = "none"

WindowsNext ==
  \/ ComputeFolds
  \/ GenerateWindows
  \/ \E is, oos \in Sharpes \cup {0} : EvaluateCombination(is, oos)
  \/ ApplyGate

WindowsSpec == WindowsInit /\ [][WindowsNext]_windows
----------------------------------------------------------------------------
(* Properties.                                                             *)

Bar == 0 .. job.length
Cut == [train_start : {0}, train_end : Nat, test_start : Nat, test_end : Nat]

WindowsTypeOK ==
  /\ job \in Jobs
  /\ status \in {"asked", "evaluating", "done", "raised"}
  /\ ranges \in Seq(Cut)
  /\ \A i \in DOMAIN ranges :
       ranges[i].train_end \in Bar /\ ranges[i].test_start \in Bar /\ ranges[i].test_end \in Bar
  /\ scores \in Seq([is : Sharpes \cup {0}, oos : Sharpes \cup {0}])
  /\ gate \in {"none", "passed", "failed"}

\* The bars that must be free before a test: the purge and the embargo, where there
\* are any bars before them to train on.
Gap(r) ==
  IF job.kind = "folds"
  THEN IF r.test_start > job.embargo THEN job.embargo ELSE 0
  ELSE IF r.train_end > 0 THEN job.purge + job.embargo ELSE job.embargo

\* No fold or window trains on bars it tests, or a later one tests, or on those next
\* to its own test: what is learned never comes from what it is judged by
\* (_compute_folds and generate_walk_forward_windows).
NoLookahead ==
  \A i, j \in DOMAIN ranges :
    i <= j => ranges[i].train_end + Gap(ranges[i]) <= ranges[j].test_start

\* Every bar after the first block is tested by exactly one fold, although the data
\* need not divide evenly; windows never test a bar twice.
TestedOnce ==
  \A b \in BarsOf(0, job.length) :
    LET testing == {i \in DOMAIN ranges : ranges[i].test_start <= b /\ b < ranges[i].test_end}
    IN  /\ \A i, j \in testing : i = j
        /\ job.kind = "folds" /\ status = "done" /\ b >= FoldBlock => testing # {}

GroupBars(groups) == UNION {BarsOf(GroupStart(g), GroupEnd(g)) : g \in groups}

\* What the scan of a group leaves is all that is farther than the purge before every
\* test bar and farther than the embargo behind it, even where the zones of several
\* test groups meet (_apply_purge_embargo).
TrainKeepsItsDistance ==
  job.kind = "cpcv" /\ status = "asked" =>
    \A tests \in kSubset(job.k, Groups) :
      UNION {BarsOf(r[1], r[2]) : r \in TrainRanges(tests)}
        = {b \in GroupBars(Groups \ tests) :
             \A t \in GroupBars(tests) : b + job.purge < t \/ t + job.embargo < b}

SameOrder(s, t) == \A c, d \in DOMAIN s : s[c] < s[d] <=> t[c] < t[d]
OppositeOrder(s, t) == \A c, d \in DOMAIN s : c # d => s[c] # s[d] /\ (s[c] < s[d] <=> t[d] < t[c])

\* The gate stops a candidate whose results out of sample reverse those in sample,
\* and lets one pass that keeps their order (compute_pbo).
GateFollowsRanks ==
  gate # "none" =>
    LET is == Values("is")  oos == Values("oos")
    IN  /\ OppositeOrder(is, oos) => gate = "failed"
        /\ SameOrder(is, oos) /\ is # oos => gate = "passed"

\* A candidate that passed the gate was evaluated.
PassedOnEvidence == gate = "passed" => job.evaluates
=============================================================================
