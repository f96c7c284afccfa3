----------------------------- MODULE BacktestEngine -----------------------------
(***************************************************************************)
(* The two evaluators of the backtester crate on the same bars: the engine *)
(* of a single backtest (engine.rs, position.rs, trade_simulator.rs), which*)
(* may be cancelled or killed and resumed from its checkpoint, and the     *)
(* vectorized evaluator of a group of candidates (batch_eval.rs).          *)
(*                                                                         *)
(* A bar is chosen when it is first read; it is in the file all along.     *)
(* Bars are numbered from 0.  Levels and prices of a position are stored   *)
(* times its direction, so that a stop is always hit from above.           *)
(***************************************************************************)
EXTENDS Integers, Sequences, FiniteSets, SequencesExt

CONSTANTS
  Bars,         \* the bars data may hold: [high, low, bid, ask, atr, session, quarantined, col]
  Strategies,   \* specifications [conditions, sessions, sl, tp, trailing], with the fold
                \* boundaries of the run: pairs of bars
  Candidates,   \* parameters of the batch: [sl, rr, trail] by candidate number
  Costs,        \* cost of a fill by session, for the sessions of the cost model
  EmbargoBars,
  Length,       \* the number of bars
  CheckpointInterval,
  MaxResumes    \* bound on processes after the first

\* The values of a bar, of a specification and of the cost model are fixed-point numbers;
\* no level is farther than Far.  The validator of specifications refuses a distance that
\* is not positive.
ASSUME BarsAssumption ==
  \A bar \in Bars :
    /\ {bar.high, bar.low, bar.bid, bar.ask} \subseteq Int /\ bar.atr \in Nat
    /\ bar.quarantined \in BOOLEAN
ASSUME StrategiesAssumption ==
  \A s \in Strategies :
    /\ {s.sl.value, s.tp.value, s.trailing.value} \subseteq Nat
    /\ s.sl.value > 0 /\ (s.tp.type # "none" => s.tp.value > 0)
ASSUME CandidatesAssumption == Candidates \in Seq([sl : Nat, rr : Nat, trail : Nat])
ASSUME CostsAssumption == \A session \in DOMAIN Costs : Costs[session] \in Int
ASSUME BoundsOfRunAssumption ==
  /\ {Length, CheckpointInterval} \subseteq Nat \ {0}
  /\ {EmbargoBars, MaxResumes} \subseteq Nat

VARIABLES
  strategy,   \* the specification under test
  data,       \* the bars read so far
  status,     \* of the engine's process
  eng,        \* the engine: next bar, position, books
  ckpt,       \* .partial/checkpoint.json
  resumes,
  ledger,     \* history: the trades behind the books, by trade_id
  seen,       \* history: the bars the engine evaluated on the way to its state
  bat         \* the batch evaluator

engine == <<strategy, data, status, eng, ckpt, resumes, ledger, seen, bat>>

Ids == DOMAIN Candidates
Far == 1000000                    \* no such level
Flat == [dir |-> 0]
NoCheckpoint == [last |-> -1]
NoValue == -Far                   \* no previous value: None, NaN

----------------------------------------------------------------------------
(* A bar seen from a direction.                                            *)

Best(bar, dir) == IF dir = 1 THEN bar.high ELSE -bar.low
Worst(bar, dir) == IF dir = 1 THEN bar.low ELSE -bar.high
Entry(bar, dir) == IF dir = 1 THEN bar.ask ELSE -bar.bid
Current(bar, dir) == IF dir = 1 THEN bar.bid ELSE -bar.ask

\* apply_cost: every fill is worse by the cost of the session.
Cost(bar) == Costs[bar.session]
Costed(bar) == bar.session \in DOMAIN Costs
BatchCost(bar) == IF Costed(bar) THEN Cost(bar) ELSE 0

IsEmbargo(n) == \E fold \in strategy.folds : n > fold[2] /\ n <= fold[2] + EmbargoBars

----------------------------------------------------------------------------
(* The signal of a bar.                                                    *)

Passes(c, value) ==
  CASE c.cmp = ">"  -> value > c.threshold
    [] c.cmp = "<"  -> value < c.threshold
    [] c.cmp = ">=" -> value >= c.threshold
    [] c.cmp = "<=" -> value <= c.threshold
    [] c.cmp = "==" -> value = c.threshold

Crosses(c, prev, value) ==
  /\ prev # NoValue
  /\ \/ c.cmp = "crosses_above" /\ prev <= c.threshold /\ value > c.threshold
     \/ c.cmp = "crosses_below" /\ prev >= c.threshold /\ value < c.threshold

IsDirectional(c) == c.cmp \in {"crosses_above", "crosses_below"}

\* The conditions by their position, and their columns.
Directional == {k \in DOMAIN strategy.conditions : IsDirectional(strategy.conditions[k])}
Filters == DOMAIN strategy.conditions \ Directional
Column(k) == strategy.conditions[k].column
Columns == {Column(k) : k \in DOMAIN strategy.conditions}

\* The direction of the first of the conditions that fire; of filters alone, long.
Fired(firing) ==
  IF Directional = {} THEN (IF Filters # {} THEN 1 ELSE 0)
  ELSE IF firing = {} THEN 0
  ELSE LET first == CHOOSE k \in firing : \A j \in firing : k <= j
       IN  IF strategy.conditions[first].cmp = "crosses_above" THEN 1 ELSE -1

FilterPasses(k, bar) == Passes(strategy.conditions[k], bar.col[Column(k)])
FiltersPass(bar) == \A k \in Filters : FilterPasses(k, bar)

\* The filters the engine gets to: up to the first that fails.
Reached(bar) == {k \in Filters : \A j \in Filters : j < k => FilterPasses(j, bar)}

\* The previous values of the engine are kept by column, and a filter sets that of its
\* column before the crossings are looked for.
Filtered(prev, bar) ==
  [c \in DOMAIN prev |-> IF \E k \in Reached(bar) : Column(k) = c THEN bar.col[c] ELSE prev[c]]

EngineSignal(prev, bar) ==
  LET firing == {k \in Directional :
                   Crosses(strategy.conditions[k], Filtered(prev, bar)[Column(k)],
                           bar.col[Column(k)])}
  IN  IF FiltersPass(bar) /\ bar.session \in strategy.sessions THEN Fired(firing) ELSE 0

NextPrev(prev, bar) ==
  [c \in DOMAIN prev |->
     IF \E k \in Directional : Column(k) = c THEN bar.col[c] ELSE Filtered(prev, bar)[c]]

\* Those of the batch are kept by condition.  Sessions that are not in the data are
\* dropped from the filter, and an empty filter lets every session pass.
AllowedSessions == strategy.sessions \cap {bar.session : bar \in Bars}

BatchSignal(prev, bar) ==
  LET firing == {k \in Directional :
                   Crosses(strategy.conditions[k], prev[k], bar.col[Column(k)])}
  IN  IF FiltersPass(bar) /\ (AllowedSessions = {} \/ bar.session \in AllowedSessions)
      THEN Fired(firing) ELSE 0

----------------------------------------------------------------------------
(* Positions.                                                              *)

StopDistance(bar, sl) ==
  IF strategy.sl.type = "atr_multiple" /\ bar.atr > 0 THEN bar.atr * sl ELSE strategy.sl.value

TakeDistance(bar, stop) ==
  CASE strategy.tp.type = "none"        -> Far
    [] strategy.tp.type = "risk_reward" -> stop * strategy.tp.value
    [] strategy.tp.type = "atr_multiple" /\ bar.atr > 0 -> bar.atr * strategy.tp.value
    [] OTHER                            -> strategy.tp.value

\* The distance of a trailing stop, 0 when there is none.
TrailingDistance(bar) ==
  CASE strategy.trailing.type = "trailing_stop" -> strategy.trailing.value
    [] strategy.trailing.type = "chandelier" /\ bar.atr > 0 -> bar.atr * strategy.trailing.value
    [] OTHER -> 0

Opened(bar, n, dir, price, stop, take, trail) ==
  [dir |-> dir, at |-> n, price |-> price, sl |-> price - stop,
   tp |-> IF take = Far THEN Far ELSE price + take,
   trail |-> IF trail = 0 THEN -Far ELSE price - trail, distance |-> trail]

\* Mutant: the target first.
ExitReasonTargetFirst(pos, bar) ==
  IF Best(bar, pos.dir) >= pos.tp THEN "TakeProfit"
  ELSE IF Worst(bar, pos.dir) <= pos.sl THEN "StopLoss"
  ELSE IF Worst(bar, pos.dir) <= pos.trail THEN "TrailingStop"
  ELSE "none"

ExitReason(pos, bar) ==
  IF Worst(bar, pos.dir) <= pos.sl THEN "StopLoss"
  ELSE IF Best(bar, pos.dir) >= pos.tp THEN "TakeProfit"
  ELSE IF Worst(bar, pos.dir) <= pos.trail THEN "TrailingStop"
  ELSE "none"

Trailed(pos, bar) ==
  IF pos = Flat \/ pos.distance = 0 THEN pos
  ELSE LET level == Best(bar, pos.dir) - pos.distance
       IN  IF level > pos.trail THEN [pos EXCEPT !.trail = level] ELSE pos

\* build_trade_record: the fill is at bid or ask, whatever level was hit.
Trade(pos, bar, n, reason, exit) ==
  [dir |-> pos.dir, entry |-> pos.at, exit |-> n, reason |-> reason, pnl |-> exit - pos.price]

----------------------------------------------------------------------------
(* The engine.                                                             *)

Fresh(next, closed, count, pos) ==
  [next |-> next, first |-> next, pos |-> pos, closed |-> closed, count |-> count,
   prev |-> [c \in Columns |-> NoValue], peak |-> 0, equity |-> <<>>]

\* Exits are looked for on every bar; what is closed goes to the books.
Exited(e, bar, n, reason) ==
  IF reason = "none" THEN e
  ELSE [e EXCEPT !.pos = Flat, !.count = @ + 1,
                 !.closed = @ + Current(bar, e.pos.dir) - Cost(bar) - e.pos.price]

ReasonOn(e, bar) == IF e.pos = Flat THEN "none" ELSE ExitReason(e.pos, bar)

Recorded(e, bar, n) ==
  LET unrealized == IF e.pos = Flat THEN 0 ELSE Current(bar, e.pos.dir) - e.pos.price
      equity == e.closed + unrealized
  IN  [e EXCEPT !.equity = Append(@, <<n, equity>>), !.peak = IF equity > @ THEN equity ELSE @]

\* A bar under embargo or quarantine opens nothing and its values are not kept.
MayEnter(bar, n) == ~IsEmbargo(n) /\ ~bar.quarantined

Entered(e, bar, n) ==
  IF e.pos # Flat THEN e
  ELSE LET dir == EngineSignal(e.prev, bar)
           price == Entry(bar, dir) + Cost(bar)
           stop == StopDistance(bar, strategy.sl.value)
           pos == Opened(bar, n, dir, price, stop, TakeDistance(bar, stop), TrailingDistance(bar))
       IN  [e EXCEPT !.prev = NextPrev(@, bar), !.pos = IF dir = 0 THEN Flat ELSE pos]

\* A fill in a session the cost model does not know ends the run.
FillFails(e, bar, n) ==
  /\ ~Costed(bar)
  /\ \/ ReasonOn(e, bar) # "none"
     \/ e.pos = Flat /\ MayEnter(bar, n) /\ EngineSignal(e.prev, bar) # 0

Evaluated(e, bar, n) ==
  LET exited == Exited(e, bar, n, ReasonOn(e, bar))
      trailed == [exited EXCEPT !.pos = Trailed(@, bar)]
      entered == IF MayEnter(bar, n) THEN Entered(trailed, bar, n) ELSE trailed
  IN  [Recorded(entered, bar, n) EXCEPT !.next = n + 1]

\* Mutant: the counter of trades is not kept.
CheckpointWithoutCount(e, last) == [last |-> last, pos |-> e.pos, closed |-> e.closed, count |-> 0]

CheckpointOf(e, last) == [last |-> last, pos |-> e.pos, closed |-> e.closed, count |-> e.count]

\* continue on a bar without entries passes over the checkpoint.
CheckpointDue(e, bar, n) == n % CheckpointInterval = 0 /\ n > e.first /\ MayEnter(bar, n)

\* Mutant: a resumed trailing stop starts at its distance from the entry.
ResumedFresh(cp) ==
  Fresh(cp.last + 1, cp.closed, cp.count,
        IF cp.pos = Flat \/ cp.pos.distance = 0 THEN cp.pos
        ELSE [cp.pos EXCEPT !.trail = cp.pos.price - cp.pos.distance])

Resumed(cp) == Fresh(cp.last + 1, cp.closed, cp.count, cp.pos)

----------------------------------------------------------------------------
(* The batch evaluator.                                                    *)

\* The position of candidate i; a target at no distance is no target.
BatchOpened(i, bar, n, dir) ==
  LET stop == StopDistance(bar, Candidates[i].sl)
      take == CASE strategy.tp.type = "none" -> 0
                [] strategy.tp.type = "risk_reward" -> stop * Candidates[i].rr
                [] strategy.tp.type = "atr_multiple" /\ bar.atr > 0 -> stop * Candidates[i].rr
                [] OTHER -> strategy.tp.value
      trail == IF bar.atr > 0 THEN bar.atr * Candidates[i].trail ELSE 0
  IN  Opened(bar, n, dir, Entry(bar, dir) + BatchCost(bar), stop,
             IF take > 0 THEN take ELSE Far, trail)

\* Every idle candidate is opened at a signal, active ones go on.
OpenAll(b, bar, n, dir) ==
  [b EXCEPT !.active = b.active \o b.idle, !.idle = <<>>,
            !.pos = [i \in Ids |-> IF i \in Range(b.idle) THEN BatchOpened(i, bar, n, dir)
                                  ELSE b.pos[i]],
            !.best = [i \in Ids |-> IF i \in Range(b.idle) THEN Entry(bar, dir) + BatchCost(bar)
                                   ELSE b.best[i]]]

\* The fill is at the level that was hit.
HitLevel(pos, reason) ==
  CASE reason = "StopLoss" -> pos.sl [] reason = "TakeProfit" -> pos.tp [] OTHER -> pos.trail

BatchReason(pos, bar) ==
  LET hits == {r \in {"StopLoss", "TakeProfit", "TrailingStop"} :
                 CASE r = "StopLoss"   -> Worst(bar, pos.dir) <= pos.sl
                   [] r = "TakeProfit" -> Best(bar, pos.dir) >= pos.tp
                   [] OTHER            -> Worst(bar, pos.dir) <= pos.trail}
  IN  IF hits = {} THEN "none"
      ELSE CHOOSE r \in hits :
             /\ "StopLoss" \in hits => r = "StopLoss"
             /\ r = "TrailingStop" => "TakeProfit" \notin hits

\* A trailing stop follows the best price since the entry.
BatchBest(pos, best, bar) == IF Best(bar, pos.dir) > best THEN Best(bar, pos.dir) ELSE best

BatchTrailed(pos, best, bar) ==
  LET level == Best(bar, pos.dir) - pos.distance
  IN  IF Best(bar, pos.dir) > best /\ pos.distance > 0 /\ level > pos.trail
      THEN [pos EXCEPT !.trail = level] ELSE pos

\* Vec::swap_remove.
SwapRemove(seq, k) == SubSeq([seq EXCEPT ![k] = seq[Len(seq)]], 1, Len(seq) - 1)

\* A candidate goes from the active ones to the end of the idle ones.
Moved(lists, i) ==
  <<SwapRemove(lists[1], CHOOSE k \in DOMAIN lists[1] : lists[1][k] = i), Append(lists[2], i)>>

\* Those of out are deactivated, in the order they were active in.
Deactivate(b, out) ==
  LET lists[k \in 0 .. Len(b.active)] ==
        IF k = 0 THEN <<b.active, b.idle>>
        ELSE IF b.active[k] \in out THEN Moved(lists[k - 1], b.active[k]) ELSE lists[k - 1]
  IN  [b EXCEPT !.active = lists[Len(b.active)][1], !.idle = lists[Len(b.active)][2],
                !.pos = [i \in Ids |-> IF i \in out THEN Flat ELSE b.pos[i]]]

NoBook == [trades |-> <<>>, cum |-> 0, peak |-> 0, maxdd |-> 0]

\* record_pnl, with the trade it is about.
RecordPnl(book, trade) ==
  LET cum == book.cum + trade.pnl
      peak == IF cum > book.peak THEN cum ELSE book.peak
  IN  [trades |-> Append(book.trades, trade), cum |-> cum, peak |-> peak,
       maxdd |-> IF peak - cum > book.maxdd THEN peak - cum ELSE book.maxdd]

\* The book of candidate i once its position is closed.
Closed(b, i, bar, n, reason, level) ==
  RecordPnl(b.books[i], Trade(b.pos[i], bar, n, reason, level - BatchCost(bar)))

ProcessBar(b, bar, n) ==
  LET reason == [i \in Ids |-> IF i \in Range(b.active) THEN BatchReason(b.pos[i], bar)
                               ELSE "none"]
      out == {i \in Ids : reason[i] # "none"}
      on == Range(b.active) \ out
      c == [b EXCEPT
              !.books = [i \in Ids |-> IF i \notin out THEN b.books[i] ELSE
                          Closed(b, i, bar, n, reason[i], HitLevel(b.pos[i], reason[i]))],
              !.pos = [i \in Ids |-> IF i \in on THEN BatchTrailed(b.pos[i], b.best[i], bar)
                                    ELSE b.pos[i]],
              !.best = [i \in Ids |-> IF i \in on THEN BatchBest(b.pos[i], b.best[i], bar)
                                     ELSE b.best[i]]]
  IN  Deactivate(c, out)

BatchBar(b, bar, n) ==
  LET c == ProcessBar(b, bar, n)
      dir == BatchSignal(c.prev, bar)
      opened == IF dir = 0 THEN c ELSE OpenAll(c, bar, n, dir)
  IN  IF bar.quarantined THEN c
      ELSE [opened EXCEPT !.prev = [k \in Directional |-> bar.col[Column(k)]]]

CloseAllEod(b, bar, n) ==
  LET out == Range(b.active)
      c == [b EXCEPT !.books = [i \in Ids |-> IF i \notin out THEN b.books[i] ELSE
                                  Closed(b, i, bar, n, "EndOfData", Current(bar, b.pos[i].dir))]]
  IN  Deactivate(c, out)

----------------------------------------------------------------------------

EngineInit ==
  /\ strategy \in Strategies
  /\ data = <<>>
  /\ status = "running"
  /\ eng = Fresh(0, 0, 0, Flat)
  /\ ckpt = NoCheckpoint
  /\ resumes = 0
  /\ ledger = <<>>
  /\ seen = {}
  /\ bat = [pos |-> [i \in Ids |-> Flat], best |-> [i \in Ids |-> 0],
            active |-> <<>>, idle |-> [i \in Ids |-> i],
            prev |-> [k \in Directional |-> NoValue], books |-> [i \in Ids |-> NoBook],
            done |-> FALSE]

\* A bar no one has read yet; the batch evaluator reads it.
NewBar(bar) ==
  /\ Len(data) < Length /\ (eng.next >= Len(data) \/ status = "failed")
  /\ data' = Append(data, bar)
  /\ bat' = BatchBar(bat, bar, Len(data))
  /\ UNCHANGED <<strategy, status, eng, ckpt, resumes, ledger, seen>>

EndBatch ==
  /\ Len(data) = Length /\ ~bat.done
  /\ bat' = [CloseAllEod(bat, Last(data), Length - 1) EXCEPT !.done = TRUE]
  /\ UNCHANGED <<strategy, data, status, eng, ckpt, resumes, ledger, seen>>

EngineBar ==
  /\ status = "running" /\ eng.next < Len(data)
  /\ LET n == eng.next
         bar == data[n + 1]
         reason == ReasonOn(eng, bar)
     IN  IF FillFails(eng, bar, n)
         THEN status' = "failed" /\ UNCHANGED <<eng, ckpt, ledger, seen>>
         ELSE /\ eng' = Evaluated(eng, bar, n)
              /\ ckpt' = IF CheckpointDue(eng, bar, n) THEN CheckpointOf(eng', n) ELSE ckpt
              /\ ledger' = IF reason = "none" THEN ledger
                           ELSE Append(ledger, Trade(eng.pos, bar, n, reason,
                                                     Current(bar, eng.pos.dir) - Cost(bar)))
              /\ seen' = seen \cup {n}
              /\ UNCHANGED status
  /\ UNCHANGED <<strategy, data, resumes, bat>>

\* compute_max_drawdown, over the points of the engine: the deepest fall and the longest
\* time from a peak to the recovery, or to the end.
Fallen(d, p) ==
  IF p[2] >= d.peak
  THEN [peak |-> p[2], start |-> p[1], falling |-> FALSE, pips |-> d.pips,
        duration |-> IF d.falling /\ p[1] - d.start > d.duration THEN p[1] - d.start ELSE d.duration]
  ELSE [peak |-> d.peak, start |-> d.start, falling |-> TRUE,
        pips |-> IF d.peak - p[2] > d.pips THEN d.peak - p[2] ELSE d.pips,
        duration |-> d.duration]

Drawdown(points) ==
  LET after[k \in 0 .. Len(points)] ==
        IF k = 0 THEN [peak |-> points[1][2], start |-> points[1][1], falling |-> FALSE,
                       pips |-> 0, duration |-> 0]
        ELSE Fallen(after[k - 1], points[k])
      end == after[Len(points)]
  IN  <<end.pips,
        IF end.falling /\ Last(points)[1] - end.start > end.duration
        THEN Last(points)[1] - end.start ELSE end.duration>>

\* The end of the data: the position is closed on the last bar, and a point added.
EndEngine ==
  /\ status = "running" /\ eng.next >= Length /\ Len(data) = Length
  /\ LET bar == Last(data)
         closed == Exited(eng, bar, Length - 1, "EndOfData")
     IN  IF eng.pos = Flat THEN status' = "done" /\ UNCHANGED <<eng, ledger>>
         ELSE IF ~Costed(bar) THEN status' = "failed" /\ UNCHANGED <<eng, ledger>>
         ELSE /\ status' = "done"
              /\ eng' = Recorded(closed, bar, Length - 1)
              /\ ledger' = Append(ledger, Trade(eng.pos, bar, Length - 1, "EndOfData",
                                                Current(bar, eng.pos.dir) - Cost(bar)))
  /\ UNCHANGED <<strategy, data, ckpt, resumes, seen, bat>>

\* The cancel flag is seen before the bar is: the checkpoint names a bar that was not
\* evaluated.
Cancel ==
  /\ status = "running" /\ eng.next < Length
  /\ ckpt' = CheckpointOf(eng, eng.next)
  /\ status' = "down"
  /\ UNCHANGED <<strategy, data, eng, resumes, ledger, seen, bat>>

Kill ==
  /\ status = "running"
  /\ status' = "down"
  /\ UNCHANGED <<strategy, data, eng, ckpt, resumes, ledger, seen, bat>>

\* A process with --checkpoint, or without when there is none.  The histories go back
\* to what the checkpoint stands for.
Resume ==
  /\ status = "down" /\ resumes < MaxResumes
  /\ status' = "running"
  /\ resumes' = resumes + 1
  /\ eng' = IF ckpt = NoCheckpoint THEN Fresh(0, 0, 0, Flat) ELSE Resumed(ckpt)
  /\ ledger' = SubSeq(ledger, 1, eng'.count)
  /\ seen' = {n \in seen : n < eng'.next}
  /\ UNCHANGED <<strategy, data, ckpt, bat>>

EngineNext ==
  \/ \E bar \in Bars : NewBar(bar)
  \/ EndBatch \/ EngineBar \/ EndEngine \/ Cancel \/ Kill \/ Resume

EngineSpec == EngineInit /\ [][EngineNext]_engine

----------------------------------------------------------------------------
(* Properties.                                                             *)

IsPosition(pos) ==
  /\ pos.dir \in {1, -1} /\ pos.at \in 0 .. Length - 1 /\ pos.distance \in Nat
  /\ {pos.price, pos.sl, pos.tp, pos.trail} \subseteq Int

EngineTypeOK ==
  /\ strategy \in Strategies /\ data \in Seq(Bars) /\ Len(data) <= Length
  /\ status \in {"running", "down", "failed", "done"} /\ resumes \in 0 .. MaxResumes
  /\ eng.next \in 0 .. Length /\ eng.first \in 0 .. eng.next
  /\ eng.count \in Nat /\ eng.closed \in Int /\ (eng.pos = Flat \/ IsPosition(eng.pos))
  /\ ckpt = NoCheckpoint \/ (ckpt.last \in 0 .. Length - 1 /\ (ckpt.pos = Flat \/ IsPosition(ckpt.pos)))
  /\ seen \subseteq 0 .. Length - 1
  /\ \A i \in Ids : bat.pos[i] = Flat \/ IsPosition(bat.pos[i])

Sum(made) ==
  LET SumOf[k \in 0 .. Len(made)] == IF k = 0 THEN 0 ELSE SumOf[k - 1] + made[k].pnl
  IN  SumOf[Len(made)]

\* The counter and the sum of the books are those of the trades that were made, also
\* when they come out of a checkpoint, and no two trades are open at once.
BooksBalance ==
  /\ eng.count = Len(ledger)
  /\ eng.closed = Sum(ledger)
  /\ \A k \in DOMAIN ledger : ledger[k].exit >= ledger[k].entry
  /\ \A k \in 2 .. Len(ledger) : ledger[k].entry >= ledger[k - 1].exit
  /\ eng.pos # Flat /\ ledger # <<>> => eng.pos.at >= Last(ledger).exit

\* The optimizer measures the exits the backtest makes: a candidate with the parameters
\* of the specification, opened by both on one bar, is closed by both on the same bar
\* for the same reason, when no bar of the trade was passed over by a resumption.
Comparable ==
  /\ strategy.trailing.type = "chandelier"
  /\ strategy.tp.type # "atr_multiple"
  /\ strategy.sl.type = "atr_multiple"
SpecCandidates ==
  {i \in Ids : /\ Candidates[i].sl = strategy.sl.value
               /\ Candidates[i].trail = strategy.trailing.value
               /\ strategy.tp.type = "risk_reward" => Candidates[i].rr = strategy.tp.value}

SameExits ==
  Comparable =>
    \A i \in SpecCandidates :
      \A t \in Range(ledger), u \in Range(bat.books[i].trades) :
        t.entry = u.entry /\ t.dir = u.dir /\ t.entry + 1 .. t.exit \subseteq seen
          => t.exit = u.exit /\ t.reason = u.reason

\* The two agree on the first entry of a specification whose filters and crossings are
\* on columns of their own, when nothing kept a bar from the engine.
FirstEntryOf(trades, pos) ==
  IF trades # <<>> THEN <<trades[1].entry, trades[1].dir>>
  ELSE IF pos # Flat THEN <<pos.at, pos.dir>> ELSE <<>>

SeparateColumns == \A k \in Filters, l \in Directional : Column(k) # Column(l)

FirstEntryAgrees ==
  SeparateColumns /\ AllowedSessions # {} /\ strategy.folds = {} /\ status # "failed"
    /\ seen = 0 .. Len(data) - 1 /\ resumes = 0
  => \A i \in Ids : FirstEntryOf(bat.books[i].trades, bat.pos[i]) = FirstEntryOf(ledger, eng.pos)

\* While a position is open its stop and its target stay, and its trailing stop moves in
\* its favour only: over bars, checkpoints and resumptions that did not go back.
LevelsOnlyTighten ==
  [][/\ eng.pos # Flat /\ eng'.pos # Flat /\ eng'.pos.at = eng.pos.at
        /\ eng'.next >= eng.next /\ eng'.pos.dir = eng.pos.dir
        => /\ eng'.pos.sl = eng.pos.sl /\ eng'.pos.tp = eng.pos.tp
           /\ eng'.pos.trail >= eng.pos.trail]_eng

\* Every candidate is either active, with a position, or idle, and in one place once.
ActiveOrIdle ==
  /\ IsInjective(bat.active \o bat.idle)
  /\ Range(bat.active \o bat.idle) = Ids
  /\ Range(bat.active) = {i \in Ids : bat.pos[i] # Flat}

\* The two one-pass drawdowns are those of the definition: that of the batch over the
\* sums of its trades, that of the metrics over the points of the engine.
Cumulated(trades) == [k \in 1 .. Len(trades) + 1 |-> Sum(SubSeq(trades, 1, k - 1))]

IsDeepest(fall, eq) ==
  /\ \E k \in DOMAIN eq : \E j \in 1 .. k : fall = eq[j] - eq[k]
  /\ \A k \in DOMAIN eq : \A j \in 1 .. k : fall >= eq[j] - eq[k]

\* From a peak j to k, the first point at or above it again, or a point before that one.
FromPeak(points, j, k) ==
  /\ \A i \in 1 .. j : points[i][2] <= points[j][2]
  /\ \A i \in j + 1 .. k - 1 : points[i][2] < points[j][2]
  /\ points[k][2] < points[j][2] \/ k > j + 1

Spans(points) ==
  UNION {{points[k][1] - points[j][1] : k \in {i \in j + 1 .. Len(points) : FromPeak(points, j, i)}} :
           j \in DOMAIN points}

DrawdownIsDeepest ==
  /\ \A i \in Ids : IsDeepest(bat.books[i].maxdd, Cumulated(bat.books[i].trades))
  /\ status = "done" /\ eng.equity # <<>> =>
       LET d == Drawdown(eng.equity)
       IN  /\ IsDeepest(d[1], [k \in DOMAIN eng.equity |-> eng.equity[k][2]])
           /\ d[2] \in Spans(eng.equity) \cup {0}
           /\ \A span \in Spans(eng.equity) : span <= d[2]
=============================================================================
