-------------------------------- MODULE MCBacktest --------------------------------
(* The two halves of a backtest, each explored by itself: how its results  *)
(* are published and ingested, and the engine beside the batch evaluator.  *)
(*                                                                         *)
(* Bars, specifications and candidates are small enough for TLC.           *)
EXTENDS BacktestResults, BacktestEngine

Bar(low, high, bid, session, quarantined, a, b) ==
  [low |-> low, high |-> high, bid |-> bid, ask |-> bid + 1, atr |-> 2, session |-> session,
   quarantined |-> quarantined, col |-> [a |-> a, b |-> b]]

\* Low and high signals on rising, falling and wide bars.
MCBars ==
  {Bar(10, 13, 12, "london", FALSE, 0, 1), Bar(12, 15, 14, "london", FALSE, 2, 1),
   Bar(6, 11, 8, "london", FALSE, 0, 0), Bar(5, 20, 13, "asian", FALSE, 2, 1),
   Bar(14, 17, 16, "london", TRUE, 2, 1), Bar(11, 14, 13, "unknown", FALSE, 1, 0)}

Crossing(cmp) == [column |-> "a", cmp |-> cmp, threshold |-> 1]
Above(column) == [column |-> column, cmp |-> ">", threshold |-> 0]

Strategy(conditions, sessions, sl, tp, trailing, folds) ==
  [folds |-> folds, conditions |-> conditions, sessions |-> sessions, sl |-> sl, tp |-> tp, trailing |-> trailing]
Rule(type, value) == [type |-> type, value |-> value]

Sessions == {"london", "asian", "unknown"}

MCStrategies ==
  {Strategy(<<Crossing("crosses_above"), Crossing("crosses_below")>>, Sessions,
            Rule("atr_multiple", 2), Rule("risk_reward", 1), Rule("chandelier", 1), {}),
   Strategy(<<Above("b"), Crossing("crosses_above")>>, {"london"},
            Rule("atr_multiple", 2), Rule("none", 0), Rule("chandelier", 1), {}),
   Strategy(<<Above("a")>>, Sessions,
            Rule("fixed_pips", 3), Rule("atr_multiple", 2), Rule("trailing_stop", 2), {<<0, 1>>})}

MCCandidates == <<[sl |-> 2, rr |-> 1, trail |-> 1], [sl |-> 1, rr |-> 3, trail |-> 2]>>
MCCosts == [s \in {"london", "asian"} |-> IF s = "london" THEN 0 ELSE 1]

\* The trades that the processes find: none or many, then fewer or as many, then fewer.
MCTrades == <<{0, 2}, {1, 2}, {1}>>

VARIABLE part

PartsInit ==
  /\ Init /\ EngineInit
  /\ part \in {"results", "engine"}
  /\ part = "results" => strategy = CHOOSE s \in Strategies : TRUE

PartsNext ==
  /\ UNCHANGED part
  /\ \/ part = "results" /\ Next /\ UNCHANGED engine
        /\ \A j \in Jobs : jobs[j].os = "none" /\ jobs'[j].os # "none" => jobs'[j].trades \in MCTrades[j]
     \/ part = "engine" /\ EngineNext /\ UNCHANGED vars

\* The fairness of BacktestResults, in its part.
PartsSpec ==
  /\ PartsInit /\ [][PartsNext]_<<part, vars, engine>>
  /\ WF_vars(part = "results" /\ Step) /\ WF_vars(part = "results" /\ Invoke)
  /\ \A j \in Jobs : WF_vars(part = "results" /\ WriteResult(j))
                    /\ WF_vars(part = "results" /\ Exit(j))

\* A strategy that is invoked over and over gets to the review (see BacktestResults).
ReviewReached == part = "results" => GetsToReview

\* The candidates of the batch are active or idle; it and the metrics find the deepest
\* drawdown; the engine and the batch open on the same first bar, and close what they open
\* alike on the same bar for the same reason (see BacktestEngine, which has BooksBalance
\* and LevelsOnlyTighten too).
EnginesAgree ==
  EngineTypeOK /\ ActiveOrIdle /\ DrawdownIsDeepest /\ SameExits /\ FirstEntryAgrees
=============================================================================
