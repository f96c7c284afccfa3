------------------------------- MODULE MarketData -------------------------------
(***************************************************************************)
(* One download on its way through data_pipeline: the quality checks and   *)
(* the quarantine (quality_checker.py), the M1 table with its sessions     *)
(* (arrow_converter.py, session_labeler.py), the higher timeframes         *)
(* (timeframe_converter.py) and the split (data_splitter.py).              *)
(*                                                                         *)
(* Times are half minutes, so that two ticks can fall into one minute; the *)
(* lengths of the periods, of the day and of the thresholds are constants. *)
(* A row is a record: a bar has open, high, low, close, bid and ask, a     *)
(* tick bid and ask only.  A missing ask (NaN) is NoPrice.  The prices of  *)
(* bars made of ticks are doubled, so that the mid is an integer.          *)
(***************************************************************************)
EXTENDS Integers, FiniteSets, FiniteSetsExt

CONSTANTS
  Downloads,        \* records [resolution, origin, rows, dropped]: what there can be to
                    \* validate, and the duplicates _consolidate_chunks dropped from it
  GapThreshold,     \* gap_threshold_bars, or 5 minutes for ticks
  StaleConsecutive,
  SpreadMultiplier,
  FridayEvening,    \* times of a Friday at or after 20:00
  WeekOpening,      \* times of a Sunday at or after 21:00, and of Mondays
  Period,           \* length of an M5, H1 and D1 period, and of a week (W)
  Offset,           \* daily_open_utc_hour, and the beginning of the forex week
  Day,              \* length of a day
  Schedule,         \* [sessions]: each session's start and end within the day
  Splits            \* records [mode, at]: ratio in tenths, or the split date

Minute == 2
NoSplit == [mode |-> "none", at |-> 0]
NoPrice == 0
Timeframes == {"M5", "H1", "D1", "W"}
Prices == {"open", "high", "low", "close"}
Sessions == {"asian", "london", "new_york", "london_ny_overlap", "off_hours"}

VARIABLES
  stage,       \* the stage that comes next, "done", or "failed"
  download,    \* the record that was chosen
  report,      \* the quality report: score and quarantined periods
  flagged,     \* times of the rows marked quarantined
  m1_table,          \* the M1 table
  tables,      \* the table of each higher timeframe
  split,       \* the splitting configuration, NoSplit before it is read
  cut,         \* split_timestamp_us
  train, test  \* the two halves of each table

market == <<stage, download, report, flagged, m1_table, tables, split, cut, train, test>>

----------------------------------------------------------------------------
(* Quality checks.                                                         *)

Times(rows) == {r.t : r \in rows}
HasAsk(r) == r.ask # NoPrice
IsBar(r) == "open" \in DOMAIN r

\* Pairs of rows without another between them.
Neighbours(rows) ==
  {p \in rows \X rows : p[1].t < p[2].t /\ ~\E r \in rows : p[1].t < r.t /\ r.t < p[2].t}

\* Dropping duplicates leaves holes in the labels of the rows: the label of a row is its
\* position among the rows and the duplicates.
Label(d, r) ==
  Cardinality({q \in d.rows : q.t < r.t}) + Cardinality({x \in d.dropped : x.t < r.t})

\* The time of the row at a position, counted from zero.
TimeAt(rows, i) == Max({t \in Times(rows) : Cardinality({q \in rows : q.t < t}) <= i})

\* The rows behind a gap.  Their labels are then used as positions: timestamps.iloc raises
\* IndexError for a label past the last position.
BehindGaps(d) == {p[2] : p \in {q \in Neighbours(d.rows) : q[2].t - q[1].t > GapThreshold}}
OutOfBounds(d) == \E r \in BehindGaps(d) : Label(d, r) >= Cardinality(d.rows)

\* A gap is reported between the two rows at the positions label - 1 and label: in a frame
\* with holes, rows further on.
Gaps(d) ==
  {[start |-> TimeAt(d.rows, Label(d, r) - 1), end |-> TimeAt(d.rows, Label(d, r))] :
     r \in BehindGaps(d)}

IsWeekendGap(g) == g.start \in FridayEvening /\ g.end \in WeekOpening
TradingGaps(d) == {g \in Gaps(d) : ~IsWeekendGap(g)}

IntegrityIssues(rows) ==
  {[t |-> r.t, type |-> <<"non_positive", "bid">>] : r \in {b \in rows : b.bid <= 0}}
  \cup {[t |-> r.t, type |-> <<"inverted", "spread">>] :
          r \in {b \in rows : HasAsk(b) /\ b.ask <= b.bid}}
  \cup {[t |-> x[1].t, type |-> <<"non_positive", x[2]>>] :
          x \in {y \in {b \in rows : IsBar(b)} \X Prices : y[1][y[2]] <= 0}}
  \cup {[t |-> x[1].t, type |-> <<"high_lt", x[2]>>] :
          x \in {y \in {b \in rows : IsBar(b)} \X {"low", "open", "close"} :
                   y[1].high < y[1][y[2]]}}
  \cup {[t |-> x[1].t, type |-> <<"low_gt", x[2]>>] :
          x \in {y \in {b \in rows : IsBar(b)} \X {"open", "close"} :
                   y[1].low > y[1][y[2]]}}

Within(t, s) ==
  LET m == t % Day
  IN  IF s.start < s.end THEN s.start <= m /\ m < s.end ELSE s.start <= m \/ m < s.end

\* The sessions a time is in; the overlap does not go past midnight.
InForce(t) ==
  {s \in DOMAIN Schedule :
     /\ Within(t, Schedule[s])
     /\ s = "london_ny_overlap" => Schedule[s].start < Schedule[s].end}

\* The first of some sessions in an order, "off_hours" if there is none.
Ranked(sessions, order) ==
  LET found == {i \in DOMAIN order : order[i] \in sessions}
  IN  IF found = {} THEN "off_hours" ELSE order[Min(found)]

\* assign_sessions_bulk: a later session overwrites an earlier one, the overlap all.
BulkSession(t) ==
  Ranked(InForce(t), <<"london_ny_overlap", "off_hours", "new_york", "london", "asian">>)

\* compute_session_for_timestamp: the first session that matches.
FirstSession(t) ==
  Ranked(InForce(t), <<"london_ny_overlap", "asian", "london", "new_york", "off_hours">>)

Spread(r) == r.ask - r.bid

\* Twice the median of the spreads of some rows.
TwiceMedian(rows) ==
  LET n == Cardinality(rows)
      Nth(k) == Min({v \in {Spread(r) : r \in rows} :
                       Cardinality({r \in rows : Spread(r) <= v}) >= k})
  IN  Nth((n + 1) \div 2) + Nth(n \div 2 + 1)

SpreadOutliers(rows) ==
  LET Peers(r) == {q \in rows : HasAsk(q) /\ BulkSession(q.t) = BulkSession(r.t)}
  IN  {[t |-> r.t, type |-> <<"outlier", "spread">>] :
         r \in {q \in rows : /\ HasAsk(q) /\ TwiceMedian(Peers(q)) > 0
                             /\ 2 * Spread(q) > TwiceMedian(Peers(q)) * SpreadMultiplier}}

Issues(rows) == IntegrityIssues(rows) \cup SpreadOutliers(rows)

\* timestamps.iloc of a label, and timestamps.loc past the last position.
TimeOfLabel(d, r) ==
  IF Label(d, r) < Cardinality(d.rows) THEN TimeAt(d.rows, Label(d, r)) ELSE r.t

Between(rows, a, b) == {r \in rows : a.t <= r.t /\ r.t <= b.t}

\* The longest runs of consecutive rows of mask, when they have too many bars; told apart
\* by their first row.
Runs(d, mask) ==
  {[first |-> p[1].t, bars |-> Cardinality(Between(d.rows, p[1], p[2])),
    start |-> TimeOfLabel(d, p[1]), end |-> TimeOfLabel(d, p[2])] :
     p \in {q \in mask \X mask :
              /\ q[1].t <= q[2].t /\ Between(d.rows, q[1], q[2]) \subseteq mask
              /\ \A n \in Neighbours(d.rows) : /\ n[2] = q[1] => n[1] \notin mask
                                               /\ n[1] = q[2] => n[2] \notin mask
              /\ Cardinality(Between(d.rows, q[1], q[2])) > StaleConsecutive}}

StaleRecords(d) ==
  LET zero == {r \in d.rows : HasAsk(r) /\ r.bid = r.ask}
      frozen == {r \in d.rows : IsBar(r) /\ r.open = r.high /\ r.high = r.low /\ r.low = r.close}
  IN  {<<"zero_spread", run>> : run \in Runs(d, zero)}
      \cup {<<"frozen_price", run>> : run \in Runs(d, frozen)}

\* Mutant: the rows next to a gap are good.
QuarantinedNoGaps(d) ==
  {t \in Times(d.rows) :
     \/ \E i \in Issues(d.rows) : i.t = t
     \/ \E s \in StaleRecords(d) : s[2].start <= t /\ t <= s[2].end}

\* The rows at a gap that was reported, those with an issue and those of a stale run.
Quarantined(d) ==
  {t \in Times(d.rows) :
     \/ \E g \in TradingGaps(d) : g.start <= t /\ t <= g.end
     \/ \E i \in Issues(d.rows) : i.t = t
     \/ \E s \in StaleRecords(d) : s[2].start <= t /\ t <= s[2].end}

ErrorPeriod(s, group) ==
  [reason |-> "integrity_error", start |-> s, end |-> Max(Times(group)),
   bars |-> Cardinality(group)]

\* The errors, a new group after each hour without one.
ErrorPeriods(rows) ==
  LET Starts == {i.t : i \in {j \in Issues(rows) :
                   ~\E k \in Issues(rows) : k.t < j.t /\ j.t - k.t <= Period["H1"]}}
      Group(s) == {i \in Issues(rows) : i.t >= s /\ ~\E q \in Starts : s < q /\ q <= i.t}
  IN  {ErrorPeriod(s, Group(s)) : s \in Starts}

QuarantinedPeriods(d) ==
  {[reason |-> "gap", start |-> g.start, end |-> g.end,
    bars |-> Cardinality({t \in Times(d.rows) : g.start <= t /\ t <= g.end})] :
     g \in TradingGaps(d)}
  \cup {[reason |-> s[1], start |-> s[2].start, end |-> s[2].end, bars |-> s[2].bars] :
          s \in StaleRecords(d)}
  \cup ErrorPeriods(d.rows)

\* One, less a penalty of at most one for each kind of issue; in ten-thousandths, a
\* penalty rounded up.
One == 10000
Penalty(n, d) == IF d = 0 THEN 0 ELSE Min({One, (n * One + d - 1) \div d})

Penalties(d) ==
  LET n == Cardinality(d.rows)
      gapped == SumFunction([g \in TradingGaps(d) |-> g.end - g.start])
      stale == SumFunction([s \in StaleRecords(d) |-> s[2].bars])
  IN  Penalty(gapped * 14, Max(Times(d.rows)) - Min(Times(d.rows)))
      + Penalty(Cardinality(Issues(d.rows)) * 100, n) + Penalty(stale * 50, n)

QualityScore(d) == Max({0, One - Penalties(d)})

----------------------------------------------------------------------------
(* Tables.                                                                 *)

Floor(t, length, offset) == ((t - offset) \div length) * length + offset

\* Mutant: weeks from the epoch.
PeriodStartEpoch(t, tf) == Floor(t, Period[tf], IF tf = "D1" THEN Offset[tf] ELSE 0)

PeriodStart(t, tf) ==
  Floor(t, Period[tf], IF tf \in DOMAIN Offset THEN Offset[tf] ELSE 0)

First(rows) == CHOOSE r \in rows : \A q \in rows : r.t <= q.t
Last(rows) == CHOOSE r \in rows : \A q \in rows : q.t <= r.t

\* Mid prices; the label of M1 bars is that of the rows, or "off_hours" when these have
\* none, as the rows the quality checker returns.
AggregateTicks(ticks) ==
  LET In(m) == {r \in ticks : Floor(r.t, Minute, 0) = m}
      Mids(m) == {r.bid + r.ask : r \in In(m)}
  IN  {[t |-> m, open |-> First(In(m)).bid + First(In(m)).ask, high |-> Max(Mids(m)),
        low |-> Min(Mids(m)), close |-> Last(In(m)).bid + Last(In(m)).ask,
        bid |-> Last(In(m)).bid, ask |-> Last(In(m)).ask, session |-> "off_hours",
        quarantined |-> \E r \in In(m) : r.t \in flagged] :
         m \in {Floor(r.t, Minute, 0) : r \in ticks}}

Stamped(bars) ==
  {[t |-> r.t, open |-> r.open, high |-> r.high, low |-> r.low, close |-> r.close,
    bid |-> r.bid, ask |-> r.ask, session |-> BulkSession(r.t),
    quarantined |-> r.t \in flagged] : r \in bars}

\* _recompute_h1_session: the session of most minutes; of two with as many, one that
\* starts in the hour, or else the first in the alphabet.
H1Session(p) ==
  LET minutes == {p + Minute * m : m \in 0 .. Period["H1"] \div Minute - 1}
      Of(s) == {t \in minutes : FirstSession(t) = s}
      most == {s \in {FirstSession(t) : t \in minutes} :
                 \A t \in minutes : Cardinality(Of(FirstSession(t))) <= Cardinality(Of(s))}
      starting == {s \in most \cap DOMAIN Schedule :
                     (p % Day) <= Schedule[s].start
                     /\ Schedule[s].start < (p % Day) + Period["H1"]}
  IN  IF Cardinality(most) > 1 /\ starting # {}
      THEN CHOOSE s \in starting : \A q \in starting : Min(Of(s)) <= Min(Of(q))
      ELSE Ranked(most, <<"asian", "london", "london_ny_overlap", "new_york", "off_hours">>)

Usable(table) == {r \in table : ~r.quarantined}

\* convert_timeframe: the rows that are not quarantined, by period.
Converted(table, tf) ==
  LET rows == Usable(table)
      In(p) == {r \in rows : PeriodStart(r.t, tf) = p}
  IN  {[t |-> p, open |-> First(In(p)).open, high |-> Max({r.high : r \in In(p)}),
        low |-> Min({r.low : r \in In(p)}), close |-> Last(In(p)).close,
        bid |-> Last(In(p)).bid, ask |-> Last(In(p)).ask,
        session |-> CASE tf = "H1" -> H1Session(p)
                      [] tf = "M5" -> First(In(p)).session
                      [] OTHER -> "mixed",
        quarantined |-> FALSE] : p \in {PeriodStart(r.t, tf) : r \in rows}}

\* The rows of the training half of M1: a share of them, or those before the date.
M1Train(s) ==
  IF s.mode = "date" THEN {r \in m1_table : r.t < s.at}
  ELSE {r \in m1_table :
          Cardinality({q \in m1_table : q.t <= r.t}) <= (Cardinality(m1_table) * s.at) \div 10}

\* Mutant: each table by its own share.
TrainHalfOwn(tf) ==
  IF tf = "M1" THEN M1Train(split)
  ELSE {r \in tables[tf] : 10 * Cardinality({q \in tables[tf] : q.t <= r.t})
                           <= Cardinality(tables[tf]) * split.at}

\* The other tables are cut at the time of the last row in it.
TrainHalf(tf) == IF tf = "M1" THEN M1Train(split) ELSE {r \in tables[tf] : r.t < cut}
Table(tf) == IF tf = "M1" THEN m1_table ELSE tables[tf]

----------------------------------------------------------------------------

\* A frame has rows, in finite number and with prices; the times of bars are distinct, since
\* _consolidate_chunks drops duplicates, which it does for nothing but downloaded bars.
ASSUME RowsAssumption ==
  \A d \in Downloads :
    /\ d.resolution \in {"M1", "tick"} /\ IsFiniteSet(d.rows) /\ d.rows # {}
    /\ \A r \in d.rows : {r.t, r.bid, r.ask} \subseteq Int
    /\ d.resolution = "M1" =>
         /\ \A r \in d.rows : IsBar(r) /\ {r[p] : p \in Prices} \subseteq Int
         /\ \A q, r \in d.rows : q.t = r.t => q = r
    /\ IsFiniteSet(d.dropped) /\ \A x \in d.dropped : x.t \in Times(d.rows)
    /\ d.resolution = "tick" \/ d.origin = "csv" => d.dropped = {}
ASSUME CalendarAssumption ==
  /\ \A tf \in Timeframes : Period[tf] \in Nat \ {0}
  /\ \A tf \in DOMAIN Offset : Offset[tf] \in Int
  /\ \A s \in Splits : s.at \in Int

MarketInit ==
  /\ stage = "validate" /\ download \in Downloads /\ split = NoSplit
  /\ report = [score |-> 0, periods |-> {}] /\ flagged = {} /\ m1_table = {} /\ cut = 0
  /\ tables = [tf \in Timeframes |-> {}]
  /\ train = [tf \in {"M1"} \cup Timeframes |-> {}] /\ test = train

\* The times of a frame that was read from a CSV file are strings: the first difference of
\* two of them, when the errors are grouped, raises; so does a gap whose label is no
\* position.  By then nothing was saved.
CheckQuality ==
  /\ stage = "validate"
  /\ IF \/ OutOfBounds(download)
        \/ download.origin = "csv" /\ Cardinality(Issues(download.rows)) >= 2
     THEN stage' = "failed" /\ UNCHANGED <<report, flagged>>
     ELSE /\ stage' = "convert"
          /\ flagged' = Quarantined(download)
          /\ report' = [score |-> QualityScore(download),
                        periods |-> QuarantinedPeriods(download)]
  /\ UNCHANGED <<download, m1_table, tables, split, cut, train, test>>

\* Ticks are aggregated first; those of a frame read from CSV cannot be.  The minutes of
\* ticks already have a session, which is kept.
ConvertToArrow ==
  /\ stage = "convert"
  /\ IF download.resolution = "tick"
     THEN IF download.origin = "csv"
          THEN stage' = "failed" /\ UNCHANGED m1_table
          ELSE stage' = "timeframes" /\ m1_table' = AggregateTicks(download.rows)
     ELSE stage' = "timeframes" /\ m1_table' = Stamped(download.rows)
  /\ UNCHANGED <<download, report, flagged, tables, split, cut, train, test>>

ConvertTimeframes ==
  /\ stage = "timeframes"
  /\ tables' = [tf \in Timeframes |-> Converted(m1_table, tf)]
  /\ stage' = "cut"
  /\ UNCHANGED <<download, report, flagged, m1_table, split, cut, train, test>>

\* M1 is split first, for the time of the cut.  An empty half raises.
Cut ==
  /\ stage = "cut"
  /\ \E s \in Splits :
       /\ split' = s
       /\ IF M1Train(s) \in {{}, m1_table}
          THEN stage' = "failed" /\ UNCHANGED cut
          ELSE stage' = "split" /\ cut' = Last(M1Train(s)).t
  /\ UNCHANGED <<download, report, flagged, m1_table, tables, train, test>>

SplitAtCut ==
  /\ stage = "split"
  /\ IF \E tf \in Timeframes : TrainHalf(tf) \in {{}, Table(tf)}
     THEN stage' = "failed" /\ UNCHANGED <<train, test>>
     ELSE /\ stage' = "done"
          /\ train' = [tf \in DOMAIN train |-> TrainHalf(tf)]
          /\ test' = [tf \in DOMAIN test |-> Table(tf) \ TrainHalf(tf)]
  /\ UNCHANGED <<download, report, flagged, m1_table, tables, split, cut>>

MarketNext == CheckQuality \/ ConvertToArrow \/ ConvertTimeframes \/ Cut \/ SplitAtCut

MarketSpec == MarketInit /\ [][MarketNext]_market

----------------------------------------------------------------------------
(* Properties.                                                             *)

MarketTypeOK ==
  /\ stage \in {"validate", "convert", "timeframes", "cut", "split", "done", "failed"}
  /\ download \in Downloads /\ split \in Splits \cup {NoSplit}
  /\ report.score \in 0 .. One /\ flagged \subseteq Times(download.rows)
  /\ cut \in {0} \cup Times(m1_table)
  /\ tables \in [Timeframes -> SUBSET [t : Int, open : Int, high : Int, low : Int,
       close : Int, bid : Int, ask : Int, session : Sessions \cup {"mixed"},
       quarantined : {FALSE}]]
  /\ \A tf \in {"M1"} \cup Timeframes : train[tf] \cup test[tf] \in {{}, Table(tf)}

Checked == stage \in {"convert", "timeframes", "cut", "split", "done"}

\* The score and the quarantine tell the same story: no row is set aside without the score
\* falling, and in a frame without holes a score below one means that rows were set aside.
\* (With holes, a stale run may be reported to end before it starts: no row is set aside.)
ScoreTellsQuarantine ==
  Checked => /\ flagged # {} => report.score < One
             /\ download.dropped = {} /\ report.score < One => flagged # {}

\* Every quarantined row lies in a period of the report, and every row in the period of a
\* gap or of a stale run is quarantined, whatever the holes; in a frame without holes the
\* periods count no fewer rows than there are.  (Over a hole, a stale run sets aside more
\* rows than the report counts.)
ReportCoversQuarantine ==
  Checked =>
    /\ \A t \in flagged : \E p \in report.periods : p.start <= t /\ t <= p.end
    /\ \A p \in report.periods : p.reason # "integrity_error" =>
         \A t \in Times(download.rows) : p.start <= t /\ t <= p.end => t \in flagged
    /\ download.dropped = {} =>
         Cardinality(flagged) <= SumFunction([p \in report.periods |-> p.bars])

\* No price the checks reject gets into a bar of a higher timeframe.
SoundBars ==
  \A tf \in Timeframes : \A r \in tables[tf] :
    /\ 0 < r.low /\ r.low <= r.high
    /\ {r.open, r.close} \subseteq r.low .. r.high
    /\ HasAsk(r) => r.bid < r.ask

\* Every timeframe is made of M1, and says what it would say if it were made of the one
\* below it.
TimeframesNest ==
  LET Quotes(table) == {[t |-> r.t, quote |-> <<r.open, r.high, r.low, r.close, r.bid, r.ask>>] :
                          r \in table}
  IN  stage \in {"cut", "split", "done"} =>
        \A n \in {<<"M5", "H1">>, <<"H1", "D1">>, <<"D1", "W">>} :
          Quotes(Converted(tables[n[1]], n[2])) = Quotes(tables[n[2]])

\* The labels of M1 bars, assigned in bulk, are those the conversion to H1 computes one by
\* one.  (Bars made of ticks have none but "off_hours".)
SessionsAgree ==
  download.resolution = "M1" => \A r \in m1_table : r.session = FirstSession(r.t)

\* The M1 rows a bar of a higher timeframe is made of.
Sources(b, tf) == {r \in m1_table : ~r.quarantined /\ PeriodStart(r.t, tf) = b.t}
LateBars(tf) == {b \in train[tf] : Sources(b, tf) \cap test["M1"] # {}}
EarlyBars(tf) == {b \in test[tf] : Sources(b, tf) \cap train["M1"] # {}}

\* The halves are in order, and in each timeframe at most one bar has sources on both sides
\* of the cut; a bar for testing has no more of the training half than its last row.
CutIsSharp ==
  stage = "done" =>
    /\ \A tf \in DOMAIN train : \A a \in train[tf], b \in test[tf] : a.t < b.t
    /\ \A tf \in Timeframes :
         /\ Cardinality(LateBars(tf) \cup EarlyBars(tf)) <= 1
         /\ \A b \in EarlyBars(tf) : Sources(b, tf) \cap train["M1"] = {Last(train["M1"])}

\* "AC #2: no future data leaks into the training set": no bar for training is made of
\* prices after the cut.
NoFutureInTrain == \A tf \in Timeframes : LateBars(tf) = {}
=============================================================================
