--------------------------------- MODULE MCData ---------------------------------
(* The two parts of the data pipeline, each explored by itself: one        *)
(* download on its way through the stages, and the files over several runs.*)
EXTENDS DataArtifacts, MarketData

MCPeriod == [M5 |-> 4, H1 |-> 8, D1 |-> 16, W |-> 32]
MCOffset == [D1 |-> 8, W |-> 8]
MCSchedule == [asian |-> [start |-> 0, end |-> 6], london |-> [start |-> 6, end |-> 12],
               new_york |-> [start |-> 10, end |-> 14],
               london_ny_overlap |-> [start |-> 10, end |-> 12],
               off_hours |-> [start |-> 14, end |-> 0]]
MCSplits == {[mode |-> "ratio", at |-> 7], [mode |-> "date", at |-> 7]}

\* A bar that falls or rises with its time, or one of the odd kinds.
Bar(t, kind) ==
  LET o == 5 + t \div 6  c == o + (IF (t \div 2) % 3 = 0 THEN -1 ELSE 1)
      At(open, high, low, close, ask) ==
        [t |-> t, open |-> open, high |-> high, low |-> low, close |-> close,
         bid |-> close, ask |-> ask]
  IN  CASE kind = "plain" -> At(o, Max({o, c}) + (t % 4), Min({o, c}) - 1, c, c + 1)
        [] kind = "frozen" -> At(o, o, o, o, o + 1)
        [] kind = "zero_spread" -> At(o, Max({o, c}), Min({o, c}), c, c)
        [] kind = "no_ask" -> At(o, Max({o, c}), Min({o, c}), c, 0)
        [] kind = "wide" -> At(o, Max({o, c}), Min({o, c}), c, c + 4)
        [] kind = "low_gt_open" -> At(o, o + 4, o + 1, o + 2, o + 3)
        [] kind = "no_bid" -> At(o, o, 0, 0, 1)

Kinds == {"frozen", "zero_spread", "no_ask", "wide", "low_gt_open", "no_bid"}
Frames ==
  UNION {{{Bar(t, IF t \in odd THEN kind ELSE "plain") : t \in times} :
            odd \in {o \in SUBSET times : Cardinality(o) <= 2}, kind \in Kinds} :
          times \in kSubset(5, {0, 4, 8, 10, 12, 14, 20})}
HoledFrames ==
  {{Bar(t, IF t \in odd THEN kind ELSE "plain") : t \in times} :
     odd \in kSubset(2, {4, 8, 10, 12, 20}), kind \in {"frozen", "no_bid"},
     times \in kSubset(6, {0, 4, 8, 10, 12, 14, 18, 20})}
TickFrames ==
  {{[t |-> t, bid |-> 4 + (t % 5), ask |-> 5 + (t % 5) + (t % 2)] : t \in times} :
     times \in kSubset(6, {0, 1, 2, 3, 6, 7, 9, 12, 17})}

\* Duplicates of the first row and of one in the middle were dropped: of each up to three.
Holes ==
  {{[t |-> 0, copy |-> i] : i \in 1 .. m} \cup {[t |-> 10, copy |-> i] : i \in 1 .. n} :
     m \in 0 .. 3, n \in 0 .. 1}

MCDownloads ==
  [resolution : {"M1"}, origin : {"download", "csv"}, rows : Frames, dropped : {{}}]
    \cup {d \in [resolution : {"M1"}, origin : {"download"}, rows : HoledFrames,
                 dropped : Holes] : \A x \in d.dropped : x.t \in Times(d.rows)}
    \cup [resolution : {"tick"}, origin : {"download", "csv"}, rows : TickFrames,
          dropped : {{}}]
MCFirstDownload == CHOOSE d \in MCDownloads : d.resolution = "tick"

VARIABLE part

PartsInit ==
  /\ part \in {"market", "files"}
  /\ Init /\ MarketInit
  /\ part = "market" => now = 1 /\ resolution = "M1"
  /\ part = "files" => download = MCFirstDownload

PartsNext ==
  /\ UNCHANGED part
  /\ \/ part = "market" /\ MarketNext /\ UNCHANGED vars
     \/ part = "files" /\ Next /\ UNCHANGED market

PartsSpec == PartsInit /\ [][PartsNext]_<<part, vars, market>>

\* The score, the periods of the report and the rows set aside tell one story (see
\* MarketData).
ReportMatchesQuarantine == ScoreTellsQuarantine /\ ReportCoversQuarantine

\* The bars of higher timeframes are made of sound prices, nest, and carry the sessions
\* of M1 (see MarketData).
TablesAgree ==
  MarketTypeOK /\ SoundBars /\ TimeframesNest /\ SessionsAgree

=================================================================================
