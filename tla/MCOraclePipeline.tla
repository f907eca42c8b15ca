--------------------------- MODULE MCOraclePipeline ---------------------------
(***************************************************************************)
(* OraclePipeline on small instances: weeks of two days, one station, one  *)
(* region.                                                                 *)
(***************************************************************************)
EXTENDS OraclePipeline

Market(source, place, metric, period, ends) ==
    [source |-> source, place |-> place, metric |-> metric, period |-> period, ends |-> ends]

Rain(period, ends) == Market("bom", "s", "rain", period, ends)

\* Two metrics of one week and a day's electricity.
Mixed == {Rain("weekly", 2), Market("bom", "s", "heat", "weekly", 2),
          Market("aemo", "r", "rrp", "daily", 2)}

\* A week and a day in it.
DayAndWeek == {Rain("daily", 3), Rain("weekly", 4)}
=============================================================================
