\* Two traces of four spans in all, with a limit that cuts one; series of up
\* to five points; four past incidents, two of which a search may ask for.
CONSTANTS
  Traces = {t1, t2}
  MaxTime = 2
  MaxSpans = 4
  TraceLimit = 1
  LogLimit = 2
  StatsLimit = 3
  MaxValue = 2
  MaxPoints = 5
  Past = {p1, p2, p3, p4}
  Distances = {0, 1, 2}
  MaxDistance = 1
  MaxResults = 2
SPECIFICATION ToolsSpec
INVARIANTS
  FirstErrorTimes
  SpikeIsShort
  SearchIsTopN
