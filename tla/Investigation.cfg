\* The three analyzers in parallel, two iterations of up to two calls; two samples,
\* of which either may be stored without the other, and one incident that is
\* analyzed again and again.
CONSTANTS
  Analyzers = {"trace_analyzer", "log_correlator", "metric_reasoner"}
  Incidents = {i1}
  Samples = {s1, s2}
  MaxIterations = 2
  MaxCalls = 2
SPECIFICATION FairSpec
INVARIANTS
  SeenBeforeAsked
  OneQuerier
PROPERTIES
  SeedsSettle
  InvestigationEnds
