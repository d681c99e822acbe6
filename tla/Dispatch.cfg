\* Two failures trip the breaker and two probes follow, so five incidents let
\* a stale call report into a half-open period with both probes out.
CONSTANTS
  FailureLimit = 2
  Timeout = 1
  Incidents = {i1, i2, i3, i4, i5}
SPECIFICATION FairSpec
INVARIANTS
  CountMatchesState
  HalfOpenIsWatched
  GaugesAccount
PROPERTIES
  TwoProbeGate
  ProbeSpacing
  HalfOpenResolves
