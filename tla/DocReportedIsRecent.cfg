\* A window of four, left behind by the errors in it.
CONSTANTS
  Handlers = {h1}
  Services = {a}
  Buckets = 2
  Interval = 2
  Threshold = 2
  Start = 6
  Horizon = 12
  MaxErrors = 3
SPECIFICATION Spec
INVARIANT ReportedIsRecent
