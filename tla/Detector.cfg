\* Two checks race three errors of a service over two and a half intervals.
CONSTANTS
  Handlers = {h1, h2}
  Services = {a}
  Buckets = 3
  Interval = 2
  Threshold = 2
  Start = 5
  Horizon = 10
  MaxErrors = 3
SPECIFICATION Spec
INVARIANT CheckIsAccurate
SYMMETRY HandlerSymmetry
