\* Two handlers and services, and a threshold that takes two of their logs or
\* one trace of two errors; a trace may carry errors of the other service.
CONSTANTS
  FailureLimit = 1
  Timeout = 1
  Incidents = {i1, i2}
  Handlers = {h1, h2}
  a = a
  b = b
  Services = {a, b}
  Threshold = 2
  Capacity = 1
  Batches <- GatewayBatches
  MaxErrors = 2
SPECIFICATION FairGatewaySpec
INVARIANTS
  BurstIsSeen
PROPERTIES
  IsDispatch
  RequestsAnswered
