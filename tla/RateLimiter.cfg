\* Three handlers of two services: two race to insert while a third calls.  A
\* period fills up some of what is missing, or would fill more.
CONSTANTS
  Handlers = {h1, h2, h3}
  Services = {a, b}
  Watched = a
  Capacity = 3
  Rate = 2
  Per = 2
  Requests = {}
  MaxNow = 4
SPECIFICATION Spec
INVARIANTS
  OneBucket
  ServiceWindowBound
PROPERTIES
  IsTokenBucket
  ServiceRefillClock
SYMMETRY HandlerSymmetry
