--------------------------- MODULE DetectorProofs ---------------------------
(***************************************************************************)
(* What a check of the detector counts, for every number of buckets, every  *)
(* interval and every real clock.                                           *)
(*                                                                          *)
(* That a total without a lock is accurate rests on a defect: lastTick      *)
(* begins at a time no earlier than Start, and by ClockAssumption no tick   *)
(* ever exceeds Start; so increment() never enters the branch that moves    *)
(* lastTick and clears buckets (RecordStep), and the counters only grow.    *)
(***************************************************************************)
EXTENDS Detector, FiniteSetTheorems, TLAPS

\* Counters began after the program did.
LastTickInv ==
  \A s \in Services : errCounts[s] # NoCounter => errCounts[s].lastTick >= Start

IInv == TypeOK /\ LastTickInv

LEMMA NoCounterIsNone == NoCounter \notin Counter
BY DEF NoCounter, Counter

LEMMA TickBounds ==
  ASSUME NEW t \in Start .. Horizon
  PROVE  TickOf(t) \in Nat /\ TickOf(t) <= Start /\ TickOf(t) % Buckets \in Indices
<1>1. t \div Interval <= Start
  BY ClockAssumption
<1>2. t \in Nat /\ Interval \in Nat \ {0} /\ Buckets \in Nat \ {0}
  BY DetectorAssumption
<1>3. t \div Interval \in Nat
  BY <1>2
<1> DEFINE q == t \div Interval
<1>4. q \in Nat
  BY <1>3
<1> HIDE DEF q
<1>5. q % Buckets \in 0 .. Buckets - 1
  BY <1>2, <1>4
<1> QED BY <1>1, <1>3, <1>5 DEF TickOf, Indices, q

\* What increment() does under any real clock.
LEMMA IncrementedForm ==
  ASSUME NEW c \in Counter, c.lastTick >= Start, NEW t \in Start .. Horizon
  PROVE  LET i == TickOf(t) % Buckets IN
         /\ i \in Indices
         /\ Incremented(c, t) = [buckets  |-> [c.buckets EXCEPT ![i] = @ + 1],
                                 lastTick |-> c.lastTick]
<1> DEFINE tick == TickOf(t)
<1>1. tick \in Nat /\ tick <= Start /\ tick % Buckets \in Indices
  BY TickBounds
<1>2. ~(tick > c.lastTick)
  BY <1>1, DetectorAssumption DEF Counter
<1> QED BY <1>1, <1>2, Zenon DEF Incremented

LEMMA IncrementedGrows ==
  ASSUME NEW c \in Counter, c.lastTick >= Start, NEW t \in Start .. Horizon
  PROVE  /\ Incremented(c, t) \in Counter
         /\ Incremented(c, t).lastTick = c.lastTick
         /\ \A i \in Indices : Incremented(c, t).buckets[i] >= c.buckets[i]
<1> DEFINE j == TickOf(t) % Buckets
           b == [c.buckets EXCEPT ![j] = @ + 1]
<1>1. /\ j \in Indices
      /\ Incremented(c, t) = [buckets |-> b, lastTick |-> c.lastTick]
  BY IncrementedForm
<1>2. c.buckets \in [Indices -> Nat] /\ c.lastTick \in Nat
  BY DEF Counter
<1> HIDE DEF j
<1>3. b \in [Indices -> Nat] /\ \A i \in Indices : b[i] >= c.buckets[i]
  BY <1>1, <1>2
<1> HIDE DEF b
<1> QED BY <1>1, <1>2, <1>3 DEF Counter

\* The counter that RecordError raises.
LEMMA NewCounterOK ==
  ASSUME NEW t \in Start .. Horizon
  PROVE  NewCounter(t) \in Counter /\ NewCounter(t).lastTick >= Start
BY DetectorAssumption DEF NewCounter, Counter, Zeros

-----------------------------------------------------------------------------

\* RecordError keeps the other counters, and raises or creates its own.
LEMMA RecordStep ==
  ASSUME IInv, NEW s \in Services, RecordError(s)
  PROVE  /\ errCounts' \in [Services -> Counter \union {NoCounter}]
         /\ \A x \in Services :
              errCounts'[x] # errCounts[x] =>
                errCounts'[x] \in Counter /\ errCounts'[x].lastTick >= Start
         /\ \A x \in Services :
              errCounts[x] # NoCounter =>
                /\ errCounts'[x] # NoCounter
                /\ errCounts'[x].lastTick = errCounts[x].lastTick
                /\ \A i \in Indices :
                     errCounts'[x].buckets[i] >= errCounts[x].buckets[i]
<1> DEFINE c == IF errCounts[s] = NoCounter THEN NewCounter(now) ELSE errCounts[s]
           d == Incremented(c, now)
<1>1. /\ errCounts \in [Services -> Counter \union {NoCounter}]
      /\ now \in Start .. Horizon
  BY DEF IInv, TypeOK
<1>2. c \in Counter /\ c.lastTick >= Start
  <2>1. CASE errCounts[s] = NoCounter
    BY <1>1, <2>1, NewCounterOK
  <2>2. CASE errCounts[s] # NoCounter
    BY <1>1, <2>2 DEF IInv, LastTickInv
  <2> QED BY <2>1, <2>2
<1>3. errCounts' = [errCounts EXCEPT ![s] = d]
  BY DEF RecordError
<1>4. errCounts[s] # NoCounter => c = errCounts[s]
  OBVIOUS
<1> HIDE DEF c
<1>5. /\ d \in Counter /\ d.lastTick = c.lastTick
      /\ \A i \in Indices : d.buckets[i] >= c.buckets[i]
  BY <1>1, <1>2, IncrementedGrows
<1> HIDE DEF d
<1>6. \A x \in Services : errCounts'[x] = IF x = s THEN d ELSE errCounts[x]
  BY <1>1, <1>3
<1>7. errCounts' \in [Services -> Counter \union {NoCounter}]
  BY <1>1, <1>3, <1>5
<1>8. \A x \in Services :
        errCounts'[x] # errCounts[x] =>
          errCounts'[x] \in Counter /\ errCounts'[x].lastTick >= Start
  BY <1>2, <1>5, <1>6
<1>9. ASSUME NEW x \in Services, errCounts[x] # NoCounter
      PROVE  /\ errCounts'[x] # NoCounter
             /\ errCounts'[x].lastTick = errCounts[x].lastTick
             /\ \A i \in Indices :
                  errCounts'[x].buckets[i] >= errCounts[x].buckets[i]
  <2>1. CASE x = s
    BY <1>4, <1>5, <1>6, <1>9, <2>1, NoCounterIsNone, Zenon
  <2>2. CASE x # s
    <3>1. errCounts[x] \in Counter
      BY <1>1, <1>9
    <3>2. \A i \in Indices : errCounts[x].buckets[i] >= errCounts[x].buckets[i]
      BY <3>1 DEF Counter
    <3> QED BY <1>6, <1>9, <2>2, <3>2, Zenon
  <2> QED BY <2>1, <2>2
<1> QED BY <1>7, <1>8, <1>9

LEMMA InitInvariant == Init => IInv
<1> SUFFICES ASSUME Init PROVE IInv
  OBVIOUS
<1>1. Start \in Start .. Horizon /\ Zeros \in [Indices -> Nat] /\ 0 \in 0 .. Buckets
  BY DetectorAssumption DEF Zeros
<1>2. <<>> \in Seq(Start .. Horizon)
  OBVIOUS
<1>3. TypeOK
  BY <1>1, <1>2 DEF Init, TypeOK
<1>4. LastTickInv
  BY DEF Init, LastTickInv
<1> QED BY <1>3, <1>4 DEF IInv

LEMMA NextInvariant ==
  ASSUME IInv, [Next]_vars
  PROVE  IInv'
<1> USE DEF checkVars
<1>1. TypeOK /\ LastTickInv
  BY DEF IInv
<1>2. ASSUME NEW s \in Services, RecordError(s)
      PROVE  IInv'
  <2>1. UNCHANGED <<now, checkVars>> /\ log' = [log EXCEPT ![s] = Append(@, now)]
    BY <1>2 DEF RecordError
  <2>2. log' \in [Services -> Seq(Start .. Horizon)]
    BY <1>1, <2>1 DEF TypeOK
  <2>3. \A x \in Services : errCounts[x] # NoCounter => errCounts'[x] # NoCounter
    BY <1>2, RecordStep
  <2>4. errCounts' \in [Services -> Counter \union {NoCounter}]
    BY <1>2, RecordStep
  <2>5. TypeOK'
    BY <1>1, <2>1, <2>2, <2>3, <2>4 DEF TypeOK
  <2>6. LastTickInv'
    BY <1>1, <1>2, RecordStep DEF LastTickInv
  <2> QED BY <2>5, <2>6 DEF IInv
<1>3. ASSUME NEW h \in Handlers, NEW s \in Services, Lookup(h, s)
      PROVE  IInv'
  <2>1. UNCHANGED <<errCounts, now, log>>
    BY <1>3 DEF Lookup
  <2>2. errCounts[s] \in Counter
    BY <1>1, <1>3 DEF Lookup, TypeOK
  <2>3. errCounts[s].buckets \in [Indices -> Nat]
    BY <2>2 DEF Counter
  <2>4. Len(log[s]) \in Nat /\ 0 \in Indices
    BY <1>1, DetectorAssumption DEF TypeOK, Indices
  <2>5. TypeOK'
    BY <1>1, <1>3, <2>1, <2>3, <2>4, DetectorAssumption DEF Lookup, TypeOK
  <2>6. LastTickInv'
    BY <1>1, <2>1 DEF LastTickInv
  <2> QED BY <2>5, <2>6 DEF IInv
<1>4. ASSUME NEW h \in Handlers, CompareTick(h)
      PROVE  IInv'
  <2>1. TypeOK'
    BY <1>1, <1>4 DEF CompareTick, TypeOK
  <2>2. LastTickInv'
    BY <1>1, <1>4 DEF CompareTick, LastTickInv
  <2> QED BY <2>1, <2>2 DEF IInv
<1>5. ASSUME NEW h \in Handlers, ReadBucket(h)
      PROVE  IInv'
  <2> DEFINE i == index[h]
  <2>1. /\ i \in Indices /\ i + 1 \in 0 .. Buckets
        /\ i + 1 # Buckets => i + 1 \in Indices
    BY <1>1, <1>5, DetectorAssumption DEF ReadBucket, TypeOK, Indices
  <2>2. Readable(h, i) \subseteq Nat
    <3>1. errCounts[service[h]] \in Counter
      BY <1>1, <1>5 DEF ReadBucket, TypeOK
    <3>2. errCounts[service[h]].buckets[i] \in Nat /\ visible[h][i] \in Nat
      BY <1>1, <2>1, <3>1 DEF TypeOK, Counter
    <3> QED BY <3>2 DEF Readable
  <2>3. PICK v \in Nat : sum' = [sum EXCEPT ![h] = @ + v]
    BY <1>5, <2>2 DEF ReadBucket
  <2>4. TypeOK'
    BY <1>1, <1>5, <2>1, <2>3 DEF ReadBucket, TypeOK
  <2>5. LastTickInv'
    BY <1>1, <1>5 DEF ReadBucket, LastTickInv
  <2> QED BY <2>4, <2>5 DEF IInv
<1>6. ASSUME NEW h \in Handlers, Decide(h)
      PROVE  IInv'
  BY <1>1, <1>6 DEF Decide, IInv, TypeOK, LastTickInv
<1>7. CASE Tick
  BY <1>1, <1>7, DetectorAssumption DEF Tick, IInv, TypeOK, LastTickInv
<1>8. CASE UNCHANGED vars
  BY <1>1, <1>8 DEF vars, IInv, TypeOK, LastTickInv
<1> QED BY <1>2, <1>3, <1>4, <1>5, <1>6, <1>7, <1>8 DEF Next

(***************************************************************************)
(* Type correctness: total() reads no bucket that is not there, and a       *)
(* counter that a Check has found stays.                                    *)
(***************************************************************************)
THEOREM TypeCorrect == Spec => []TypeOK
<1>1. Init => IInv
  BY InitInvariant
<1>2. IInv /\ [Next]_vars => IInv'
  BY NextInvariant
<1>3. IInv => TypeOK
  BY DEF IInv
<1> QED BY <1>1, <1>2, <1>3, PTL DEF Spec

-----------------------------------------------------------------------------
(***************************************************************************)
(* Sums of buckets                                                         *)
(***************************************************************************)

\* The errors in the buckets of b before bucket n, one element for each: their
\* number is the sum that total() has come to when it reads bucket n next.
Cells(b, n) == UNION {{i} \X (0 .. b[i] - 1) : i \in 0 .. n - 1}

LEMMA CellsMember ==
  ASSUME NEW b \in [Indices -> Nat], NEW n \in 0 .. Buckets, NEW i, NEW k
  PROVE  <<i, k>> \in Cells(b, n) <=> i \in 0 .. n - 1 /\ k \in 0 .. b[i] - 1
BY DEF Cells

LEMMA CellsArePairs ==
  ASSUME NEW b, NEW n, NEW x \in Cells(b, n)
  PROVE  x = <<x[1], x[2]>>
BY DEF Cells

LEMMA CellsSubset ==
  ASSUME NEW b \in [Indices -> Nat], NEW n \in 0 .. Buckets, NEW c \in [Indices -> Nat],
         \A i \in Indices : b[i] <= c[i]
  PROVE  Cells(b, n) \subseteq Cells(c, n) /\ Cells(b, n) \subseteq Cells(b, Buckets)
<1> SUFFICES ASSUME NEW x \in Cells(b, n)
             PROVE  x \in Cells(c, n) /\ x \in Cells(b, Buckets)
  OBVIOUS
<1> DEFINE i == x[1]
           k == x[2]
<1>1. x = <<i, k>>
  BY CellsArePairs
<1> HIDE DEF i, k
<1>2. i \in 0 .. n - 1 /\ k \in 0 .. b[i] - 1
  BY <1>1, CellsMember
<1>3. i \in Indices /\ b[i] \in Nat /\ c[i] \in Nat /\ b[i] <= c[i] /\ Buckets \in 0 .. Buckets
  BY <1>2, DetectorAssumption DEF Indices
<1>4. k \in 0 .. c[i] - 1 /\ i \in 0 .. Buckets - 1
  BY <1>2, <1>3 DEF Indices
<1> QED BY <1>1, <1>2, <1>3, <1>4, CellsMember

LEMMA CellsNone ==
  ASSUME NEW b \in [Indices -> Nat]
  PROVE  Cells(b, 0) = {}
BY DEF Cells

\* total() adds a bucket.
LEMMA CellsStep ==
  ASSUME NEW b \in [Indices -> Nat], NEW n \in Indices, IsFiniteSet(Cells(b, n))
  PROVE  /\ IsFiniteSet(Cells(b, n + 1))
         /\ Cardinality(Cells(b, n + 1)) = Cardinality(Cells(b, n)) + b[n]
<1> DEFINE column == {n} \X (0 .. b[n] - 1)
<1>1. n \in Nat /\ b[n] \in Nat /\ n \in 0 .. Buckets /\ n + 1 \in 0 .. Buckets
  BY DetectorAssumption DEF Indices
<1>2. IsFiniteSet(column) /\ Cardinality(column) = b[n]
  <2>1. IsFiniteSet(0 .. b[n] - 1) /\ Cardinality(0 .. b[n] - 1) = b[n]
    <3>1. b[n] - 1 \in Int /\ (0 > b[n] - 1 <=> b[n] = 0)
      BY <1>1
    <3> QED BY <1>1, <3>1, FS_Interval
  <2>2. IsFiniteSet({n}) /\ Cardinality({n}) = 1
    BY FS_Singleton
  <2> QED BY <1>1, <2>1, <2>2, FS_Product
<1>3. Cells(b, n + 1) = Cells(b, n) \union column
  <2>1. 0 .. (n + 1) - 1 = (0 .. n - 1) \union {n}
    BY <1>1
  <2> QED BY <2>1 DEF Cells
<1>4. Cells(b, n) \intersect column = {}
  BY <1>1 DEF Cells
<1>5. Cardinality(Cells(b, n)) \in Nat /\ Cardinality({}) = 0
  BY FS_CardinalityType, FS_EmptySet
<1> QED BY <1>1, <1>2, <1>3, <1>4, <1>5, FS_Union

\* increment() adds an error.
LEMMA CellsRaised ==
  ASSUME NEW b \in [Indices -> Nat], NEW j \in Indices, IsFiniteSet(Cells(b, Buckets))
  PROVE  LET c == [b EXCEPT ![j] = @ + 1] IN
         /\ IsFiniteSet(Cells(c, Buckets))
         /\ Cardinality(Cells(c, Buckets)) = Cardinality(Cells(b, Buckets)) + 1
<1> DEFINE c == [b EXCEPT ![j] = @ + 1]
<1>1. /\ c \in [Indices -> Nat] /\ b[j] \in Nat /\ Buckets \in 0 .. Buckets
      /\ \A i \in Indices : c[i] = IF i = j THEN b[i] + 1 ELSE b[i]
  BY DetectorAssumption
<1> HIDE DEF c
<1>2. ASSUME NEW i, NEW k
      PROVE  <<i, k>> \in Cells(c, Buckets)
               <=> <<i, k>> \in Cells(b, Buckets) \/ (i = j /\ k = b[j])
  <2>1. /\ <<i, k>> \in Cells(c, Buckets) <=> i \in Indices /\ k \in 0 .. c[i] - 1
        /\ <<i, k>> \in Cells(b, Buckets) <=> i \in Indices /\ k \in 0 .. b[i] - 1
    BY <1>1, CellsMember DEF Indices
  <2>2. CASE i = j
    <3>1. c[i] = b[j] + 1 /\ b[i] = b[j]
      BY <1>1, <2>2
    <3>2. k \in 0 .. c[i] - 1 <=> k \in 0 .. b[i] - 1 \/ k = b[j]
      BY <1>1, <3>1
    <3> QED BY <2>1, <2>2, <3>2
  <2>3. CASE i # j
    BY <1>1, <2>1, <2>3
  <2> QED BY <2>2, <2>3
<1>3. \A x \in Cells(c, Buckets) \union Cells(b, Buckets) : x = <<x[1], x[2]>>
  BY CellsArePairs
<1>4. Cells(c, Buckets) = Cells(b, Buckets) \union {<<j, b[j]>>}
  BY <1>2, <1>3
<1>5. <<j, b[j]>> \notin Cells(b, Buckets)
  BY <1>1, CellsMember
<1> QED BY <1>4, <1>5, FS_AddElement DEF c

-----------------------------------------------------------------------------
(***************************************************************************)
(* The totals of checks                                                    *)
(***************************************************************************)

\* A counter holds every error that was recorded.
Counted ==
  \A s \in Services :
    IF errCounts[s] = NoCounter
      THEN log[s] = <<>>
      ELSE /\ IsFiniteSet(Cells(errCounts[s].buckets, Buckets))
           /\ Cardinality(Cells(errCounts[s].buckets, Buckets)) = Len(log[s])

\* The sum that h has come to is one of the first buckets as they were at its
\* lookup, or are now, or anything between.
Sums(h) ==
  LET b == errCounts[service[h]].buckets IN
  /\ \A i \in Indices : visible[h][i] <= b[i]
  /\ before[h] = Cardinality(Cells(visible[h], Buckets))
  /\ pc[h] = "found" => sum[h] = 0 /\ index[h] = 0
  /\ pc[h] = "reading" =>
       sum[h] \in Cardinality(Cells(visible[h], index[h])) ..
                    Cardinality(Cells(b, index[h]))
  /\ pc[h] = "summed" => sum[h] \in before[h] .. Len(log[service[h]])

SumInv == Counted /\ \A h \in Handlers : pc[h] # "idle" => Sums(h)

\* What RecordError does to the buckets.
LEMMA RecordRaises ==
  ASSUME IInv, NEW s \in Services, RecordError(s)
  PROVE  \E b \in [Indices -> Nat], j \in Indices :
           /\ b = IF errCounts[s] = NoCounter THEN Zeros ELSE errCounts[s].buckets
           /\ errCounts'[s] # NoCounter
           /\ errCounts'[s].buckets = [b EXCEPT ![j] = @ + 1]
           /\ \A r \in Services \ {s} : errCounts'[r] = errCounts[r]
<1> DEFINE c == IF errCounts[s] = NoCounter THEN NewCounter(now) ELSE errCounts[s]
           d == Incremented(c, now)
           i == TickOf(now) % Buckets
<1>1. /\ errCounts \in [Services -> Counter \union {NoCounter}]
      /\ now \in Start .. Horizon
  BY DEF IInv, TypeOK
<1>2. c \in Counter /\ c.lastTick >= Start
  <2>1. CASE errCounts[s] = NoCounter
    BY <1>1, <2>1, NewCounterOK
  <2>2. CASE errCounts[s] # NoCounter
    BY <1>1, <2>2 DEF IInv, LastTickInv
  <2> QED BY <2>1, <2>2
<1>3. errCounts' = [errCounts EXCEPT ![s] = d]
  BY DEF RecordError
<1>4. c.buckets = IF errCounts[s] = NoCounter THEN Zeros ELSE errCounts[s].buckets
  BY DEF NewCounter
<1> HIDE DEF c
<1>5. i \in Indices /\ d = [buckets |-> [c.buckets EXCEPT ![i] = @ + 1], lastTick |-> c.lastTick]
  BY <1>1, <1>2, IncrementedForm
<1>6. d \in Counter
  BY <1>1, <1>2, IncrementedGrows
<1>7. c.buckets \in [Indices -> Nat]
  BY <1>2 DEF Counter
<1>8. d.buckets = [c.buckets EXCEPT ![i] = @ + 1]
  BY <1>5
<1>9. /\ errCounts'[s] = d
      /\ \A r \in Services \ {s} : errCounts'[r] = errCounts[r]
  BY <1>1, <1>3
<1>10. errCounts'[s] # NoCounter
  BY <1>6, <1>9, NoCounterIsNone
<1> HIDE DEF d, i
<1> QED BY <1>4, <1>5, <1>7, <1>8, <1>9, <1>10

LEMMA RecordCounted ==
  ASSUME IInv, SumInv, NEW s \in Services, RecordError(s)
  PROVE  Counted'
<1>1. PICK b \in [Indices -> Nat], j \in Indices :
        /\ b = IF errCounts[s] = NoCounter THEN Zeros ELSE errCounts[s].buckets
        /\ errCounts'[s] # NoCounter
        /\ errCounts'[s].buckets = [b EXCEPT ![j] = @ + 1]
        /\ \A r \in Services \ {s} : errCounts'[r] = errCounts[r]
  BY RecordRaises
<1>2. /\ log[s] \in Seq(Start .. Horizon) /\ now \in Start .. Horizon
      /\ log'[s] = Append(log[s], now)
      /\ \A r \in Services \ {s} : log'[r] = log[r]
  BY DEF RecordError, IInv, TypeOK
<1>3. Len(log'[s]) = Len(log[s]) + 1
  BY <1>2
<1>4. IsFiniteSet(Cells(b, Buckets)) /\ Cardinality(Cells(b, Buckets)) = Len(log[s])
  <2>1. CASE errCounts[s] = NoCounter
    <3>1. Cells(b, Buckets) = {}
      <4>1. b = Zeros
        BY <1>1, <2>1
      <4>2. \A i \in 0 .. Buckets - 1 : 0 .. b[i] - 1 = {}
        BY <4>1 DEF Zeros, Indices
      <4> QED BY <4>2 DEF Cells
    <3>2. log[s] = <<>>
      BY <2>1 DEF SumInv, Counted
    <3> QED BY <3>1, <3>2, FS_EmptySet
  <2>2. CASE errCounts[s] # NoCounter
    BY <1>1, <2>2 DEF SumInv, Counted
  <2> QED BY <2>1, <2>2
<1>5. /\ IsFiniteSet(Cells(errCounts'[s].buckets, Buckets))
      /\ Cardinality(Cells(errCounts'[s].buckets, Buckets)) = Len(log'[s])
  BY <1>1, <1>3, <1>4, CellsRaised
<1>6. \A r \in Services \ {s} :
        IF errCounts'[r] = NoCounter
          THEN log'[r] = <<>>
          ELSE /\ IsFiniteSet(Cells(errCounts'[r].buckets, Buckets))
               /\ Cardinality(Cells(errCounts'[r].buckets, Buckets)) = Len(log'[r])
  BY <1>1, <1>2 DEF SumInv, Counted
<1> QED BY <1>1, <1>5, <1>6 DEF Counted

\* What a check needs of the counter it reads.
LEMMA CheckFacts ==
  ASSUME IInv, SumInv, NEW h \in Handlers, pc[h] # "idle"
  PROVE  LET c == errCounts[service[h]] IN
         /\ service[h] \in Services
         /\ c \in Counter /\ c # NoCounter /\ c.buckets \in [Indices -> Nat]
         /\ visible[h] \in [Indices -> Nat]
         /\ \A n \in 0 .. Buckets :
              /\ IsFiniteSet(Cells(c.buckets, n)) /\ IsFiniteSet(Cells(visible[h], n))
              /\ Cardinality(Cells(c.buckets, n)) \in Nat
              /\ Cardinality(Cells(visible[h], n)) \in Nat
         /\ Len(log[service[h]]) = Cardinality(Cells(c.buckets, Buckets))
<1> DEFINE c == errCounts[service[h]]
           b == c.buckets
<1>1. /\ service[h] \in Services /\ c # NoCounter /\ c \in Counter
      /\ visible[h] \in [Indices -> Nat]
  BY DEF IInv, TypeOK
<1>2. b \in [Indices -> Nat]
  BY <1>1 DEF Counter
<1>3. /\ IsFiniteSet(Cells(b, Buckets))
      /\ Len(log[service[h]]) = Cardinality(Cells(b, Buckets))
  BY <1>1 DEF SumInv, Counted
<1>4. \A i \in Indices : visible[h][i] <= b[i]
  BY DEF SumInv, Sums
<1> HIDE DEF c, b
<1>5. ASSUME NEW n \in 0 .. Buckets
      PROVE  /\ IsFiniteSet(Cells(b, n)) /\ IsFiniteSet(Cells(visible[h], n))
             /\ Cardinality(Cells(b, n)) \in Nat
             /\ Cardinality(Cells(visible[h], n)) \in Nat
  <2>1. \A i \in Indices : b[i] <= b[i]
    BY <1>2
  <2>2. Cells(b, n) \subseteq Cells(b, Buckets) /\ Cells(visible[h], n) \subseteq Cells(b, n)
    BY <1>1, <1>2, <1>4, <2>1, CellsSubset
  <2>3. IsFiniteSet(Cells(b, n))
    BY <1>3, <2>2, FS_Subset
  <2>4. IsFiniteSet(Cells(visible[h], n))
    BY <2>2, <2>3, FS_Subset
  <2> QED BY <2>3, <2>4, FS_CardinalityType
<1> QED BY <1>1, <1>2, <1>3, <1>5 DEF c, b
LEMMA RecordSums ==
  ASSUME IInv, SumInv, NEW s \in Services, RecordError(s),
         NEW h \in Handlers, pc'[h] # "idle"
  PROVE  Sums(h)'
<1> DEFINE b == errCounts[service[h]].buckets
           d == errCounts'[service[h]].buckets
<1>1. /\ pc' = pc /\ service' = service /\ index' = index /\ sum' = sum
      /\ visible' = visible /\ before' = before
      /\ log' = [log EXCEPT ![s] = Append(@, now)]
  BY DEF RecordError, checkVars
<1>2. Sums(h) /\ pc[h] # "idle"
  BY <1>1 DEF SumInv
<1>3. /\ service[h] \in Services /\ errCounts[service[h]] # NoCounter
      /\ b \in [Indices -> Nat] /\ visible[h] \in [Indices -> Nat]
  BY <1>2, CheckFacts
<1>4. d \in [Indices -> Nat] /\ \A i \in Indices : b[i] <= d[i]
  <2>1. /\ errCounts'[service[h]] \in Counter \union {NoCounter}
        /\ errCounts'[service[h]] # NoCounter
        /\ \A i \in Indices : d[i] >= b[i]
    BY <1>3, RecordStep
  <2>2. d \in [Indices -> Nat]
    BY <2>1 DEF Counter
  <2> HIDE DEF b, d
  <2> QED BY <1>3, <2>1, <2>2
<1>5. Len(log[service[h]]) \in Nat /\ Len(log'[service[h]]) >= Len(log[service[h]])
  BY <1>1, <1>3 DEF IInv, TypeOK
<1>6. Counted'
  BY RecordCounted
<1>7. IsFiniteSet(Cells(d, Buckets))
  BY <1>3, <1>6, RecordStep DEF Counted
<1>8. ASSUME pc[h] = "reading"
      PROVE  /\ Cardinality(Cells(b, index[h])) <= Cardinality(Cells(d, index[h]))
             /\ Cardinality(Cells(b, index[h])) \in Nat /\ Cardinality(Cells(d, index[h])) \in Nat
  <2>1. index[h] \in 0 .. Buckets
    BY DEF IInv, TypeOK
  <2> HIDE DEF b, d
  <2>2. /\ Cells(b, index[h]) \subseteq Cells(d, index[h])
        /\ Cells(d, index[h]) \subseteq Cells(d, Buckets)
    <3>1. \A i \in Indices : d[i] <= d[i]
      BY <1>4
    <3> QED BY <1>3, <1>4, <2>1, <3>1, CellsSubset
  <2>3. IsFiniteSet(Cells(d, index[h]))
    BY <1>7, <2>2, FS_Subset
  <2> QED BY <2>2, <2>3, FS_Subset, FS_CardinalityType
<1>9. /\ sum[h] \in Nat /\ before[h] \in Nat
      /\ Cardinality(Cells(visible[h], index[h])) \in Nat
  BY <1>2, CheckFacts DEF IInv, TypeOK
<1> DEFINE low == Cardinality(Cells(visible[h], index[h]))
           cap == Cardinality(Cells(b, index[h]))
           cap2 == Cardinality(Cells(d, index[h]))
<1>10. pc[h] = "reading" => sum[h] \in low .. cap2
  <2>1. pc[h] = "reading" => sum[h] \in low .. cap
    BY <1>2 DEF Sums
  <2>2. low \in Nat /\ (pc[h] = "reading" => cap <= cap2 /\ cap \in Nat /\ cap2 \in Nat)
    BY <1>8, <1>9
  <2> HIDE DEF low, cap, cap2
  <2> QED BY <2>1, <2>2, <1>9
<1>11. \A i \in Indices : visible[h][i] <= d[i]
  <2>1. \A i \in Indices : visible[h][i] <= b[i]
    BY <1>2 DEF Sums
  <2> HIDE DEF b, d
  <2> QED BY <1>3, <1>4, <2>1
<1>12. pc[h] = "summed" => sum[h] \in before[h] .. Len(log'[service[h]])
  <2>1. pc[h] = "summed" => sum[h] \in before[h] .. Len(log[service[h]])
    BY <1>2 DEF Sums
  <2>2. Len(log'[service[h]]) \in Nat
    BY <1>1, <1>3 DEF IInv, TypeOK
  <2> QED BY <1>5, <1>9, <2>1, <2>2
<1> QED BY <1>1, <1>2, <1>10, <1>11, <1>12 DEF Sums

LEMMA LookupSums ==
  ASSUME IInv, SumInv, NEW h \in Handlers, NEW s \in Services, Lookup(h, s)
  PROVE  SumInv'
<1>1. UNCHANGED <<errCounts, now, log>> /\ errCounts[s] # NoCounter
  BY DEF Lookup
<1>2. Counted'
  BY <1>1 DEF SumInv, Counted
<1>3. /\ pc'[h] = "found" /\ service'[h] = s /\ index'[h] = 0 /\ sum'[h] = 0
      /\ visible'[h] = errCounts[s].buckets /\ before'[h] = Len(log[s])
  BY DEF Lookup, IInv, TypeOK
<1>4. errCounts[s].buckets \in [Indices -> Nat]
  BY <1>1 DEF IInv, TypeOK, Counter
<1>5. Sums(h)'
  <2>1. Cardinality(Cells(errCounts[s].buckets, Buckets)) = Len(log[s])
    BY <1>1 DEF SumInv, Counted
  <2>2. \A i \in Indices : errCounts[s].buckets[i] <= errCounts[s].buckets[i]
    BY <1>4
  <2> QED BY <1>1, <1>3, <2>1, <2>2 DEF Sums
<1>6. ASSUME NEW k \in Handlers \ {h}, pc'[k] # "idle"
      PROVE  Sums(k)'
  <2>1. /\ pc'[k] = pc[k] /\ service'[k] = service[k] /\ index'[k] = index[k]
        /\ sum'[k] = sum[k] /\ visible'[k] = visible[k] /\ before'[k] = before[k]
    BY <1>6 DEF Lookup, IInv, TypeOK
  <2> QED BY <1>1, <1>6, <2>1 DEF SumInv, Sums
<1> QED BY <1>2, <1>5, <1>6 DEF SumInv

LEMMA CompareSums ==
  ASSUME IInv, SumInv, NEW h \in Handlers, CompareTick(h)
  PROVE  SumInv'
<1>1. UNCHANGED <<errCounts, now, log, service, index, sum, visible, before, since>>
      /\ pc[h] = "found"
  BY DEF CompareTick
<1>2. pc'[h] = "reading" /\ \A k \in Handlers \ {h} : pc'[k] = pc[k]
  <2>1. errCounts[service[h]] \in Counter /\ errCounts[service[h]].lastTick >= Start
    BY <1>1, CheckFacts DEF IInv, LastTickInv
  <2>2. TickOf(now) \in Nat /\ TickOf(now) <= Start
    BY TickBounds DEF IInv, TypeOK
  <2>3. ~(TickOf(now) > errCounts[service[h]].lastTick)
    BY <2>1, <2>2, DetectorAssumption DEF Counter
  <2> QED BY <2>3 DEF CompareTick, IInv, TypeOK
<1>3. Sums(h)'
  <2>1. Sums(h)
    BY <1>1 DEF SumInv
  <2>2. /\ Cells(visible[h], 0) = {} /\ Cells(errCounts[service[h]].buckets, 0) = {}
        /\ sum[h] = 0 /\ index[h] = 0
    BY <1>1, <2>1, CheckFacts, CellsNone DEF Sums
  <2>3. sum[h] \in Cardinality(Cells(visible[h], index[h])) ..
                      Cardinality(Cells(errCounts[service[h]].buckets, index[h]))
    BY <2>2, FS_EmptySet
  <2> QED BY <1>1, <1>2, <2>1, <2>3 DEF Sums
<1>4. \A k \in Handlers \ {h} : pc'[k] # "idle" => Sums(k)'
  BY <1>1, <1>2 DEF SumInv, Sums
<1> QED BY <1>1, <1>3, <1>4 DEF SumInv, Counted

LEMMA ReadSums ==
  ASSUME IInv, SumInv, NEW h \in Handlers, ReadBucket(h)
  PROVE  SumInv'
<1> DEFINE b == errCounts[service[h]].buckets
           i == index[h]
           low(n) == Cardinality(Cells(visible[h], n))
           cap(n) == Cardinality(Cells(b, n))
<1>1. UNCHANGED <<errCounts, now, log, service, visible, before, since>>
      /\ pc[h] = "reading"
  BY DEF ReadBucket
<1>2. PICK v \in Readable(h, i) : sum' = [sum EXCEPT ![h] = @ + v]
  BY DEF ReadBucket
<1>3. /\ index'[h] = i + 1
      /\ pc'[h] = IF i + 1 = Buckets THEN "summed" ELSE "reading"
      /\ \A k \in Handlers \ {h} : pc'[k] = pc[k] /\ index'[k] = index[k] /\ sum'[k] = sum[k]
  BY DEF ReadBucket, IInv, TypeOK
<1>4. Sums(h) /\ i \in Indices /\ sum[h] \in Nat /\ sum'[h] = sum[h] + v
  BY <1>1, <1>2 DEF SumInv, IInv, TypeOK
<1>5. /\ b \in [Indices -> Nat] /\ visible[h] \in [Indices -> Nat]
      /\ \A n \in 0 .. Buckets :
           IsFiniteSet(Cells(b, n)) /\ IsFiniteSet(Cells(visible[h], n))
           /\ cap(n) \in Nat /\ low(n) \in Nat
      /\ Len(log[service[h]]) = cap(Buckets)
  BY <1>1, CheckFacts
<1>6. i \in 0 .. Buckets /\ i + 1 \in 0 .. Buckets
  BY <1>4, DetectorAssumption DEF Indices
<1>7. v \in visible[h][i] .. b[i] /\ visible[h][i] \in Nat /\ b[i] \in Nat
  BY <1>4, <1>5 DEF Readable, Sums
<1>8. low(i + 1) = low(i) + visible[h][i] /\ cap(i + 1) = cap(i) + b[i]
  <2> HIDE DEF b, i
  <2> QED BY <1>4, <1>5, <1>6, CellsStep
<1>9. sum[h] \in low(i) .. cap(i)
  BY <1>1, <1>4 DEF Sums
<1>10. sum'[h] \in low(i + 1) .. cap(i + 1)
  <2>1. low(i) \in Nat /\ cap(i) \in Nat
    BY <1>5, <1>6
  <2> HIDE DEF low, cap, b, i
  <2> QED BY <1>4, <1>7, <1>8, <1>9, <2>1
<1>11. Sums(h)'
  <2>1. pc'[h] = "summed" => i + 1 = Buckets
    BY <1>3
  <2>2. before[h] = low(Buckets)
    BY <1>4 DEF Sums
  <2>3. pc'[h] = "summed" => sum'[h] \in before[h] .. Len(log[service[h]])
    BY <1>5, <1>10, <2>1, <2>2
  <2>4. \A n \in Indices : visible[h][n] <= b[n]
    BY <1>4 DEF Sums
  <2>5. pc'[h] # "found"
    BY <1>3
  <2> QED BY <1>1, <1>3, <1>10, <2>2, <2>3, <2>4, <2>5 DEF Sums
<1>12. \A k \in Handlers \ {h} : pc'[k] # "idle" => Sums(k)'
  BY <1>1, <1>3 DEF SumInv, Sums
<1> QED BY <1>1, <1>11, <1>12 DEF SumInv, Counted

LEMMA NextSums ==
  ASSUME IInv, SumInv, [Next]_vars
  PROVE  SumInv'
<1>1. ASSUME NEW s \in Services, RecordError(s)
      PROVE  SumInv'
  BY <1>1, RecordCounted, RecordSums DEF SumInv
<1>2. ASSUME NEW h \in Handlers, NEW s \in Services, Lookup(h, s)
      PROVE  SumInv'
  BY <1>2, LookupSums
<1>3. ASSUME NEW h \in Handlers, CompareTick(h)
      PROVE  SumInv'
  BY <1>3, CompareSums
<1>4. ASSUME NEW h \in Handlers, ReadBucket(h)
      PROVE  SumInv'
  BY <1>4, ReadSums
<1>5. ASSUME NEW h \in Handlers, Decide(h)
      PROVE  SumInv'
  <2>1. UNCHANGED <<errCounts, now, log, service, index, sum, visible, before, since>>
    BY <1>5 DEF Decide
  <2>2. \A k \in Handlers : pc'[k] # "idle" => pc'[k] = pc[k]
    BY <1>5 DEF Decide, IInv, TypeOK
  <2> QED BY <2>1, <2>2 DEF SumInv, Counted, Sums
<1>6. CASE Tick
  BY <1>6 DEF Tick, checkVars, SumInv, Counted, Sums
<1>7. CASE UNCHANGED vars
  BY <1>7 DEF vars, checkVars, SumInv, Counted, Sums
<1> QED BY <1>1, <1>2, <1>3, <1>4, <1>5, <1>6, <1>7 DEF Next

(***************************************************************************)
(* A check's count, for every number of buckets, handlers and errors and    *)
(* however its unlocked reads race with increments: no error recorded       *)
(* before the check is missed, and none is counted before it is recorded.   *)
(***************************************************************************)
THEOREM CountIsAccurate == Spec => []CheckIsAccurate
<1>1. Init => IInv /\ SumInv
  BY InitInvariant DEF Init, SumInv, Counted
<1>2. IInv /\ SumInv /\ [Next]_vars => IInv' /\ SumInv'
  BY NextInvariant, NextSums
<1>3. IInv /\ SumInv => CheckIsAccurate
  BY DEF SumInv, Sums, CheckIsAccurate
<1> QED BY <1>1, <1>2, <1>3, PTL DEF Spec
=============================================================================
