------------------------- MODULE BreachRecordProofs -------------------------
(***************************************************************************)
(* Proofs about BreachRecord, for every results file: the records are those  *)
(* of the connections with breach data, each in its place, and what a record *)
(* says of its connection is right.                                         *)
(***************************************************************************)
EXTENDS BreachRecord, SharedLemmas, FiniteSetTheorems, TLAPS

-----------------------------------------------------------------------------
(* Places in the file.  *)

\* What FilesAssumption says of the file that is read.
LEMMA FileIs ==
  ASSUME file \in Files
  PROVE  /\ file.times \in Seq(Int) /\ Len(file.times) # 1
         /\ \A s, t \in DOMAIN file.times : s < t => file.times[s] < file.times[t]
         /\ Len(file.areas) \in Nat /\ DOMAIN file.areas = 1 .. Len(file.areas)
         /\ \A a, b \in DOMAIN file.areas : file.areas[a].name = file.areas[b].name => a = b
         /\ \A a \in DOMAIN file.areas :
              /\ file.areas[a].name \in STRING
              /\ Len(file.areas[a].connections) \in Nat
              /\ DOMAIN file.areas[a].connections = 1 .. Len(file.areas[a].connections)
              /\ \A i, j \in DOMAIN file.areas[a].connections :
                   file.areas[a].connections[i].name = file.areas[a].connections[j].name =>
                     i = j \/ file.areas[a].connections[i].name = ""
              /\ \A i \in DOMAIN file.areas[a].connections :
                   HasBreachData(file.areas[a].connections[i]) /\ file.times # <<>> =>
                     IsBreach(file.areas[a].connections[i], Len(file.times))
  BY FilesAssumption DEF IsSequence

LEMMA AreaIs ==
  ASSUME file \in Files, NEW a \in Nat \ {0}, a <= Len(file.areas)
  PROVE  /\ a \in DOMAIN file.areas /\ a \in 1 .. Len(file.areas)
         /\ Len(file.areas[a].connections) \in Nat
         /\ DOMAIN file.areas[a].connections = 1 .. Len(file.areas[a].connections)
  <1>1. Len(file.areas) \in Nat /\ DOMAIN file.areas = 1 .. Len(file.areas)
    BY FileIs
  <1>2. a \in DOMAIN file.areas
    BY <1>1
  <1>3. QED
    BY <1>1, <1>2, FileIs

LEMMA BreachingIs ==
  ASSUME file \in Files
  PROVE  \A p : p \in Breaching <=>
           /\ p = <<p[1], p[2]>>
           /\ p[1] \in 1 .. Len(file.areas) /\ file.areas[p[1]].opens
           /\ p[2] \in 1 .. Len(file.areas[p[1]].connections)
           /\ HasBreachData(ConnectionAt(p))
  <1>1. \A p : p \in Places <=> \E a \in DOMAIN file.areas : p \in {a} \X DOMAIN file.areas[a].connections
    BY DEF Places
  <1>2. \A p : p \in Places <=>
           /\ p = <<p[1], p[2]>>
           /\ p[1] \in 1 .. Len(file.areas)
           /\ p[2] \in 1 .. Len(file.areas[p[1]].connections)
    <2>1. ASSUME NEW p, p \in Places
          PROVE  /\ p = <<p[1], p[2]>>
                 /\ p[1] \in 1 .. Len(file.areas)
                 /\ p[2] \in 1 .. Len(file.areas[p[1]].connections)
      <3>1. PICK a \in DOMAIN file.areas : p \in {a} \X DOMAIN file.areas[a].connections
        BY <1>1, <2>1
      <3>2. p = <<p[1], p[2]>> /\ p[1] = a /\ p[2] \in DOMAIN file.areas[a].connections
        BY <3>1
      <3>3. QED
        BY <3>2, FileIs
    <2>2. ASSUME NEW p, p = <<p[1], p[2]>>, p[1] \in 1 .. Len(file.areas),
                 p[2] \in 1 .. Len(file.areas[p[1]].connections)
          PROVE  p \in Places
      <3>1. /\ p[1] \in DOMAIN file.areas
            /\ p[2] \in DOMAIN file.areas[p[1]].connections
        BY <2>2, FileIs
      <3>2. p \in {p[1]} \X DOMAIN file.areas[p[1]].connections
        BY <2>2, <3>1
      <3>3. QED
        BY <1>1, <3>1, <3>2
    <2>3. QED
      BY <2>1, <2>2
  <1>3. QED
    BY <1>2 DEF Breaching

\* A place is a pair of positive numbers.
LEMMA PlaceIsPair ==
  ASSUME file \in Files, NEW p \in Breaching
  PROVE  /\ p = <<p[1], p[2]>> /\ p[1] \in Nat \ {0} /\ p[2] \in Nat \ {0}
         /\ p[1] \in DOMAIN file.areas /\ p[2] \in DOMAIN file.areas[p[1]].connections
  <1>1. /\ p = <<p[1], p[2]>> /\ p[1] \in 1 .. Len(file.areas)
        /\ p[2] \in 1 .. Len(file.areas[p[1]].connections)
    BY BreachingIs
  <1>2. Len(file.areas) \in Nat /\ DOMAIN file.areas = 1 .. Len(file.areas)
    BY FileIs
  <1>3. p[1] \in DOMAIN file.areas
    BY <1>1, <1>2
  <1>4. /\ Len(file.areas[p[1]].connections) \in Nat
        /\ DOMAIN file.areas[p[1]].connections = 1 .. Len(file.areas[p[1]].connections)
    BY <1>3, FileIs
  <1>5. QED
    BY <1>1, <1>2, <1>3, <1>4

\* There are finitely many, by induction over the areas.
LEMMA BreachingIsFinite ==
  ASSUME file \in Files
  PROVE  IsFiniteSet(Breaching)
  <1> DEFINE UpTo(n) == {p \in Breaching : p[1] <= n}
             S == {n \in Nat : IsFiniteSet(UpTo(n))}
  <1>1. 0 \in S
    <2>1. UpTo(0) = {}
      BY PlaceIsPair
    <2>2. QED
      BY <2>1, FS_EmptySet
  <1>2. ASSUME NEW n \in Nat, n \in S PROVE n + 1 \in S
    <2> DEFINE This == {p \in Breaching : p[1] = n + 1}
    <2>1. IsFiniteSet(This)
      <3>1. CASE n + 1 \in DOMAIN file.areas
        <4> DEFINE m == Len(file.areas[n + 1].connections)
        <4>1. m \in Nat /\ \A p \in This : p \in {n + 1} \X (1 .. m)
          <5>1. m \in Nat
            BY <3>1, FileIs
          <5>2. ASSUME NEW p \in This PROVE p \in {n + 1} \X (1 .. m)
            BY BreachingIs
          <5>3. QED
            BY <5>1, <5>2
        <4>2. IsFiniteSet({n + 1})
          BY FS_Singleton
        <4>3. IsFiniteSet(1 .. m)
          BY <4>1, FS_Interval
        <4>4. IsFiniteSet({n + 1} \X (1 .. m))
          BY <4>2, <4>3, FS_Product
        <4>5. This \in SUBSET ({n + 1} \X (1 .. m))
          BY <4>1
        <4> HIDE DEF This, m
        <4>6. QED
          BY <4>4, <4>5, FS_Subset
      <3>2. CASE n + 1 \notin DOMAIN file.areas
        <4>1. This = {}
          BY <3>2, PlaceIsPair
        <4>2. QED
          BY <4>1, FS_EmptySet
      <3>3. QED
        BY <3>1, <3>2
    <2>2. UpTo(n + 1) = UpTo(n) \cup This
      BY PlaceIsPair
    <2>3. IsFiniteSet(UpTo(n))
      BY <1>2
    <2> HIDE DEF UpTo, This
    <2>4. IsFiniteSet(UpTo(n) \cup This)
      BY <2>1, <2>3, FS_Union
    <2>5. QED
      BY <2>2, <2>4
  <1> HIDE DEF S
  <1>3. Len(file.areas) \in S
    BY <1>1, <1>2, Induction, FileIs
  <1>4. UpTo(Len(file.areas)) = Breaching
    <2>1. Len(file.areas) \in Nat /\ \A p \in Breaching : p[1] \in 1 .. Len(file.areas)
      BY FileIs, BreachingIs
    <2>2. \A p \in Breaching : p[1] <= Len(file.areas)
      BY <2>1
    <2>3. QED
      BY <2>2
  <1> HIDE DEF UpTo
  <1>5. QED
    BY <1>3, <1>4 DEF S

\* The places before one, and how many there are.
Preceding(q) == {p \in Breaching : Before(p, q)}

LEMMA PrecedingIsFinite ==
  ASSUME file \in Files, NEW q
  PROVE  IsFiniteSet(Preceding(q)) /\ Cardinality(Preceding(q)) \in Nat
  <1>1. Preceding(q) \in SUBSET Breaching
    BY DEF Preceding
  <1>2. IsFiniteSet(Preceding(q))
    BY <1>1, BreachingIsFinite, FS_Subset
  <1>3. QED
    BY <1>2, FS_CardinalityType

\* Positions follow the order of places.
LEMMA PositionsFollowPlaces ==
  ASSUME file \in Files, NEW p \in Breaching, NEW q \in (Nat \ {0}) \X (Nat \ {0})
  PROVE  /\ Position(p) \in Nat \ {0}
         /\ Before(p, q) => Position(p) <= Cardinality(Preceding(q))
         /\ ~Before(p, q) => Position(p) > Cardinality(Preceding(q))
  <1> DEFINE A == Preceding(p)
             B == Preceding(q)
  <1>1. Position(p) = Cardinality(A) + 1
    BY DEF Position, Preceding
  <1>2. /\ IsFiniteSet(A) /\ Cardinality(A) \in Nat
        /\ IsFiniteSet(B) /\ Cardinality(B) \in Nat
    BY PrecedingIsFinite
  <1>3. p[1] \in Nat /\ p[2] \in Nat /\ q[1] \in Nat /\ q[2] \in Nat
    BY PlaceIsPair
  <1>4. \A r \in Breaching : r[1] \in Nat /\ r[2] \in Nat
    BY PlaceIsPair
  <1>5. CASE Before(p, q)
    <2>1. A \cup {p} \in SUBSET B /\ p \notin A
      BY <1>3, <1>4, <1>5 DEF Preceding, Before
    <2> HIDE DEF A, B
    <2>2. Cardinality(A \cup {p}) = Cardinality(A) + 1
      BY <1>2, <2>1, FS_AddElement
    <2>3. Cardinality(A \cup {p}) <= Cardinality(B)
      BY <1>2, <2>1, FS_Subset
    <2>4. QED
      BY <1>1, <1>2, <1>5, <2>2, <2>3 DEF B
  <1>6. CASE ~Before(p, q)
    <2>1. B \in SUBSET A
      BY <1>3, <1>4, <1>6 DEF Preceding, Before
    <2> HIDE DEF A, B
    <2>2. Cardinality(B) <= Cardinality(A)
      BY <1>2, <2>1, FS_Subset
    <2>3. QED
      BY <1>1, <1>2, <1>6, <2>2 DEF B
  <1>7. QED
    BY <1>5, <1>6

-----------------------------------------------------------------------------
(* The invariant.  *)

\* The file is only read.
LEMMA FileStays ==
  ASSUME file' = file
  PROVE  /\ Breaching' = Breaching
         /\ \A p : ConnectionAt(p)' = ConnectionAt(p)
         /\ \A p : Position(p)' = Position(p)
         /\ \A p : RecordOf(p)' = RecordOf(p)
  <1>1. Breaching' = Breaching /\ \A p : ConnectionAt(p)' = ConnectionAt(p)
    BY DEF Breaching, Places, ConnectionAt
  <1>2. \A p : Position(p)' = Position(p)
    BY <1>1 DEF Position
  <1>3. \A at : BreachAtTimeIndex(at)' = BreachAtTimeIndex(at)
    BY DEF BreachAtTimeIndex
  <1>4. \A v : ThresholdDuration(v)' = ThresholdDuration(v)
    BY DEF ThresholdDuration
  <1>5. \A p : RecordOf(p)' = RecordOf(p)
    <2>1. ASSUME NEW f, NEW c PROVE GetBreachRecord(f, c)' = GetBreachRecord(f, c)
      BY <1>3, <1>4, Zenon DEF GetBreachRecord
    <2>2. QED
      BY <1>1, <2>1 DEF RecordOf
  <1>6. QED
    BY <1>1, <1>2, <1>5

LEMMA DoneIsPreceding == Done = Preceding(Here)
  BY DEF Done, Preceding

LEMMA InitIInv == Init => IInv
  <1> SUFFICES ASSUME Init PROVE IInv
    OBVIOUS
  <1>1. file \in Files /\ area = 1 /\ next = 1 /\ records = <<>> /\ blocks = <<>> /\ status = "running"
    BY DEF Init
  <1>2. Done = {}
    <2>1. ASSUME NEW p \in Breaching PROVE ~Before(p, Here)
      BY <1>1, PlaceIsPair DEF Before, Here
    <2>2. QED
      BY <2>1 DEF Done
  <1>3. Cardinality(Done) = 0
    BY <1>2, FS_EmptySet
  <1>4. Len(records) = 0 /\ DOMAIN records = {}
    BY <1>1
  <1>5. IsSequence(records) /\ RecordsAreOfTheDone
    BY <1>2, <1>3, <1>4 DEF IsSequence, RecordsAreOfTheDone
  <1>6. BlocksAreOfTheRecords /\ StatusSaysWhy
    BY <1>1 DEF BlocksAreOfTheRecords, StatusSaysWhy
  <1>7. QED
    BY <1>1, <1>5, <1>6 DEF IInv

\* The records and the connections done stay.
LEMMA NothingRecorded ==
  ASSUME IInv, UNCHANGED <<file, records>>, Done' = Done
  PROVE  RecordsAreOfTheDone' /\ IsSequence(records)'
  <1>1. RecordsAreOfTheDone /\ IsSequence(records)
    BY DEF IInv
  <1>2. QED
    BY <1>1, FileStays DEF RecordsAreOfTheDone, IsSequence

LEMMA StepIInv == IInv /\ [Next]_vars => IInv'
  <1> SUFFICES ASSUME IInv, [Next]_vars PROVE IInv'
    OBVIOUS
  <1>0. /\ file \in Files /\ area \in Nat \ {0} /\ next \in Nat \ {0}
        /\ Len(records) \in Nat /\ DOMAIN records = 1 .. Len(records)
    BY DEF IInv, IsSequence
  <1>1. StatusSaysWhy /\ BlocksAreOfTheRecords /\ RecordsAreOfTheDone
    BY DEF IInv
  <1>2. CASE NoFlowAreas
    <2>1. UNCHANGED <<file, area, next, records, blocks>> /\ status' = "failed"
      BY <1>2 DEF NoFlowAreas
    <2>2. Done' = Done
      BY <2>1, FileStays DEF Done, Here, Before
    <2>3. BlocksAreOfTheRecords'
      BY <1>1, <2>1 DEF BlocksAreOfTheRecords, OutputBlock
    <2>4. StatusSaysWhy'
      BY <1>1, <2>1 DEF StatusSaysWhy
    <2>5. QED
      BY <1>0, <2>1, <2>2, <2>3, <2>4, NothingRecorded DEF IInv
  <1>3. CASE NextArea
    <2>1. /\ UNCHANGED <<file, records, blocks, status>> /\ status = "running"
          /\ area' = area + 1 /\ next' = 1
          /\ file.areas[area].opens => next > Len(file.areas[area].connections)
          /\ area <= Len(file.areas)
      <3>1. /\ UNCHANGED <<file, records, blocks, status>> /\ status = "running"
            /\ area' = area + 1 /\ next' = 1 /\ area <= Len(file.areas)
            /\ file.areas[area].opens => ~(next <= Len(file.areas[area].connections))
        BY <1>3 DEF NextArea, Reads, ReadsConnection
      <3>2. QED
        BY <1>0, <3>1, AreaIs
    <2>2. ASSUME NEW p \in Breaching PROVE Before(p, Here)' <=> Before(p, Here)
      <3>1. p[1] \in Nat \ {0} /\ p[2] \in Nat \ {0}
        BY <1>0, PlaceIsPair
      <3>2. ASSUME p[1] = area PROVE p[2] < next
        <4>1. file.areas[area].opens /\ p[2] \in 1 .. Len(file.areas[area].connections)
          BY <1>0, <3>2, BreachingIs
        <4>2. QED
          BY <1>0, <2>1, <4>1, AreaIs
      <3>3. QED
        BY <1>0, <2>1, <3>1, <3>2 DEF Before, Here
    <2>3. Done' = Done
      BY <2>1, <2>2, FileStays DEF Done
    <2>4. BlocksAreOfTheRecords' /\ StatusSaysWhy'
      BY <1>1, <2>1 DEF BlocksAreOfTheRecords, OutputBlock, StatusSaysWhy
    <2>5. QED
      BY <1>0, <2>1, <2>3, <2>4, NothingRecorded DEF IInv
  <1>4. ASSUME UNCHANGED <<file, area>>, next' = next + 1, NEW p \in Breaching
        PROVE  Before(p, Here)' <=> Before(p, Here) \/ p = Here
    <2>1. p = <<p[1], p[2]>> /\ p[1] \in Nat \ {0} /\ p[2] \in Nat \ {0}
      BY <1>0, PlaceIsPair
    <2>2. QED
      BY <1>0, <1>4, <2>1 DEF Before, Here
  <1>5. CASE Skip
    <2>1. /\ UNCHANGED <<file, area, records, blocks, status>> /\ status = "running"
          /\ next' = next + 1 /\ ~HasBreachData(Connection)
      BY <1>5 DEF Skip, ReadsConnection, Reads
    <2>2. Here \notin Breaching
      <3>1. ConnectionAt(Here) = Connection
        BY DEF ConnectionAt, Here, Connection
      <3>2. QED
        BY <1>0, <2>1, <3>1, BreachingIs
    <2>3. Done' = Done
      BY <1>4, <2>1, <2>2, FileStays DEF Done
    <2>4. BlocksAreOfTheRecords' /\ StatusSaysWhy'
      BY <1>1, <2>1 DEF BlocksAreOfTheRecords, OutputBlock, StatusSaysWhy
    <2>5. QED
      BY <1>0, <2>1, <2>3, <2>4, NothingRecorded DEF IInv
  <1>6. CASE Record
    <2> DEFINE r == GetBreachRecord(file.areas[area].name, Connection)
               n == Len(records)
    <2>1. /\ UNCHANGED <<file, area, blocks, status>> /\ status = "running" /\ next' = next + 1
          /\ records' = Append(records, r) /\ file.times # <<>>
          /\ HasBreachData(Connection) /\ file.areas[area].opens
          /\ area <= Len(file.areas) /\ next <= Len(file.areas[area].connections)
      BY <1>6 DEF Record, ReadsConnection, Reads
    <2>2. ConnectionAt(Here) = Connection /\ Here[1] = area /\ Here[2] = next
          /\ Here = <<Here[1], Here[2]>>
      BY DEF ConnectionAt, Here, Connection
    <2>3. Here \in Breaching
      <3>1. area \in 1 .. Len(file.areas) /\ area \in DOMAIN file.areas
        BY <1>0, <2>1, AreaIs
      <3>2. next \in 1 .. Len(file.areas[area].connections)
        BY <1>0, <2>1, AreaIs
      <3>3. QED
        BY <1>0, <2>1, <2>2, <3>1, <3>2, BreachingIs
    <2>4. Done' = Done \cup {Here} /\ Here \notin Done
      <3>1. ~Before(Here, Here)
        BY <1>0, <2>2 DEF Before
      <3>2. QED
        BY <1>4, <2>1, <2>3, <3>1, FileStays DEF Done
    <2>5. n = Cardinality(Done) /\ Position(Here) = n + 1
      BY <1>1, DoneIsPreceding DEF RecordsAreOfTheDone, Position, Preceding
    <2>6. Cardinality(Done') = n + 1
      <3>1. IsFiniteSet(Done)
        BY <1>0, DoneIsPreceding, PrecedingIsFinite
      <3>2. Cardinality(Done \cup {Here}) = Cardinality(Done) + 1
        BY <2>4, <3>1, FS_AddElement
      <3>3. QED
        BY <2>4, <2>5, <3>2
    <2>7. \A p \in Done : Position(p) \in 1 .. n
      <3>1. Here \in (Nat \ {0}) \X (Nat \ {0})
        BY <1>0 DEF Here
      <3>2. ASSUME NEW p \in Done PROVE Position(p) \in 1 .. n
        <4>1. p \in Breaching /\ Before(p, Here)
          BY DEF Done
        <4>2. QED
          BY <1>0, <2>5, <3>1, <4>1, DoneIsPreceding, PositionsFollowPlaces
      <3>3. QED
        BY <3>2
    <2> HIDE DEF r, n
    <2>8. /\ Len(records') = n + 1 /\ DOMAIN records' = 1 .. n + 1 /\ n \in Nat
          /\ records'[n + 1] = r /\ \A i \in 1 .. n : records'[i] = records[i]
      BY <1>0, <2>1 DEF n
    <2>9. \A p \in Done' : records'[Position(p)] = RecordOf(p)
      <3>1. ASSUME NEW p \in Done
            PROVE  records'[Position(p)] = RecordOf(p)
        <4>1. records[Position(p)] = RecordOf(p)
          BY <1>1 DEF RecordsAreOfTheDone
        <4>2. QED
          BY <2>7, <2>8, <4>1
      <3>2. records'[Position(Here)] = RecordOf(Here)
        BY <2>2, <2>5, <2>8 DEF r, RecordOf
      <3>3. QED
        BY <2>4, <3>1, <3>2
    <2>10. \A i \in DOMAIN records' : \E p \in Done' : Position(p) = i
      <3>1. ASSUME NEW i \in 1 .. n PROVE \E p \in Done' : Position(p) = i
        <4>1. \E p \in Done : Position(p) = i
          BY <1>0, <1>1, <3>1 DEF RecordsAreOfTheDone, n
        <4>2. QED
          BY <2>4, <4>1
      <3>2. Here \in Done' /\ Position(Here) = n + 1
        BY <2>4, <2>5
      <3>3. QED
        BY <2>8, <3>1, <3>2
    <2>11. RecordsAreOfTheDone' /\ IsSequence(records)'
      <3>1. \A p : Position(p)' = Position(p) /\ RecordOf(p)' = RecordOf(p)
        BY <2>1, FileStays
      <3>2. \A p \in Done' : records'[Position(p)'] = RecordOf(p)'
        BY <2>1, <2>9, <3>1
      <3>3. \A i \in DOMAIN records' : \E p \in Done' : Position(p)' = i
        BY <2>10, <3>1
      <3>4. IsSequence(records)'
        BY <2>8 DEF IsSequence
      <3>5. Len(records') = Cardinality(Done)'
        BY <2>6, <2>8
      <3>6. QED
        BY <3>2, <3>3, <3>4, <3>5 DEF RecordsAreOfTheDone
    <2>12. BlocksAreOfTheRecords'
      BY <1>1, <2>1 DEF BlocksAreOfTheRecords
    <2>13. StatusSaysWhy'
      BY <1>1, <2>1 DEF StatusSaysWhy
    <2>14. QED
      BY <1>0, <2>1, <2>11, <2>12, <2>13 DEF IInv
  <1>7. CASE NoTimeSteps
    <2>1. /\ UNCHANGED <<file, area, next, records, blocks>> /\ status' = "panic"
          /\ file.times = <<>> /\ HasBreachData(Connection) /\ file.areas[area].opens
          /\ area <= Len(file.areas) /\ next <= Len(file.areas[area].connections)
      BY <1>7 DEF NoTimeSteps, ReadsConnection, Reads
    <2>2. Here \in Breaching
      <3>1. area \in 1 .. Len(file.areas) /\ area \in DOMAIN file.areas
        BY <1>0, <2>1, AreaIs
      <3>2. next \in 1 .. Len(file.areas[area].connections)
        BY <1>0, <2>1, AreaIs
      <3>3. ConnectionAt(Here) = Connection /\ Here[1] = area /\ Here[2] = next
            /\ Here = <<Here[1], Here[2]>>
        BY DEF ConnectionAt, Here, Connection
      <3>4. QED
        BY <1>0, <2>1, <3>1, <3>2, <3>3, BreachingIs
    <2>3. Done' = Done
      BY <2>1, FileStays DEF Done, Here, Before
    <2>4. BlocksAreOfTheRecords'
      BY <1>1, <2>1 DEF BlocksAreOfTheRecords, OutputBlock
    <2>5. StatusSaysWhy'
      BY <1>1, <2>1, <2>2, FileStays DEF StatusSaysWhy
    <2>6. QED
      BY <1>0, <2>1, <2>3, <2>4, <2>5, NothingRecorded DEF IInv
  <1>8. CASE Finish
    <2>1. /\ UNCHANGED <<file, area, next, records>> /\ status' = "done"
          /\ area > Len(file.areas)
          /\ blocks' = [i \in DOMAIN records |-> OutputBlock(records[i])]
      BY <1>8 DEF Finish
    <2>2. Done' = Done
      BY <2>1, FileStays DEF Done, Here, Before
    <2>3. BlocksAreOfTheRecords'
      BY <2>1 DEF BlocksAreOfTheRecords, OutputBlock
    <2>4. StatusSaysWhy'
      BY <1>1, <2>1 DEF StatusSaysWhy
    <2>5. QED
      BY <1>0, <2>1, <2>2, <2>3, <2>4, NothingRecorded DEF IInv
  <1>9. CASE UNCHANGED vars
    <2>1. Done' = Done
      BY <1>9, FileStays DEF vars, Done, Here, Before
    <2>2. BlocksAreOfTheRecords'
      BY <1>1, <1>9 DEF vars, BlocksAreOfTheRecords, OutputBlock
    <2>3. StatusSaysWhy'
      BY <1>1, <1>9, FileStays DEF vars, StatusSaysWhy
    <2>4. QED
      BY <1>0, <1>9, <2>1, <2>2, <2>3, NothingRecorded DEF IInv, vars
  <1>10. QED
    BY <1>2, <1>3, <1>5, <1>6, <1>7, <1>8, <1>9 DEF Next

\* The inductive invariant holds of every results file.
THEOREM Invariance == Spec => []IInv
  BY InitIInv, StepIInv, PTL DEF Spec

-----------------------------------------------------------------------------
(* Which connections have a record.  *)

LEMMA RecordedIs ==
  ASSUME IInv, NEW p \in Breaching, Position(p) <= Len(records)
  PROVE  /\ records[Position(p)] = RecordOf(p)
         /\ HasBreachData(ConnectionAt(p))
         /\ Len(file.times) \in Nat \ {0, 1}
         /\ IsBreach(ConnectionAt(p), Len(file.times))
  <1>0. /\ file \in Files /\ area \in Nat \ {0} /\ next \in Nat \ {0}
        /\ StatusSaysWhy /\ RecordsAreOfTheDone
    BY DEF IInv
  <1>1. Here \in (Nat \ {0}) \X (Nat \ {0}) /\ Len(records) = Cardinality(Preceding(Here))
    BY <1>0, DoneIsPreceding DEF Here, RecordsAreOfTheDone
  <1>2. Cardinality(Preceding(Here)) \in Nat
    BY <1>0, PrecedingIsFinite
  <1>3. Position(p) \in Nat \ {0} /\ Before(p, Here)
    BY <1>0, <1>1, <1>2, PositionsFollowPlaces
  <1>4. records[Position(p)] = RecordOf(p)
    BY <1>0, <1>3 DEF Done, RecordsAreOfTheDone
  <1>5. Len(records) # 0
    BY <1>1, <1>2, <1>3
  <1>6. records # <<>>
    BY <1>5
  <1>7. file.times # <<>>
    BY <1>0, <1>6 DEF StatusSaysWhy
  <1>8. file.times \in Seq(Int) /\ Len(file.times) # 1
    BY <1>0, FileIs
  <1>9. Len(file.times) \in Nat \ {0, 1}
    BY <1>7, <1>8
  <1>10. HasBreachData(ConnectionAt(p))
    BY <1>0, BreachingIs
  <1>11. p[1] \in DOMAIN file.areas /\ p[2] \in DOMAIN file.areas[p[1]].connections
    BY <1>0, PlaceIsPair
  <1>12. IsBreach(ConnectionAt(p), Len(file.times))
    BY <1>0, <1>7, <1>10, <1>11, FileIs DEF ConnectionAt
  <1>13. QED
    BY <1>4, <1>9, <1>10, <1>12

\* What a record says, field by field.
LEMMA RecordSays ==
  ASSUME NEW p
  PROVE  LET c  == ConnectionAt(p)
             at == BreachAtTime(c)
             k  == BreachAtTimeIndex(at)
             r  == RecordOf(p)
         IN  /\ DOMAIN r = {"FlowArea2D", "SaConn", "Breached", "BreachStartTime", "BreachIndex",
                           "MaxHW", "MaxTW", "HWAtBreach", "TWAtBreach", "MaxBottomWidth",
                           "MaxFlow", "BreachProgressionDuration"}
             /\ r.FlowArea2D = file.areas[p[1]].name
             /\ r.SaConn = c.name
             /\ r.Breached = (at # NaN)
             /\ r.BreachStartTime = at
             /\ r.BreachIndex = k
             /\ r.HWAtBreach = IF k = -1 THEN NaN ELSE ColumnOf(c, "Stage HW")[k + 1]
             /\ r.MaxHW = MaxOf(ColumnOf(c, "Stage HW"))
             /\ r.MaxTW = MaxOf(ColumnOf(c, "Stage TW"))
             /\ r.MaxFlow = MaxOf(ColumnOf(c, "Breach Flow"))
             /\ r.MaxBottomWidth = MaxOf(ColumnOf(c, "Bottom-Width"))
             /\ r.BreachProgressionDuration = ThresholdDuration(ColumnOf(c, "Breach Velocity"))
  BY DEF RecordOf, GetBreachRecord

LEMMA AllRecorded == IInv => EveryBreachIsRecorded
  <1> SUFFICES ASSUME IInv PROVE EveryBreachIsRecorded
    OBVIOUS
  <1>0. /\ file \in Files /\ area \in Nat \ {0} /\ next \in Nat \ {0}
        /\ StatusSaysWhy /\ RecordsAreOfTheDone
    BY DEF IInv
  <1>1. ASSUME status = "done" PROVE Len(records) = Cardinality(Breaching)
    <2>1. area > Len(file.areas) /\ Len(file.areas) \in Nat
      BY <1>0, <1>1, FileIs DEF StatusSaysWhy
    <2>2. ASSUME NEW p \in Breaching PROVE Before(p, Here)
      <3>1. p[1] \in 1 .. Len(file.areas)
        BY <1>0, BreachingIs
      <3>2. QED
        BY <1>0, <2>1, <3>1 DEF Before, Here
    <2>3. Done = Breaching
      BY <2>2 DEF Done
    <2>4. QED
      BY <1>0, <2>3 DEF RecordsAreOfTheDone
  <1>2. status = "panic" => file.times = <<>> /\ Breaching # {}
    BY <1>0 DEF StatusSaysWhy
  <1>3. ASSUME NEW p \in Recorded
        PROVE  /\ records[Position(p)].FlowArea2D = file.areas[p[1]].name
               /\ records[Position(p)].SaConn = ConnectionAt(p).name
    <2>1. records[Position(p)] = RecordOf(p)
      BY RecordedIs DEF Recorded
    <2>2. QED
      BY <2>1, RecordSays
  <1>4. QED
    BY <1>1, <1>2, <1>3 DEF EveryBreachIsRecorded

-----------------------------------------------------------------------------
(* Columns.  *)

LEMMA NaNIsNoNumber ==
  /\ NaN \notin Int /\ Null \notin Int /\ NaN # Null /\ Threshold \in Int
  /\ NaN \notin BOOLEAN /\ Null \notin BOOLEAN /\ NaN \notin STRING /\ Null \notin STRING
  BY ValuesAssumption

\* The column with a name is found; without one it is the first.
LEMMA ColumnIndexIs ==
  ASSUME NEW c, NEW n, IsBreach(c, n), NEW name
  PROVE  /\ ColumnIndex(c, name) \in DOMAIN c.data
         /\ \A i \in DOMAIN c.fields : c.fields[i] = name => ColumnIndex(c, name) = i
  <1> DEFINE I == {i \in 1 .. Len(c.fields) : c.fields[i] = name}
  <1>1. /\ Len(c.fields) \in Nat /\ DOMAIN c.fields = 1 .. Len(c.fields)
        /\ DOMAIN c.data = DOMAIN c.fields /\ DOMAIN c.fields # {}
        /\ \A i, j \in DOMAIN c.fields : c.fields[i] = c.fields[j] => i = j
    BY DEF IsBreach, IsSequence
  <1>2. ColumnIndex(c, name) = IF (IF I # {} THEN Max(I) ELSE 0) = 0 THEN 1
                               ELSE IF I # {} THEN Max(I) ELSE 0
    BY DEF ColumnIndex, SelectLastInSeq
  <1>3. CASE I = {}
    <2>1. 1 \in 1 .. Len(c.fields)
      BY <1>1
    <2>2. QED
      BY <1>1, <1>2, <1>3, <2>1
  <1>4. CASE I # {}
    <2>1. PICK i \in I : TRUE
      BY <1>4
    <2>2. I = {i} /\ i \in 1 .. Len(c.fields)
      BY <1>1, <2>1
    <2>3. Max(I) = i
      BY <1>1, <2>2 DEF Max
    <2>4. ColumnIndex(c, name) = i
      BY <1>1, <1>2, <1>4, <2>2, <2>3
    <2>5. \A j \in DOMAIN c.fields : c.fields[j] = name => j = i
      BY <1>1, <2>2
    <2>6. QED
      BY <1>1, <2>2, <2>4, <2>5
  <1>5. QED
    BY <1>3, <1>4

\* A column has a value a step.
LEMMA ColumnIsOfValues ==
  ASSUME NEW c, NEW n \in Nat, IsBreach(c, n), NEW name
  PROVE  /\ ColumnOf(c, name) \in [1 .. n -> Values]
         /\ \A i \in DOMAIN c.fields : c.fields[i] = name =>
              ColumnOf(c, name) = IF i \in c.broken THEN [s \in 1 .. n |-> 0] ELSE c.data[i]
  <1>1. \A i \in DOMAIN c.data :
          /\ c.data[i] \in [1 .. n -> Values]
          /\ BreachingVariables(c)[i] = IF i \in c.broken THEN [s \in 1 .. n |-> 0] ELSE c.data[i]
    BY DEF IsBreach, BreachingVariables
  <1>2. [s \in 1 .. n |-> 0] \in [1 .. n -> Values]
    BY DEF Values
  <1>3. DOMAIN c.data = DOMAIN c.fields
    BY DEF IsBreach
  <1>4. QED
    BY <1>1, <1>2, <1>3, ColumnIndexIs DEF ColumnOf

\* The headwater is a number at every step.
LEMMA HeadwaterIsNumber ==
  ASSUME NEW c, NEW n \in Nat, IsBreach(c, n), NEW s \in 1 .. n
  PROVE  ColumnOf(c, "Stage HW")[s] \in Int
  <1>1. PICK i \in DOMAIN c.fields : c.fields[i] = "Stage HW" /\ c.data[i] \in [1 .. n -> Int]
    BY DEF IsBreach
  <1>2. ColumnOf(c, "Stage HW") = IF i \in c.broken THEN [t \in 1 .. n |-> 0] ELSE c.data[i]
    BY <1>1, ColumnIsOfValues
  <1>3. CASE i \in c.broken
    <2>1. [t \in 1 .. n |-> 0] \in [1 .. n -> Int]
      OBVIOUS
    <2>2. ColumnOf(c, "Stage HW") \in [1 .. n -> Int]
      BY <1>2, <1>3, <2>1
    <2>3. QED
      BY <2>2
  <1>4. CASE i \notin c.broken
    BY <1>1, <1>2, <1>4
  <1>5. QED
    BY <1>3, <1>4

\* What a turn of Max makes of the greatest number so far, and what that is.
Larger(a, v) == IF v = NaN \/ Greater(a, v) THEN a ELSE v

IsMaximumOf(m, t, n) ==
  /\ \E i \in DOMAIN t : m = t[i]
  /\ \A i \in 1 .. n : t[i] # NaN => m # NaN /\ t[i] <= m

LEMMA MaximumOfOneMore ==
  ASSUME NEW n \in Nat, NEW t \in [1 .. n -> Values], NEW m \in 0 .. n - 1, NEW v,
         IsMaximumOf(v, t, m)
  PROVE  IsMaximumOf(Larger(t[m + 1], v), t, m + 1)
  <1> DEFINE w == Larger(t[m + 1], v)
  <1>1. m + 1 \in 1 .. n /\ t[m + 1] \in Values
    OBVIOUS
  <1>2. v \in Values /\ \E i \in DOMAIN t : v = t[i]
    BY DEF IsMaximumOf
  <1>3. w = t[m + 1] \/ w = v
    BY DEF Larger
  <1>4. \E i \in DOMAIN t : w = t[i]
    BY <1>1, <1>2, <1>3
  <1>5. v # NaN => w # NaN /\ v <= w
    BY <1>1, <1>2, NaNIsNoNumber DEF Larger, Greater, Values
  <1>6. t[m + 1] # NaN => w # NaN /\ t[m + 1] <= w
    BY <1>1, <1>2, NaNIsNoNumber DEF Larger, Greater, Values
  <1>7. w \in Values
    BY <1>1, <1>2, <1>3
  <1> HIDE DEF w
  <1>8. ASSUME NEW i \in 1 .. m + 1, t[i] # NaN PROVE w # NaN /\ t[i] <= w
    <2>1. CASE i = m + 1
      BY <1>6, <1>8, <2>1
    <2>2. CASE i \in 1 .. m
      <3>1. v # NaN /\ t[i] <= v /\ t[i] \in Values
        BY <1>8, <2>2 DEF IsMaximumOf
      <3>2. QED
        BY <1>2, <1>5, <1>7, <1>8, <3>1, NaNIsNoNumber DEF Values
    <2>3. QED
      BY <2>1, <2>2
  <1>9. IsMaximumOf(w, t, m + 1)
    BY <1>4, <1>8 DEF IsMaximumOf
  <1>10. QED
    BY <1>9 DEF w

\* What Max returns.
LEMMA MaxOfIsMaximum ==
  ASSUME NEW n \in Nat \ {0}, NEW t \in [1 .. n -> Values]
  PROVE  IsMaximumOf(MaxOf(t), t, n)
  <1> DEFINE Turns(g) == [i \in 0 .. n |-> IF i = 0 THEN t[1]
                                          ELSE IF g[i - 1] = NaN \/ Greater(t[i], g[i - 1]) THEN t[i]
                                          ELSE g[i - 1]]
             f == CHOOSE g : g = Turns(g)
             V == Values
             s == t[1]
             G == [i \in 1 .. n |-> [v \in V |-> Larger(t[i], v)]]
  <1>1. Len(t) = n
    OBVIOUS
  <1>2. MaxOf(t) = f[n]
    BY <1>1 DEF MaxOf
  <1>3. s \in V /\ \A i \in 1 .. n : t[i] \in V
    OBVIOUS
  <1>4. G \in [1 .. n -> [V -> V]]
    BY <1>3 DEF Larger
  <1>5. \A i \in 1 .. n : \A v \in V : G[i][v] = Larger(t[i], v)
    OBVIOUS
  <1> HIDE DEF V, s, G
  <1>6. PICK g : IsLoop(g, n, V, s, G)
    BY <1>3, <1>4, Loop
  <1>7. g \in [0 .. n -> V] /\ g[0] = s
    BY <1>6 DEF IsLoop
  <1>8. ASSUME NEW i \in 1 .. n PROVE g[i] = Larger(t[i], g[i - 1])
    <2>1. i - 1 \in 0 .. n
      OBVIOUS
    <2>2. g[i - 1] \in V /\ g[i] = G[i][g[i - 1]]
      BY <1>6, <2>1 DEF IsLoop
    <2>3. QED
      BY <1>5, <2>2
  <1>9. g = Turns(g)
    BY <1>7, <1>8 DEF Larger, s
  <1>10. f = Turns(f)
    BY <1>9
  <1> HIDE DEF f
  <1>11. \A i \in 0 .. n : f[i] = Turns(f)[i]
    BY <1>10
  <1>12. f[0] = t[1]
    BY <1>11
  <1>13. ASSUME NEW i \in 1 .. n PROVE f[i] = Larger(t[i], f[i - 1])
    <2>1. i \in 0 .. n /\ i # 0
      OBVIOUS
    <2>2. f[i] = IF f[i - 1] = NaN \/ Greater(t[i], f[i - 1]) THEN t[i] ELSE f[i - 1]
      BY <1>11, <2>1
    <2>3. QED
      BY <2>2 DEF Larger
  <1> HIDE DEF Turns
  <1> DEFINE S == {m \in Nat : m <= n => IsMaximumOf(f[m], t, m)}
  <1>14. 0 \in S
    BY <1>12 DEF IsMaximumOf
  <1>15. ASSUME NEW m \in Nat, m \in S PROVE m + 1 \in S
    <2>1. SUFFICES ASSUME m + 1 <= n PROVE IsMaximumOf(f[m + 1], t, m + 1)
      OBVIOUS
    <2>2. IsMaximumOf(f[m], t, m) /\ m \in 0 .. n - 1 /\ m + 1 \in 1 .. n
      BY <1>15, <2>1
    <2>3. f[m + 1] = Larger(t[m + 1], f[m])
      BY <1>13, <2>2
    <2>4. QED
      BY <2>2, <2>3, MaximumOfOneMore
  <1> HIDE DEF S
  <1>16. n \in S
    BY <1>14, <1>15, Induction
  <1>17. QED
    BY <1>2, <1>16 DEF S

\* The maximum a record has of a variable.
LEMMA MaximumOfVariable ==
  ASSUME NEW c, NEW n \in Nat \ {0}, IsBreach(c, n), NEW name,
         NEW col \in DOMAIN c.fields, c.fields[col] = name
  PROVE  LET m == MaxOf(ColumnOf(c, name))
         IN  IF col \in c.broken THEN m = 0
             ELSE /\ m \in ToSet(c.data[col])
                  /\ \A v \in ToSet(c.data[col]) : v # NaN => m # NaN /\ v <= m
  <1> DEFINE t == ColumnOf(c, name)
             m == MaxOf(t)
  <1>1. /\ t \in [1 .. n -> Values]
        /\ t = IF col \in c.broken THEN [s \in 1 .. n |-> 0] ELSE c.data[col]
    BY ColumnIsOfValues
  <1>2. IsMaximumOf(m, t, n)
    BY <1>1, MaxOfIsMaximum
  <1> HIDE DEF t, m
  <1>3. (\E i \in 1 .. n : m = t[i]) /\ \A i \in 1 .. n : t[i] # NaN => m # NaN /\ t[i] <= m
    BY <1>1, <1>2 DEF IsMaximumOf
  <1>4. CASE col \in c.broken
    <2>1. m = 0
      BY <1>1, <1>3, <1>4
    <2>2. QED
      BY <1>4, <2>1 DEF m, t
  <1>5. CASE col \notin c.broken
    <2>1. ToSet(c.data[col]) = {t[i] : i \in 1 .. n}
      BY <1>1, <1>5 DEF ToSet
    <2>2. /\ m \in ToSet(c.data[col])
          /\ \A v \in ToSet(c.data[col]) : v # NaN => m # NaN /\ v <= m
      BY <1>3, <2>1
    <2>3. QED
      BY <1>5, <2>2 DEF m, t
  <1>6. QED
    BY <1>4, <1>5

LEMMA MaximaAreRight == IInv => MaximaAreOfTheirVariable
  <1> SUFFICES ASSUME IInv, NEW p \in Recorded
               PROVE  LET c == ConnectionAt(p)
                          r == records[Position(p)]
                          IsMaximum(m, name) ==
                            \A col \in DOMAIN c.fields : c.fields[col] = name =>
                              IF col \in c.broken THEN m = 0
                              ELSE /\ m \in ToSet(c.data[col])
                                   /\ \A v \in ToSet(c.data[col]) : v # NaN => m # NaN /\ v <= m
                      IN  /\ IsMaximum(r.MaxHW, "Stage HW")
                          /\ IsMaximum(r.MaxTW, "Stage TW")
                          /\ IsMaximum(r.MaxFlow, "Breach Flow")
                          /\ IsMaximum(r.MaxBottomWidth, "Bottom-Width")
    BY DEF MaximaAreOfTheirVariable
  <1> DEFINE c == ConnectionAt(p)
             r == records[Position(p)]
             n == Len(file.times)
  <1>1. r = RecordOf(p) /\ n \in Nat \ {0} /\ IsBreach(c, n)
    BY RecordedIs DEF Recorded
  <1>2. /\ r.MaxHW = MaxOf(ColumnOf(c, "Stage HW"))
        /\ r.MaxTW = MaxOf(ColumnOf(c, "Stage TW"))
        /\ r.MaxFlow = MaxOf(ColumnOf(c, "Breach Flow"))
        /\ r.MaxBottomWidth = MaxOf(ColumnOf(c, "Bottom-Width"))
    BY <1>1, RecordSays
  <1> HIDE DEF c, r, n
  <1>3. QED
    BY <1>1, <1>2, MaximumOfVariable DEF c, r

-----------------------------------------------------------------------------
(* Times.  *)

LEMMA TimesAre ==
  ASSUME file \in Files
  PROVE  /\ Len(file.times) \in Nat /\ DOMAIN file.times = 1 .. Len(file.times)
         /\ \A s \in 1 .. Len(file.times) : file.times[s] \in Int
         /\ \A s, t \in 1 .. Len(file.times) : s < t => file.times[s] < file.times[t]
         /\ \A s, t \in 1 .. Len(file.times) : file.times[s] = file.times[t] => s = t
  <1>1. /\ file.times \in Seq(Int)
        /\ \A s, t \in DOMAIN file.times : s < t => file.times[s] < file.times[t]
    BY FileIs
  <1>2. /\ Len(file.times) \in Nat /\ DOMAIN file.times = 1 .. Len(file.times)
        /\ \A s \in 1 .. Len(file.times) : file.times[s] \in Int
    BY <1>1
  <1>3. \A s, t \in 1 .. Len(file.times) : s < t => file.times[s] < file.times[t]
    BY <1>1, <1>2
  <1>4. ASSUME NEW s \in 1 .. Len(file.times), NEW t \in 1 .. Len(file.times),
               file.times[s] = file.times[t]
        PROVE  s = t
    <2>1. CASE s < t
      BY <1>2, <1>3, <1>4, <2>1
    <2>2. CASE t < s
      BY <1>2, <1>3, <1>4, <2>2
    <2>3. QED
      BY <1>2, <2>1, <2>2
  <1>5. QED
    BY <1>2, <1>3, <1>4

LEMMA MinIsLeast ==
  ASSUME NEW S \in SUBSET Nat, S # {}
  PROVE  Min(S) \in S /\ \A n \in S : Min(S) <= n
  BY Least DEF Min

LEMMA MaxIsGreatest ==
  ASSUME NEW S \in SUBSET Nat, NEW m \in S, \A n \in S : n <= m
  PROVE  Max(S) = m
  <1>1. \E x \in S : \A y \in S : x >= y
    <2>1. \A y \in S : m >= y
      OBVIOUS
    <2>2. QED
      BY <2>1
  <1>2. Max(S) \in S /\ \A y \in S : Max(S) >= y
    BY <1>1 DEF Max
  <1>3. Max(S) >= m /\ Max(S) <= m /\ Max(S) \in Nat /\ m \in Nat
    BY <1>2
  <1>4. QED
    BY <1>3

\* The time is in the interval that ends with step i.
IsAround(at, i) ==
  /\ i \in 2 .. Len(file.times)
  /\ at # NaN
  /\ file.times[i - 1] <= at
  /\ at <= file.times[i]

\* breachAtTimeIndex finds the first interval the time is in, if there is one.
LEMMA IndexIs ==
  ASSUME file \in Files, NEW at \in Values
  PROVE  LET k == BreachAtTimeIndex(at)
         IN  \/ k = -1 /\ \A i : ~IsAround(at, i)
             \/ /\ k \in 0 .. Len(file.times) - 2 /\ IsAround(at, k + 2)
                /\ \A i : IsAround(at, i) => k + 2 <= i
  <1> DEFINE n == Len(file.times)
             around == {i \in 2 .. n : ~Greater(file.times[i - 1], at) /\ ~Greater(at, file.times[i])}
             k == BreachAtTimeIndex(at)
  <1>1. n \in Nat /\ \A s \in 1 .. n : file.times[s] \in Int
    BY TimesAre
  <1>2. k = IF at = NaN \/ around = {} THEN -1 ELSE Min(around) - 2
    BY DEF BreachAtTimeIndex
  <1>3. CASE at = NaN
    BY <1>2, <1>3 DEF IsAround
  <1>4. CASE at # NaN
    <2>1. at \in Int
      BY <1>4 DEF Values
    <2>2. \A i : i \in around <=> IsAround(at, i)
      <3>1. ASSUME NEW i \in 2 .. n PROVE i \in around <=> IsAround(at, i)
        <4>1. i - 1 \in 1 .. n /\ i \in 1 .. n
          BY <1>1
        <4>2. file.times[i - 1] \in Int /\ file.times[i] \in Int
          BY <1>1, <4>1
        <4>3. QED
          BY <1>4, <2>1, <4>2, NaNIsNoNumber DEF IsAround, Greater
      <3>2. QED
        BY <3>1 DEF IsAround
    <2>3. around \in SUBSET Nat /\ \A i \in around : i \in 2 .. n
      BY <1>1
    <2> HIDE DEF around, k, n
    <2>4. CASE around = {}
      BY <1>2, <2>2, <2>4 DEF k
    <2>5. CASE around # {}
      <3>1. Min(around) \in around /\ \A i \in around : Min(around) <= i
        BY <2>3, <2>5, MinIsLeast
      <3>2. Min(around) \in 2 .. n /\ k = Min(around) - 2
        BY <1>2, <1>4, <2>3, <2>5, <3>1
      <3>3. k \in 0 .. n - 2 /\ k + 2 = Min(around)
        BY <1>1, <3>2
      <3>4. QED
        BY <2>2, <3>1, <3>3 DEF k, n
    <2>6. QED
      BY <2>4, <2>5
  <1>5. QED
    BY <1>3, <1>4

\* The breach time of a connection.
LEMMA BreachTimeIs ==
  ASSUME NEW c, NEW n, IsBreach(c, n)
  PROVE  BreachAtTime(c) \in Values
  <1>1. c.at \in Values \cup {Absent}
    BY DEF IsBreach
  <1>2. CASE c.at = Absent
    BY <1>2 DEF BreachAtTime, Values
  <1>3. CASE c.at # Absent
    BY <1>1, <1>3 DEF BreachAtTime
  <1>4. QED
    BY <1>2, <1>3

\* What the index says of the steps before and after the breach.
LEMMA IndexIsBeforeTheBreach ==
  ASSUME file \in Files, Len(file.times) \in Nat \ {0, 1}, NEW at \in Values
  PROVE  LET k      == BreachAtTimeIndex(at)
             before == {s \in DOMAIN file.times : Greater(at, file.times[s])}
             after  == {s \in DOMAIN file.times : at # NaN /\ ~Greater(at, file.times[s])}
         IN  /\ k # -1 <=> (after # {} /\ (before # {} \/ file.times[1] = at))
             /\ k # -1 /\ before # {} => k + 1 = Max(before)
             /\ k # -1 /\ before = {} => k = 0
  <1> DEFINE n == Len(file.times)
             T(s) == file.times[s]
             k == BreachAtTimeIndex(at)
             before == {s \in DOMAIN file.times : Greater(at, file.times[s])}
             after == {s \in DOMAIN file.times : at # NaN /\ ~Greater(at, file.times[s])}
  <1>1. /\ n \in Nat /\ n >= 2 /\ DOMAIN file.times = 1 .. n
        /\ \A s \in 1 .. n : T(s) \in Int
        /\ \A s, t \in 1 .. n : s < t => T(s) < T(t)
    <2>1. /\ DOMAIN file.times = 1 .. n
          /\ \A s \in 1 .. n : T(s) \in Int
      BY TimesAre
    <2>2. \A s, t \in 1 .. n : s < t => T(s) < T(t)
      BY TimesAre
    <2>3. n \in Nat /\ n >= 2
      <3>1. \A m : m \in Nat \ {0, 1} => m \in Nat /\ m >= 2
        OBVIOUS
      <3>2. QED
        BY <3>1
    <2>4. QED
      BY <2>1, <2>2, <2>3
  <1>2. \/ k = -1 /\ \A i : ~IsAround(at, i)
        \/ k \in 0 .. n - 2 /\ IsAround(at, k + 2) /\ \A i : IsAround(at, i) => k + 2 <= i
    BY IndexIs
  <1>3. CASE at = NaN
    <2>1. k = -1 /\ after = {}
      BY <1>1, <1>2, <1>3 DEF IsAround
    <2>2. QED
      BY <2>1
  <1>4. CASE at # NaN
    <2>1. at \in Int
      BY <1>4 DEF Values
    <2>2. /\ before = {s \in 1 .. n : T(s) < at}
          /\ after = {s \in 1 .. n : at <= T(s)}
      <3>1. \A s \in 1 .. n : (Greater(at, T(s)) <=> T(s) < at) /\ (~Greater(at, T(s)) <=> at <= T(s))
        BY <1>1, <2>1, NaNIsNoNumber DEF Greater
      <3>2. QED
        BY <1>1, <1>4, <3>1
    <2>3. \A i : IsAround(at, i) <=> i \in 2 .. n /\ T(i - 1) <= at /\ at <= T(i)
      BY <1>4 DEF IsAround
    <2>4. 1 \in 1 .. n /\ 2 \in 2 .. n /\ n \in 1 .. n /\ \A i \in 2 .. n : i - 1 \in 1 .. n /\ i \in 1 .. n
      BY <1>1
    <2> HIDE DEF n, k, before, after, T
    <2>5. CASE k = -1
      <3>1. SUFFICES ASSUME after # {}, before # {} \/ T(1) = at PROVE FALSE
        BY <2>5 DEF k, before, after, T
      <3>2. after \in SUBSET Nat
        BY <1>1, <2>2
      <3>3. PICK s \in after : \A t \in after : s <= t
        BY <3>1, <3>2, Least
      <3>4. s \in 1 .. n /\ at <= T(s)
        BY <2>2, <3>3
      <3>5. CASE s = 1
        <4>1. before = {}
          <5>1. ASSUME NEW t \in before PROVE FALSE
            <6>1. t \in 1 .. n /\ T(t) < at /\ T(1) \in Int /\ T(t) \in Int
              BY <1>1, <2>2, <2>4
            <6>2. T(1) <= T(t)
              BY <1>1, <2>4, <6>1
            <6>3. QED
              BY <2>1, <3>4, <3>5, <6>1, <6>2
          <5>2. QED
            BY <5>1
        <4>2. T(1) = at
          BY <3>1, <4>1
        <4>3. T(1) < T(2) /\ T(1) \in Int /\ T(2) \in Int
          BY <1>1, <2>4
        <4>4. T(2 - 1) <= at /\ at <= T(2)
          BY <2>1, <4>2, <4>3
        <4>5. IsAround(at, 2)
          BY <2>3, <2>4, <4>4
        <4>6. QED
          BY <1>2, <2>5, <4>5
      <3>6. CASE s # 1
        <4>1. s \in 2 .. n /\ s - 1 \in 1 .. n /\ ~(s <= s - 1)
          BY <1>1, <3>4, <3>6
        <4>2. s - 1 \notin after
          BY <3>3, <4>1
        <4>3. T(s - 1) <= at
          BY <1>1, <2>1, <2>2, <4>1, <4>2
        <4>4. IsAround(at, s)
          BY <2>3, <3>4, <4>1, <4>3
        <4>5. QED
          BY <1>2, <2>5, <4>4
      <3>7. QED
        BY <3>5, <3>6
    <2>6. CASE k # -1
      <3> DEFINE j == k + 1
      <3>1. k \in 0 .. n - 2 /\ IsAround(at, k + 2) /\ \A i : IsAround(at, i) => k + 2 <= i
        BY <1>2, <2>6
      <3>2. /\ j \in 1 .. n /\ j + 1 \in 2 .. n /\ j + 1 \in 1 .. n
            /\ T(j) <= at /\ at <= T(j + 1) /\ T(j) \in Int /\ T(j + 1) \in Int
        <4>1. k + 2 = j + 1 /\ k + 2 - 1 = j /\ j \in 1 .. n /\ j + 1 \in 2 .. n /\ j + 1 \in 1 .. n
          BY <1>1, <3>1
        <4>2. QED
          BY <1>1, <2>3, <3>1, <4>1
      <3>3. j + 1 \in after
        BY <2>2, <3>2
      <3>4. CASE before = {}
        <4>1. ~(T(1) < at) /\ T(1) \in Int
          BY <1>1, <2>2, <2>4, <3>4
        <4>2. j = 1
          <5>1. SUFFICES ASSUME j # 1 PROVE FALSE
            OBVIOUS
          <5>2. 1 < j
            BY <3>2, <5>1
          <5>3. T(1) < T(j)
            BY <1>1, <2>4, <3>2, <5>2
          <5>4. QED
            BY <2>1, <3>2, <4>1, <5>3
        <4>3. T(1) = at /\ k = 0
          BY <2>1, <3>1, <3>2, <4>1, <4>2
        <4>4. QED
          BY <2>6, <3>3, <3>4, <4>3 DEF k, before, after, T
      <3>5. CASE before # {}
        <4>1. T(j) < at
          <5>1. SUFFICES ASSUME T(j) = at PROVE FALSE
            BY <2>1, <3>2
          <5>2. PICK s \in before : TRUE
            BY <3>5
          <5>3. s \in 1 .. n /\ T(s) < T(j) /\ T(s) \in Int
            BY <1>1, <2>2, <5>1, <5>2
          <5>4. s < j
            BY <1>1, <3>2, <5>3
          <5>5. j \in 2 .. n /\ j - 1 \in 1 .. n /\ j - 1 < j
            BY <1>1, <3>2, <5>3, <5>4
          <5>6. T(j - 1) < T(j) /\ T(j - 1) \in Int
            BY <1>1, <3>2, <5>5
          <5>7. IsAround(at, j)
            BY <2>1, <2>3, <5>1, <5>5, <5>6
          <5>8. k + 2 <= j
            BY <3>1, <5>7
          <5>9. QED
            BY <3>1, <5>8
        <4>2. j \in before
          BY <2>2, <3>2, <4>1
        <4>3. \A s \in before : s <= j
          <5>1. ASSUME NEW s \in before PROVE s <= j
            <6>1. s \in 1 .. n /\ T(s) < at /\ T(s) \in Int
              BY <1>1, <2>2
            <6>2. T(s) < T(j + 1)
              BY <2>1, <3>2, <6>1
            <6>3. ~(j + 1 < s) /\ s # j + 1
              BY <1>1, <3>2, <6>1, <6>2
            <6>4. QED
              BY <1>1, <3>2, <6>1, <6>3
          <5>2. QED
            BY <5>1
        <4>4. before \in SUBSET Nat
          BY <1>1, <2>2
        <4>5. Max(before) = j
          BY <4>2, <4>3, <4>4, MaxIsGreatest
        <4>6. QED
          BY <2>6, <3>3, <3>5, <4>5 DEF k, before, after, T
      <3>6. QED
        BY <3>4, <3>5
    <2>7. QED
      BY <2>5, <2>6
  <1>5. QED
    BY <1>3, <1>4

LEMMA StagesAreRight == IInv => StagesAreBeforeTheBreach
  <1> SUFFICES ASSUME IInv, NEW p \in Recorded
               PROVE  LET at == BreachAtTime(ConnectionAt(p))
                          k == records[Position(p)].BreachIndex
                          before == {s \in DOMAIN file.times : Greater(at, file.times[s])}
                          after  == {s \in DOMAIN file.times : at # NaN /\ ~Greater(at, file.times[s])}
                      IN  /\ k # -1 <=> (after # {} /\ (before # {} \/ file.times[1] = at))
                          /\ k # -1 /\ before # {} => k + 1 = Max(before)
                          /\ k # -1 /\ before = {} => k = 0
    BY DEF StagesAreBeforeTheBreach
  <1> DEFINE at == BreachAtTime(ConnectionAt(p))
  <1>1. /\ records[Position(p)] = RecordOf(p) /\ Len(file.times) \in Nat \ {0, 1}
        /\ IsBreach(ConnectionAt(p), Len(file.times)) /\ file \in Files
    BY RecordedIs DEF Recorded, IInv
  <1>2. records[Position(p)].BreachIndex = BreachAtTimeIndex(at)
    BY <1>1, RecordSays
  <1>3. at \in Values
    BY <1>1, BreachTimeIs
  <1> HIDE DEF at
  <1>4. QED
    BY <1>1, <1>2, <1>3, IndexIsBeforeTheBreach DEF at

-----------------------------------------------------------------------------
(* The document.  *)

\* A block is made of the record of a place, at its position.
LEMMA BlockIs ==
  ASSUME IInv, NEW i \in DOMAIN blocks
  PROVE  \E p \in Recorded : Position(p) = i /\ blocks[i] = OutputBlock(RecordOf(p))
  <1>1. blocks # <<>>
    OBVIOUS
  <1>2. blocks = [j \in DOMAIN records |-> OutputBlock(records[j])]
    BY <1>1 DEF IInv, BlocksAreOfTheRecords
  <1>3. i \in DOMAIN records /\ blocks[i] = OutputBlock(records[i])
    BY <1>2
  <1>4. Len(records) \in Nat /\ DOMAIN records = 1 .. Len(records) /\ RecordsAreOfTheDone
    BY DEF IInv, IsSequence
  <1>5. PICK p \in Done : Position(p) = i
    BY <1>3, <1>4 DEF RecordsAreOfTheDone
  <1>6. records[i] = RecordOf(p)
    BY <1>4, <1>5 DEF RecordsAreOfTheDone
  <1>7. p \in Recorded
    BY <1>3, <1>4, <1>5 DEF Done, Recorded
  <1>8. QED
    BY <1>3, <1>5, <1>6, <1>7

\* What a block says, field by field.
LEMMA BlockSays ==
  ASSUME NEW p
  PROVE  LET r == RecordOf(p)
             b == OutputBlock(r)
         IN  /\ b.key = ConnectionAt(p).name
             /\ NaN \notin {b.Record[f] : f \in DOMAIN b.Record}
             /\ \A f \in DOMAIN r : b.Record[f] = IF r[f] = NaN THEN Null ELSE r[f]
  <1> DEFINE r == RecordOf(p)
             b == OutputBlock(r)
  <1>1. r.SaConn = ConnectionAt(p).name
    BY RecordSays
  <1> HIDE DEF r
  <1>2. b.key = r.SaConn /\ b.Record = [f \in DOMAIN r |-> IF r[f] = NaN THEN Null ELSE r[f]]
    BY DEF OutputBlock
  <1> HIDE DEF b
  <1>3. \A f \in DOMAIN r : b.Record[f] = IF r[f] = NaN THEN Null ELSE r[f]
    BY <1>2
  <1>4. DOMAIN b.Record = DOMAIN r
    BY <1>2
  <1>5. NaN \notin {b.Record[f] : f \in DOMAIN b.Record}
    BY <1>3, <1>4, NaNIsNoNumber
  <1>6. QED
    BY <1>1, <1>2, <1>3, <1>5 DEF b, r

\* What the document says of the breach of one connection.
LEMMA BlockTellsTheTruth ==
  ASSUME IInv, NEW p \in Recorded
  PROVE  LET r == OutputBlock(RecordOf(p)).Record
         IN  /\ r.Breached <=> r.BreachStartTime # Null
             /\ ~r.Breached => r.BreachIndex = -1
             /\ r.BreachIndex = -1 <=> r.HWAtBreach = Null
             /\ r.FlowArea2D = file.areas[p[1]].name
  <1> DEFINE c == ConnectionAt(p)
             at == BreachAtTime(c)
             k == BreachAtTimeIndex(at)
             n == Len(file.times)
             q == RecordOf(p)
             r == OutputBlock(q).Record
             hw == IF k = -1 THEN NaN ELSE ColumnOf(c, "Stage HW")[k + 1]
  <1>1. n \in Nat \ {0, 1} /\ IsBreach(c, n) /\ file \in Files
    BY RecordedIs DEF Recorded, IInv
  <1>2. at \in Values
    BY <1>1, BreachTimeIs
  <1>3. /\ q.FlowArea2D = file.areas[p[1]].name /\ q.Breached = (at # NaN)
        /\ q.BreachStartTime = at /\ q.BreachIndex = k /\ q.HWAtBreach = hw
    BY RecordSays
  <1>4. \A f \in {"FlowArea2D", "Breached", "BreachStartTime", "BreachIndex", "HWAtBreach"} :
          r[f] = IF q[f] = NaN THEN Null ELSE q[f]
    BY RecordSays, BlockSays
  <1>5. /\ r.FlowArea2D = (IF q.FlowArea2D = NaN THEN Null ELSE q.FlowArea2D)
        /\ r.Breached = (IF q.Breached = NaN THEN Null ELSE q.Breached)
        /\ r.BreachStartTime = (IF q.BreachStartTime = NaN THEN Null ELSE q.BreachStartTime)
        /\ r.BreachIndex = (IF q.BreachIndex = NaN THEN Null ELSE q.BreachIndex)
        /\ r.HWAtBreach = (IF q.HWAtBreach = NaN THEN Null ELSE q.HWAtBreach)
    BY <1>4
  <1>6. \/ k = -1
        \/ k \in 0 .. n - 2 /\ IsAround(at, k + 2)
    BY <1>1, <1>2, IndexIs
  <1>7. n \in Nat /\ k \in Int
    BY <1>1, <1>6
  <1>8. k # -1 => k + 1 \in 1 .. n
    BY <1>6, <1>7
  <1>9. k # -1 => hw \in Int
    BY <1>1, <1>7, <1>8, HeadwaterIsNumber
  <1>10. k = -1 => hw = NaN
    OBVIOUS
  <1>11. at = NaN => k = -1
    BY <1>6 DEF IsAround
  <1>12. file.areas[p[1]].name \in STRING
    <2>1. p[1] \in DOMAIN file.areas
      BY <1>1, PlaceIsPair DEF Recorded
    <2>2. QED
      BY <1>1, <2>1, FileIs
  <1> HIDE DEF c, at, k, n, q, r, hw
  <1>13. r.FlowArea2D = file.areas[p[1]].name
    BY <1>3, <1>5, <1>12, NaNIsNoNumber
  <1>14. r.Breached <=> at # NaN
    <2>1. q.Breached \in BOOLEAN
      BY <1>3
    <2>2. QED
      BY <1>3, <1>5, <2>1, NaNIsNoNumber
  <1>15. r.BreachStartTime # Null <=> at # NaN
    BY <1>2, <1>3, <1>5, NaNIsNoNumber DEF Values
  <1>16. r.BreachIndex = k
    BY <1>3, <1>5, <1>7, NaNIsNoNumber
  <1>17. r.HWAtBreach = Null <=> k = -1
    BY <1>3, <1>5, <1>9, <1>10, NaNIsNoNumber
  <1>18. QED
    BY <1>11, <1>13, <1>14, <1>15, <1>16, <1>17 DEF r, q

\* Two places with connections of one name in one area are one.
LEMMA NamesTellPlacesApart ==
  ASSUME IInv, NEW p \in Recorded, NEW q \in Recorded,
         ConnectionAt(p).name = ConnectionAt(q).name,
         file.areas[p[1]].name = file.areas[q[1]].name
  PROVE  p = q
  <1>1. file \in Files /\ HasBreachData(ConnectionAt(p)) /\ p \in Breaching /\ q \in Breaching
    BY RecordedIs DEF Recorded, IInv
  <1>2. /\ p[1] \in DOMAIN file.areas /\ p[2] \in DOMAIN file.areas[p[1]].connections
        /\ q[1] \in DOMAIN file.areas /\ q[2] \in DOMAIN file.areas[q[1]].connections
        /\ p = <<p[1], p[2]>> /\ q = <<q[1], q[2]>>
    BY <1>1, PlaceIsPair, BreachingIs
  <1>3. p[1] = q[1]
    BY <1>1, <1>2, FileIs
  <1>4. ConnectionAt(p).name # ""
    BY <1>1 DEF HasBreachData
  <1>5. p[2] = q[2]
    <2> DEFINE cs == file.areas[p[1]].connections
    <2>1. \A i, j \in DOMAIN cs : cs[i].name = cs[j].name => i = j \/ cs[i].name = ""
      BY <1>1, <1>2, FileIs
    <2>2. ConnectionAt(p) = cs[p[2]] /\ ConnectionAt(q) = cs[q[2]]
      BY <1>3 DEF ConnectionAt
    <2>3. p[2] \in DOMAIN cs /\ q[2] \in DOMAIN cs
      BY <1>2, <1>3
    <2> HIDE DEF cs
    <2>4. QED
      BY <1>4, <2>1, <2>2, <2>3
  <1>6. QED
    BY <1>2, <1>3, <1>5

LEMMA DocumentIsRight == IInv => DocumentTellsConnectionsApart
  <1> SUFFICES ASSUME IInv, NEW i \in DOMAIN blocks
               PROVE  LET r == blocks[i].Record
                      IN  /\ NaN \notin {r[f] : f \in DOMAIN r}
                          /\ r.Breached <=> r.BreachStartTime # Null
                          /\ ~r.Breached => r.BreachIndex = -1
                          /\ r.BreachIndex = -1 <=> r.HWAtBreach = Null
                          /\ \A j \in DOMAIN blocks :
                               /\ blocks[i].key = blocks[j].key
                               /\ r.FlowArea2D = blocks[j].Record.FlowArea2D
                               => i = j
    BY DEF DocumentTellsConnectionsApart
  <1>1. PICK p \in Recorded : Position(p) = i /\ blocks[i] = OutputBlock(RecordOf(p))
    BY BlockIs
  <1>2. ASSUME NEW j \in DOMAIN blocks, blocks[i].key = blocks[j].key,
               blocks[i].Record.FlowArea2D = blocks[j].Record.FlowArea2D
        PROVE  i = j
    <2>1. PICK q \in Recorded : Position(q) = j /\ blocks[j] = OutputBlock(RecordOf(q))
      BY BlockIs
    <2>2. ConnectionAt(p).name = ConnectionAt(q).name
      BY <1>1, <1>2, <2>1, BlockSays
    <2>3. file.areas[p[1]].name = file.areas[q[1]].name
      BY <1>1, <1>2, <2>1, BlockTellsTheTruth
    <2>4. QED
      BY <1>1, <2>1, <2>2, <2>3, NamesTellPlacesApart
  <1>3. NaN \notin {blocks[i].Record[f] : f \in DOMAIN blocks[i].Record}
    BY <1>1, BlockSays
  <1>4. QED
    BY <1>1, <1>2, <1>3, BlockTellsTheTruth

-----------------------------------------------------------------------------
(* The duration.  *)

\* The step of a time.
LEMMA StepIs ==
  ASSUME file \in Files, NEW s \in 1 .. Len(file.times)
  PROVE  (CHOOSE t \in DOMAIN file.times : file.times[t] = file.times[s]) = s
  BY TimesAre

\* The steps after the start at which the velocity is below the threshold.
Ends(v, start) == {i \in (start + 1) .. Len(v) : start > 1 /\ Greater(Threshold, v[i])}

Rises(v) == {i \in 2 .. Len(v) : Greater(v[i], Threshold)}

\* Where getThresholdDuration finds the start and the end.
LEMMA StartAndEndAre ==
  ASSUME file \in Files, NEW v, Len(v) = Len(file.times), Len(v) \in Nat \ {0, 1},
         \A i \in 1 .. Len(v) : v[i] \in Values
  PROVE  LET start == FirstOf(Rises(v))
             end   == FirstOf(Ends(v, start))
         IN  /\ ThresholdDuration(v) = file.times[end] - file.times[start]
             /\ Rises(v) = {} => start = 1 /\ end = 1
             /\ Rises(v) # {} =>
                  /\ start = Min(Rises(v)) /\ start \in Rises(v)
                  /\ \A i \in Rises(v) : start <= i
             /\ Ends(v, start) = {} => end = 1
             /\ Ends(v, start) # {} =>
                  /\ end \in Ends(v, start)
                  /\ \A i \in Ends(v, start) : end <= i
  <1> DEFINE start == FirstOf(Rises(v))
             end == FirstOf(Ends(v, start))
  <1>1. ThresholdDuration(v) = file.times[end] - file.times[start]
    BY DEF ThresholdDuration, Rises, Ends
  <1>2. Rises(v) \in SUBSET Nat
    BY DEF Rises
  <1>3. start \in Nat /\ (Rises(v) # {} => /\ start = Min(Rises(v)) /\ start \in Rises(v)
                                           /\ \A i \in Rises(v) : start <= i)
    BY <1>2, MinIsLeast DEF FirstOf
  <1>4. Rises(v) = {} => start = 1
    BY DEF FirstOf
  <1> HIDE DEF start
  <1>5. Ends(v, start) \in SUBSET Nat
    BY <1>3 DEF Ends
  <1>6. Ends(v, start) # {} => /\ end \in Ends(v, start)
                               /\ \A i \in Ends(v, start) : end <= i
    BY <1>5, MinIsLeast DEF FirstOf
  <1>7. Ends(v, start) = {} => end = 1
    BY DEF FirstOf
  <1>8. Rises(v) = {} => Ends(v, start) = {}
    BY <1>4 DEF Ends
  <1>9. QED
    BY <1>1, <1>3, <1>4, <1>6, <1>7, <1>8 DEF start

\* What the sign of the duration says of a column.
LEMMA SignOfDuration ==
  ASSUME file \in Files, NEW v, Len(v) = Len(file.times), Len(v) \in Nat \ {0, 1},
         \A i \in 1 .. Len(v) : v[i] \in Values
  PROVE  LET d == ThresholdDuration(v)
             StepAt(t) == CHOOSE s \in DOMAIN file.times : file.times[s] = t
             end == StepAt(file.times[Min(Rises(v))] + d)
             seenBelow == \E r \in Rises(v), s \in 2 .. Len(v) : s > r /\ Greater(Threshold, v[s])
         IN  /\ d = 0 <=> Rises(v) = {}
             /\ d > 0 <=> seenBelow
             /\ d < 0 => Min(Rises(v)) = StepAt(file.times[1] - d)
             /\ d > 0 => /\ Greater(Threshold, v[end])
                         /\ \A s \in Min(Rises(v)) .. end - 1 : ~Greater(Threshold, v[s])
  <1> DEFINE n == Len(v)
             T(s) == file.times[s]
             rises == Rises(v)
             start == FirstOf(rises)
             ends == Ends(v, start)
             last == FirstOf(ends)
             d == ThresholdDuration(v)
             StepAt(t) == CHOOSE s \in DOMAIN file.times : file.times[s] = t
             end == StepAt(T(Min(rises)) + d)
             seenBelow == \E r \in rises, s \in 2 .. n : s > r /\ Greater(Threshold, v[s])
  <1>1. /\ n \in Nat /\ n >= 2
        /\ \A s \in 1 .. n : T(s) \in Int
        /\ \A s, t \in 1 .. n : s < t => T(s) < T(t)
        /\ \A s \in 1 .. n : StepAt(T(s)) = s
    <2>1. n \in Nat /\ n >= 2
      <3>1. \A m : m \in Nat \ {0, 1} => m \in Nat /\ m >= 2
        OBVIOUS
      <3>2. QED
        BY <3>1
    <2>2. \A s \in 1 .. n : T(s) \in Int
      BY TimesAre
    <2>3. \A s, t \in 1 .. n : s < t => T(s) < T(t)
      BY TimesAre
    <2>4. \A s \in 1 .. n : StepAt(T(s)) = s
      BY StepIs
    <2>5. QED
      BY <2>1, <2>2, <2>3, <2>4
  <1>2. \A i \in rises : i \in 2 .. n /\ i \in 1 .. n /\ Greater(v[i], Threshold)
    BY <1>1 DEF Rises
  <1>3. \A i : i \in ends <=> i \in (start + 1) .. n /\ start > 1 /\ Greater(Threshold, v[i])
    BY DEF Ends
  <1>4. /\ d = T(last) - T(start)
        /\ rises = {} => start = 1 /\ last = 1
        /\ rises # {} => start = Min(rises) /\ start \in rises /\ \A i \in rises : start <= i
        /\ ends = {} => last = 1
        /\ ends # {} => last \in ends /\ \A i \in ends : last <= i
    BY StartAndEndAre
  <1>5. \A s \in 1 .. n : Greater(v[s], Threshold) => ~Greater(Threshold, v[s])
    BY NaNIsNoNumber DEF Greater, Values
  <1> SUFFICES /\ d = 0 <=> rises = {}
               /\ d > 0 <=> seenBelow
               /\ d < 0 => Min(rises) = StepAt(T(1) - d)
               /\ d > 0 => /\ Greater(Threshold, v[end])
                           /\ \A s \in Min(rises) .. end - 1 : ~Greater(Threshold, v[s])
    OBVIOUS
  <1> HIDE DEF rises, start, ends, last, d, n, T, StepAt
  <1>6. CASE rises = {}
    <2>1. d = 0
      <3>1. T(1) \in Int
        BY <1>1
      <3>2. QED
        BY <1>4, <1>6, <3>1
    <2>2. ~seenBelow
      BY <1>6
    <2> HIDE DEF end, seenBelow
    <2>3. QED
      BY <1>6, <2>1, <2>2
  <1>7. CASE rises # {} /\ ends = {}
    <2>1. start = Min(rises) /\ start \in 2 .. n /\ start \in 1 .. n /\ 1 \in 1 .. n /\ last = 1
      BY <1>1, <1>2, <1>4, <1>7
    <2>2. T(1) < T(start) /\ T(1) \in Int /\ T(start) \in Int
      BY <1>1, <2>1
    <2>3. d < 0 /\ T(1) - d = T(start)
      BY <1>4, <2>1, <2>2
    <2>4. StepAt(T(1) - d) = start
      BY <1>1, <2>1, <2>3
    <2>5. ~seenBelow
      <3>1. SUFFICES ASSUME NEW r \in rises, NEW s \in 2 .. n, s > r, Greater(Threshold, v[s])
                     PROVE  FALSE
        OBVIOUS
      <3>2. start <= r /\ r \in 2 .. n
        BY <1>2, <1>4
      <3>3. s \in (start + 1) .. n /\ start > 1
        BY <1>1, <2>1, <3>1, <3>2
      <3>4. QED
        BY <1>3, <1>7, <3>1, <3>3
    <2> HIDE DEF end, seenBelow
    <2>6. d \in Int /\ ~(d > 0) /\ d # 0
      BY <1>1, <1>4, <2>1, <2>2, <2>3
    <2>7. Min(rises) = StepAt(T(1) - d)
      BY <2>1, <2>4
    <2>8. QED
      BY <1>7, <2>5, <2>6, <2>7
  <1>8. CASE rises # {} /\ ends # {}
    <2>1. /\ start = Min(rises) /\ start \in rises /\ start \in 2 .. n /\ start \in 1 .. n
          /\ last \in (start + 1) .. n /\ Greater(Threshold, v[last]) /\ \A i \in ends : last <= i
      BY <1>2, <1>3, <1>4, <1>8
    <2>2. last \in 1 .. n /\ last \in 2 .. n /\ start < last
      BY <1>1, <2>1
    <2>3. T(start) < T(last) /\ T(start) \in Int /\ T(last) \in Int
      BY <1>1, <2>1, <2>2
    <2>4. d > 0 /\ T(start) + d = T(last)
      BY <1>4, <2>3
    <2>5. end = last
      BY <1>1, <2>1, <2>2, <2>4
    <2>6. seenBelow
      BY <2>1, <2>2
    <2>7. ASSUME NEW s \in start .. last - 1 PROVE ~Greater(Threshold, v[s])
      <3>1. s \in 1 .. n /\ s < last /\ (s = start \/ s \in (start + 1) .. n)
        BY <1>1, <2>1, <2>2
      <3>2. CASE s = start
        BY <1>2, <1>5, <2>1, <3>2
      <3>3. CASE s \in (start + 1) .. n
        <4>1. s \notin ends
          BY <2>1, <2>2, <3>1
        <4>2. start > 1
          BY <1>1, <2>1
        <4>3. QED
          BY <1>3, <3>3, <4>1, <4>2
      <3>4. QED
        BY <3>1, <3>2, <3>3
    <2>8. d \in Int /\ d # 0 /\ ~(d < 0)
      BY <1>4, <2>3, <2>4
    <2>9. /\ Greater(Threshold, v[end])
          /\ \A s \in Min(rises) .. end - 1 : ~Greater(Threshold, v[s])
      BY <2>1, <2>5, <2>7
    <2> HIDE DEF end, seenBelow
    <2>10. QED
      BY <1>8, <2>4, <2>6, <2>8, <2>9
  <1>9. QED
    BY <1>6, <1>7, <1>8

LEMMA DurationIsRight == IInv => DurationIsOfFirstExcess
  <1> SUFFICES ASSUME IInv, NEW p \in Recorded
               PROVE  LET v == ColumnOf(ConnectionAt(p), "Breach Velocity")
                          d == records[Position(p)].BreachProgressionDuration
                          StepAt(t) == CHOOSE s \in DOMAIN file.times : file.times[s] = t
                          rises == {s \in 2 .. Len(v) : Greater(v[s], Threshold)}
                          seenBelow == \E r \in rises, s \in 2 .. Len(v) :
                                         s > r /\ Greater(Threshold, v[s])
                      IN  /\ d = 0 <=> rises = {}
                          /\ d > 0 <=> seenBelow
                          /\ d < 0 => Min(rises) = StepAt(file.times[1] - d)
                          /\ d > 0 => LET end == StepAt(file.times[Min(rises)] + d)
                                      IN  /\ Greater(Threshold, v[end])
                                          /\ \A s \in Min(rises) .. end - 1 :
                                               ~Greater(Threshold, v[s])
    BY DEF DurationIsOfFirstExcess
  <1> DEFINE v == ColumnOf(ConnectionAt(p), "Breach Velocity")
             n == Len(file.times)
  <1>1. /\ records[Position(p)] = RecordOf(p) /\ n \in Nat \ {0, 1}
        /\ IsBreach(ConnectionAt(p), n) /\ file \in Files
    BY RecordedIs DEF Recorded, IInv
  <1>2. records[Position(p)].BreachProgressionDuration = ThresholdDuration(v)
    BY <1>1, RecordSays
  <1>3. v \in [1 .. n -> Values]
    BY <1>1, ColumnIsOfValues
  <1> HIDE DEF v
  <1>4. Len(v) = n /\ \A i \in 1 .. Len(v) : v[i] \in Values
    BY <1>1, <1>3
  <1>5. QED
    BY <1>1, <1>2, <1>4, SignOfDuration DEF v, Rises

-----------------------------------------------------------------------------
(* What holds in every state.  *)

\* A record is made of every connection that has breach data, each in its place
\* and with its names; only time steps that cannot be read leave one out.
THEOREM All == Spec => []EveryBreachIsRecorded
  BY Invariance, AllRecorded, PTL

\* The maxima of a record are those of the columns with the names, NaN left aside,
\* and zero for just the columns that could not be read.
THEOREM Maxima == Spec => []MaximaAreOfTheirVariable
  BY Invariance, MaximaAreRight, PTL

\* The stages at the breach are those of the last step before it, and missing just
\* when no step is before the breach or none after.
THEOREM Stages == Spec => []StagesAreBeforeTheBreach
  BY Invariance, StagesAreRight, PTL

\* The document holds no NaN, its blocks can be told apart, and no breach has a
\* time, an index or a stage that did not happen.
THEOREM Document == Spec => []DocumentTellsConnectionsApart
  BY Invariance, DocumentIsRight, PTL

\* The sign of the duration tells whether the velocity exceeded the threshold and
\* was seen below it again, and its size tells when.
THEOREM Duration == Spec => []DurationIsOfFirstExcess
  BY Invariance, DurationIsRight, PTL

=============================================================================
