----------------------------- MODULE BreachRecord ----------------------------
(***************************************************************************)
(* ras-breach-extract: the loop over the flow areas of a results file and   *)
(* their connections, the record made of each, and the blocks the records   *)
(* become (actions/extract/hdf: ras-breach-action.go, ras-breach-extract.go,*)
(* and actions/utils/group.go).  What becomes of the blocks is in           *)
(* ExtractAccumulator.                                                      *)
(*                                                                          *)
(* Numbers are integers, in a unit small enough for the differences that    *)
(* decide, and NaN.  Steps and columns are counted from 1 in sequences, and *)
(* from 0, as in the code, in what a record says.                           *)
(***************************************************************************)
EXTENDS Integers, Sequences, SequencesExt, FiniteSetsExt

CONSTANTS
  Files,     \* what a results file may hold
  NaN,       \* not a number, which RAS writes for what did not happen
  Absent,    \* an attribute that is missing or cannot be read
  Null,      \* null of JSON
  Threshold  \* BreachFlowVelocityThreshold

VARIABLES
  file,     \* the results file: does it have flow areas, its time steps (<<>>
            \* when they cannot be read), and the areas
  area,     \* the flow area that is read
  next,     \* its connection to read
  records,  \* breachRecords
  blocks,   \* what the action appends to its block of writerAccumulator
  status    \* "running", "done", "failed", or "panic"

vars == <<file, area, next, records, blocks, status>>

Values == Int \cup {NaN}

Greater(a, b) == a # NaN /\ b # NaN /\ a > b

ASSUME ValuesAssumption ==
  /\ Threshold \in Int
  /\ NaN # Null
  /\ \A v \in {NaN, Null} : v \notin Int /\ v \notin BOOLEAN /\ v \notin STRING

IsSequence(s) == Len(s) \in Nat /\ DOMAIN s = 1 .. Len(s)

-----------------------------------------------------------------------------
Names == {"Stage HW", "Stage TW", "Bottom-Width", "Breach Flow", "Breach Velocity"}

\* The last column with the name, the first column when there is none: a map
\* without the key answers 0.
ColumnIndex(c, name) ==
  LET i == SelectLastInSeq(c.fields, LAMBDA n : n = name)
  IN  IF i = 0 THEN 1 ELSE i

\* readBreachData keeps the error of the last column only: another one that
\* cannot be read is a column of zeros.
BreachingVariables(c) ==
  [i \in DOMAIN c.data |->
     IF i \in c.broken THEN [s \in DOMAIN c.data[i] |-> 0] ELSE c.data[i]]

ColumnOf(c, name) == BreachingVariables(c)[ColumnIndex(c, name)]

\* BreachData: the dataset and its Variable_Unit are there, and the last column.
\* A member of the area that is no group gets the name "", which has no dataset.
HasBreachData(c) == c.name # "" /\ c.readable /\ Len(c.data) \notin c.broken

\* What RAS writes of a connection that breaches: its variables, each named once, with
\* a value a step, the stages among them, which are numbers.
IsBreach(c, steps) ==
  /\ c.at \in Values \cup {Absent}
  /\ IsSequence(c.fields)
  /\ DOMAIN c.data = DOMAIN c.fields
  /\ \A i, j \in DOMAIN c.fields : c.fields[i] = c.fields[j] => i = j
  /\ \A i \in DOMAIN c.data : c.data[i] \in [1 .. steps -> Values]
  /\ \E i \in DOMAIN c.fields :
       c.fields[i] = "Stage HW" /\ c.data[i] \in [1 .. steps -> Int]

\* Time runs from a first to a last step, and the members of a group of HDF5 have
\* names of their own ("" is given to all that are no groups).
ASSUME FilesAssumption ==
  \A f \in Files :
    /\ f.times \in Seq(Int) /\ Len(f.times) # 1
    /\ \A s, t \in DOMAIN f.times : s < t => f.times[s] < f.times[t]
    /\ IsSequence(f.areas)
    /\ \A a, b \in DOMAIN f.areas : f.areas[a].name = f.areas[b].name => a = b
    /\ \A a \in DOMAIN f.areas :
         LET Of(i) == f.areas[a].connections[i]
         IN  /\ f.areas[a].name \in STRING
             /\ IsSequence(f.areas[a].connections)
             /\ \A i, j \in DOMAIN f.areas[a].connections :
                  Of(i).name = Of(j).name => i = j \/ Of(i).name = ""
             /\ \A i \in DOMAIN f.areas[a].connections :
                  HasBreachData(Of(i)) /\ f.times # <<>> => IsBreach(Of(i), Len(f.times))

\* An attribute that cannot be read leaves the time at 0.
BreachAtTime(c) == IF c.at = Absent THEN 0 ELSE c.at

\* mutant: a NaN that is met first stays
MaxOf_NaNStays(t) ==
  LET upTo[i \in 0 .. Len(t)] ==
        IF i = 0 THEN t[1]
        ELSE IF Greater(t[i], upTo[i - 1]) THEN t[i]
        ELSE upTo[i - 1]
  IN  upTo[Len(t)]

\* The greatest number of t, NaN when there is none.
MaxOf(t) ==
  LET upTo[i \in 0 .. Len(t)] ==
        IF i = 0 THEN t[1]
        ELSE IF upTo[i - 1] = NaN \/ Greater(t[i], upTo[i - 1]) THEN t[i]
        ELSE upTo[i - 1]
  IN  upTo[Len(t)]

\* mutant: the step after the breach
BreachAtTimeIndex_After(at) ==
  LET around == {i \in 2 .. Len(file.times) :
                   ~Greater(file.times[i - 1], at) /\ ~Greater(at, file.times[i])}
  IN  IF at = NaN \/ around = {} THEN -1 ELSE Min(around) - 1

\* breachAtTimeIndex: the step that opens the first interval the time is in.
BreachAtTimeIndex(at) ==
  LET around == {i \in 2 .. Len(file.times) :
                   ~Greater(file.times[i - 1], at) /\ ~Greater(at, file.times[i])}
  IN  IF at = NaN \/ around = {} THEN -1 ELSE Min(around) - 2

FirstOf(steps) == IF steps = {} THEN 1 ELSE Min(steps)

\* mutant: the breach ends where the velocity reaches the threshold
ThresholdDuration_Reached(v) ==
  LET start == FirstOf({i \in 2 .. Len(v) : Greater(v[i], Threshold)})
      end   == FirstOf({i \in (start + 1) .. Len(v) :
                          start > 1 /\ v[i] # NaN /\ ~Greater(v[i], Threshold)})
  IN  file.times[end] - file.times[start]

\* getThresholdDuration.  Index 0 stands for "not yet" and is no start; no end
\* leaves it where it was, at the first step.
ThresholdDuration(v) ==
  LET start == FirstOf({i \in 2 .. Len(v) : Greater(v[i], Threshold)})
      end   == FirstOf({i \in (start + 1) .. Len(v) :
                          start > 1 /\ Greater(Threshold, v[i])})
  IN  file.times[end] - file.times[start]

GetBreachRecord(flowArea, c) ==
  LET at == BreachAtTime(c)
      k  == BreachAtTimeIndex(at)
      At(name) == IF k = -1 THEN NaN ELSE ColumnOf(c, name)[k + 1]
  IN  [FlowArea2D |-> flowArea,
       SaConn |-> c.name,
       Breached |-> at # NaN,
       BreachStartTime |-> at,
       BreachIndex |-> k,
       MaxHW |-> MaxOf(ColumnOf(c, "Stage HW")),
       MaxTW |-> MaxOf(ColumnOf(c, "Stage TW")),
       HWAtBreach |-> At("Stage HW"),
       TWAtBreach |-> At("Stage TW"),
       MaxBottomWidth |-> MaxOf(ColumnOf(c, "Bottom-Width")),
       MaxFlow |-> MaxOf(ColumnOf(c, "Breach Flow")),
       BreachProgressionDuration |-> ThresholdDuration(ColumnOf(c, "Breach Velocity"))]

\* mutant: a NaN goes into the document as it is
OutputBlock_Raw(r) == [key |-> r.SaConn, Dataset |-> r.SaConn, Record |-> r]

\* JSON has no NaN.  The dataset is named by the connection alone, in the place of
\* a path where the flow area stands (breachPathTemplate).
OutputBlock(r) ==
  [key |-> r.SaConn, Dataset |-> r.SaConn,
   Record |-> [f \in DOMAIN r |-> IF r[f] = NaN THEN Null ELSE r[f]]]

-----------------------------------------------------------------------------
Init ==
  /\ file \in Files
  /\ area = 1
  /\ next = 1
  /\ records = <<>>
  /\ blocks = <<>>
  /\ status = "running"

\* The file, or its group of flow areas, cannot be opened.
NoFlowAreas ==
  /\ status = "running"
  /\ ~file.opens
  /\ status' = "failed"
  /\ UNCHANGED <<file, area, next, records, blocks>>

Reads ==
  /\ status = "running"
  /\ file.opens
  /\ area <= Len(file.areas)

ReadsConnection ==
  /\ Reads
  /\ file.areas[area].opens
  /\ next <= Len(file.areas[area].connections)

Connection == file.areas[area].connections[next]

\* mutant: an area without connections ends the loop
NextArea_Ends ==
  /\ Reads
  /\ ~ReadsConnection
  /\ IF file.areas[area].opens
     THEN area' = area + 1
     ELSE area' = Len(file.areas) + 1
  /\ next' = 1
  /\ UNCHANGED <<file, records, blocks, status>>

\* The area has no group of connections, or all of them were read.
NextArea ==
  /\ Reads
  /\ ~ReadsConnection
  /\ area' = area + 1
  /\ next' = 1
  /\ UNCHANGED <<file, records, blocks, status>>

\* mutant: the loop ends at a connection that has no breach data
Skip_Ends ==
  /\ ReadsConnection
  /\ ~HasBreachData(Connection)
  /\ status' = "done"
  /\ UNCHANGED <<file, area, next, records, blocks>>

Skip ==
  /\ ReadsConnection
  /\ ~HasBreachData(Connection)
  /\ next' = next + 1
  /\ UNCHANGED <<file, area, records, blocks, status>>

Record ==
  /\ ReadsConnection
  /\ HasBreachData(Connection)
  /\ file.times # <<>>
  /\ records' = Append(records, GetBreachRecord(file.areas[area].name, Connection))
  /\ next' = next + 1
  /\ UNCHANGED <<file, area, blocks, status>>

\* The time steps could not be read, which BreachData only logs.
NoTimeSteps ==
  /\ ReadsConnection
  /\ HasBreachData(Connection)
  /\ file.times = <<>>
  /\ status' = "panic"
  /\ UNCHANGED <<file, area, next, records, blocks>>

\* JsonBreachDataExtractWriter.Write.
Finish ==
  /\ status = "running"
  /\ file.opens
  /\ area > Len(file.areas)
  /\ blocks' = [i \in DOMAIN records |-> OutputBlock(records[i])]
  /\ status' = "done"
  /\ UNCHANGED <<file, area, next, records>>

Next == NoFlowAreas \/ NextArea \/ Skip \/ Record \/ NoTimeSteps \/ Finish

Spec == Init /\ [][Next]_vars

-----------------------------------------------------------------------------
(* Properties. *)

\* The places of the connections, those with breach data, and their order in the file.
Places ==
  UNION {{a} \X DOMAIN file.areas[a].connections : a \in DOMAIN file.areas}

ConnectionAt(p) == file.areas[p[1]].connections[p[2]]

Breaching ==
  {p \in Places : file.areas[p[1]].opens /\ HasBreachData(ConnectionAt(p))}

Before(p, q) == p[1] < q[1] \/ (p[1] = q[1] /\ p[2] < q[2])

Position(p) == Cardinality({q \in Breaching : Before(q, p)}) + 1

Recorded == {p \in Breaching : Position(p) <= Len(records)}

\* A record is made of every connection that has breach data, in the order of the
\* file, whatever the areas and connections around it: only time steps that
\* cannot be read leave a record out.
EveryBreachIsRecorded ==
  /\ status = "done" => Len(records) = Cardinality(Breaching)
  /\ status = "panic" => file.times = <<>> /\ Breaching # {}
  /\ \A p \in Recorded :
       LET r == records[Position(p)]
       IN  r.FlowArea2D = file.areas[p[1]].name /\ r.SaConn = ConnectionAt(p).name

\* The document can be written, and tells the truth to a reader who has nothing
\* else: no NaN is left in it, two connections of one name in two areas, whose
\* blocks have one key and one dataset, differ in FlowArea2D, and a connection
\* that is not reported as breached has no time, index or stage of a breach.
DocumentTellsConnectionsApart ==
  \A i \in DOMAIN blocks :
    LET r == blocks[i].Record
    IN  /\ NaN \notin {r[f] : f \in DOMAIN r}
        /\ r.Breached <=> r.BreachStartTime # Null
        /\ ~r.Breached => r.BreachIndex = -1
        /\ r.BreachIndex = -1 <=> r.HWAtBreach = Null
        /\ \A j \in DOMAIN blocks :
             /\ blocks[i].key = blocks[j].key
             /\ r.FlowArea2D = blocks[j].Record.FlowArea2D
             => i = j

\* The stages at the breach are those of the last step before it (of the first,
\* for a breach in the first), from before the breach changed them, and missing
\* just when no step is before it or none after (breachAtTimeIndex).
StagesAreBeforeTheBreach ==
  \A p \in Recorded :
    LET at == BreachAtTime(ConnectionAt(p))
        k == records[Position(p)].BreachIndex
        before == {s \in DOMAIN file.times : Greater(at, file.times[s])}
        after  == {s \in DOMAIN file.times : at # NaN /\ ~Greater(at, file.times[s])}
    IN  /\ k # -1 <=> (after # {} /\ (before # {} \/ file.times[1] = at))
        /\ k # -1 /\ before # {} => k + 1 = Max(before)
        /\ k # -1 /\ before = {} => k = 0

\* What a record says of a variable comes from the column with its name, wherever
\* RAS put it, and a NaN, the value of a step without a breach, hides no number
\* (ColumnIndexMap and Max).  Zeros stand in for just the columns that could not be
\* read.
MaximaAreOfTheirVariable ==
  \A p \in Recorded :
    LET c == ConnectionAt(p)
        r == records[Position(p)]
        IsMaximum(m, name) ==
          \A col \in DOMAIN c.fields : c.fields[col] = name =>
            IF col \in c.broken THEN m = 0
            ELSE /\ m \in ToSet(c.data[col])
                 /\ \A v \in ToSet(c.data[col]) : v # NaN => m # NaN /\ v <= m
    IN  /\ IsMaximum(r.MaxHW, "Stage HW")
        /\ IsMaximum(r.MaxTW, "Stage TW")
        /\ IsMaximum(r.MaxFlow, "Breach Flow")
        /\ IsMaximum(r.MaxBottomWidth, "Bottom-Width")

\* The sign of the duration tells what the velocity did after the first step: it
\* never exceeded the threshold (0); it did, and until the end of the simulation
\* was not seen below it again (negative, the time until it first exceeded it); or
\* (positive) the time from the first step above to the first step below after it.
DurationIsOfFirstExcess ==
  \A p \in Recorded :
    LET v == ColumnOf(ConnectionAt(p), "Breach Velocity")
        d == records[Position(p)].BreachProgressionDuration
        StepAt(t) == CHOOSE s \in DOMAIN file.times : file.times[s] = t
        rises == {s \in 2 .. Len(v) : Greater(v[s], Threshold)}
        seenBelow == \E r \in rises, s \in 2 .. Len(v) : s > r /\ Greater(Threshold, v[s])
    IN  /\ d = 0 <=> rises = {}
        /\ d > 0 <=> seenBelow
        /\ d < 0 => Min(rises) = StepAt(file.times[1] - d)
        /\ d > 0 => LET end == StepAt(file.times[Min(rises)] + d)
                    IN  /\ Greater(Threshold, v[end])
                        /\ \A s \in Min(rises) .. end - 1 : ~Greater(Threshold, v[s])

-----------------------------------------------------------------------------
(* The inductive invariant: the records are those of the connections before the one
   that is read next, each in its place, whatever the records say.  *)

Here == <<area, next>>

Done == {p \in Breaching : Before(p, Here)}

RecordOf(p) == GetBreachRecord(file.areas[p[1]].name, ConnectionAt(p))

RecordsAreOfTheDone ==
  /\ Len(records) = Cardinality(Done)
  /\ \A p \in Done : records[Position(p)] = RecordOf(p)
  /\ \A i \in DOMAIN records : \E p \in Done : Position(p) = i

BlocksAreOfTheRecords ==
  IF status = "running" THEN blocks = <<>>
  ELSE blocks # <<>> => blocks = [i \in DOMAIN records |-> OutputBlock(records[i])]

StatusSaysWhy ==
  /\ status = "done" => area > Len(file.areas)
  /\ status = "panic" => file.times = <<>> /\ Breaching # {}
  /\ records # <<>> => file.times # <<>>

IInv ==
  /\ file \in Files
  /\ area \in Nat \ {0}
  /\ next \in Nat \ {0}
  /\ IsSequence(records)
  /\ RecordsAreOfTheDone
  /\ BlocksAreOfTheRecords
  /\ StatusSaysWhy

=============================================================================
