----------------------------- MODULE BoundaryLink ----------------------------
(***************************************************************************)
(* The link actions that write boundary conditions into a model's HDF file: *)
(* column-to-boundary-condition, which looks every time of the condition up *)
(* in the results of another model, refline-to-boundary-condition, which    *)
(* goes row by row, and the copy of whole datasets (actions/link:           *)
(* column-to-bc.go, its older form update-boundary-condition-delete-me.go,  *)
(* refline-to-bc.go, hdf-to-hdf.go).                                        *)
(*                                                                          *)
(* Times are whole minutes; in the files they are days, a float64 in the    *)
(* results and a float32 in the condition.  A value is named by the place   *)
(* it was read from.                                                        *)
(***************************************************************************)
EXTENDS Integers, Sequences, SequencesExt

CONSTANTS
  Scenes,      \* what can be found at the start: records of sources, tables, dest
  MaxActions   \* bound: the link actions of one manifest

ASSUME MaxActionsAssumption == MaxActions \in Nat

\* Results have increasing times and a column at least; the rows of a table say so.
ASSUME ScenesAssumption ==
  \A scene \in Scenes :
    /\ \A s \in DOMAIN scene.sources :
         LET source == scene.sources[s]
         IN  /\ source.times \in Seq(Int)
             /\ \A i, j \in DOMAIN source.times : i < j => source.times[i] < source.times[j]
             /\ source.names \in Seq(STRING) \ {<<>>}
    /\ \A t \in DOMAIN scene.tables :
         scene.tables[t] \in Seq([time: Int, value: [from: {t}, row: Nat, col: Nat]])
    /\ \A d \in DOMAIN scene.dest :
         scene.dest[d] \in Seq([time: Int, value: {[from |-> "", row |-> 0, col |-> 0]}])

VARIABLES
  sources,   \* results of other models: their times and their named columns
  tables,    \* datasets of another file, as rows
  dest,      \* the boundary conditions of this model, as rows of time and value
  copying,   \* what hdf-to-hdf has left to copy: pairs of a table and a dataset
  status,    \* "ok" or "error": a failed action ends the manifest
  ran,       \* actions run
  writer     \* ghost: for every dataset the action that wrote it last

files == <<sources, tables>>
vars == <<sources, tables, dest, copying, status, ran, writer>>

-----------------------------------------------------------------------------
(* Time.  A float32 between 2^e and 2^(e+1) days is a multiple of            *)
(* 2^(e-23) days.                                                           *)

MinutesPerDay == 1440

\* The float32s to a day at minute m, of the first days 2^24.
FloatsPerDay(m) ==
  LET days == m \div MinutesPerDay
  IN  IF days = 0 THEN 2^24
      ELSE 2^(23 - CHOOSE e \in 0 .. 12 : 2^e <= days /\ days < 2^(e + 1))

\* mutant: the time is cut, not rounded, to a float32
RoundingOf_Cut(m) == ((m % MinutesPerDay) * (FloatsPerDay(m) % MinutesPerDay)) % MinutesPerDay

\* How far minute m is from the nearest float32, in parts of the distance between
\* two of them, of which MinutesPerDay make one.
RoundingOf(m) ==
  LET over == ((m % MinutesPerDay) * (FloatsPerDay(m) % MinutesPerDay)) % MinutesPerDay
  IN  IF 2 * over <= MinutesPerDay THEN over ELSE MinutesPerDay - over

\* The difference is below Tolerance, 0.000001 day: RoundingOf(m) / (1440 *
\* FloatsPerDay(m)) < 1 / 1000000.
WithinTolerance(m) == 6250 * RoundingOf(m) < 9 * FloatsPerDay(m)

\* mutant: the minutes next to it are near too
Near_Wide(t, u) == u - t \in -1 .. 1

\* The time of a condition, read as a float32, and a time of the results are
\* closer than Tolerance.  Different minutes never are.
Near(t, u) == t = u /\ WithinTolerance(t)

-----------------------------------------------------------------------------
Value(s, row, col) == [from |-> s, row |-> row, col |-> col]
Old == Value("", 0, 0)

Columns(s) == DOMAIN sources[s].names
TimesOf(rows) == [i \in DOMAIN rows |-> rows[i].time]

\* The row of source s whose time is near t, 0 when there is none.
MatchingRow(s, t) == SelectInSeq(sources[s].times, LAMBDA u : Near(t, u))

\* getRowVal2: before the start the first row's first column is used, and later
\* the given column, 1 the first, of the matching row.
RowVal(s, t, col) ==
  IF t <= 0 THEN Value(s, 1, 1) ELSE Value(s, MatchingRow(s, t), col)

\* getRowVal2 returns a value: no row is missing and no column out of range.
RowIsFound(s, t, col) ==
  IF t <= 0 THEN sources[s].times # <<>>
  ELSE MatchingRow(s, t) # 0 /\ col \in Columns(s)

ColumnIsFound(s, d, col) == \A i \in DOMAIN dest[d] : RowIsFound(s, dest[d][i].time, col)

\* mutant: the position is counted from 0
ReflineColumn_FromZero(s, name) ==
  SelectLastInSeq(sources[s].names, LAMBDA n : n = name) - 1

\* The last column with the name, 0 when there is none.
ReflineColumn(s, name) == SelectLastInSeq(sources[s].names, LAMBDA n : n = name)

-----------------------------------------------------------------------------
Names == UNION {Range(sources[s].names) : s \in DOMAIN sources}

\* Column indices an action may be given: those of no column among them.
Indices == 0 .. 3

\* Type invariant.
TypeOK ==
  /\ \A d \in DOMAIN dest : \A i \in DOMAIN dest[d] :
       /\ dest[d][i].time \in Int
       /\ \/ dest[d][i].value = Old
          \/ /\ dest[d][i].value.from \in DOMAIN sources
             /\ dest[d][i].value.row \in DOMAIN sources[dest[d][i].value.from].times
             /\ dest[d][i].value.col \in Columns(dest[d][i].value.from)
          \/ dest[d][i].value.from \in DOMAIN tables
  /\ copying \subseteq (DOMAIN tables) \X (DOMAIN dest)
  /\ status \in {"ok", "error"}
  /\ ran \in 0 .. MaxActions

NoWriter(rows) == [kind |-> "none", from |-> "", col |-> 0, times |-> TimesOf(rows)]

Init ==
  /\ \E scene \in Scenes :
       /\ sources = scene.sources
       /\ tables = scene.tables
       /\ dest = scene.dest
       /\ writer = [d \in DOMAIN scene.dest |-> NoWriter(scene.dest[d])]
  /\ copying = {}
  /\ status = "ok"
  /\ ran = 0

\* The next action of the manifest begins.
Begins ==
  /\ status = "ok"
  /\ copying = {}
  /\ ran < MaxActions
  /\ ran' = ran + 1

Fails == status' = "error" /\ UNCHANGED <<files, dest, writer>>

\* A file, an attribute or a dataset is missing, or the dataset cannot be written.
NotPossible ==
  /\ Begins
  /\ Fails
  /\ UNCHANGED copying

Wrote(d, kind, from, col) ==
  writer' = [writer EXCEPT ![d] = [kind |-> kind, from |-> from, col |-> col, times |-> @.times]]

\* The condition of d is written at once, from a buffer: times stay.
WritesValues(d, valueAt(_)) ==
  dest' = [dest EXCEPT ![d] =
             [i \in DOMAIN @ |-> [time |-> @[i].time, value |-> valueAt(i)]]]

ColumnToBc(s, d, col) ==
  /\ Begins
  /\ ColumnIsFound(s, d, col)
  /\ WritesValues(d, LAMBDA i : RowVal(s, dest[d][i].time, col))
  /\ Wrote(d, "column", s, col)
  /\ UNCHANGED <<files, copying, status>>

\* mutant: rows are written as they are found
ColumnNotFound_Partly(s, d, col) ==
  /\ Begins
  /\ ~ColumnIsFound(s, d, col)
  /\ status' = "error"
  /\ dest' = [dest EXCEPT ![d] =
                [i \in DOMAIN @ |->
                   IF \A j \in 1 .. i : RowIsFound(s, @[j].time, col)
                   THEN [@[i] EXCEPT !.value = RowVal(s, dest[d][i].time, col)]
                   ELSE @[i]]]
  /\ UNCHANGED <<files, copying, writer>>

\* A time has no match, or the column is out of range, which panics.
ColumnNotFound(s, d, col) ==
  /\ Begins
  /\ ~ColumnIsFound(s, d, col)
  /\ Fails
  /\ UNCHANGED copying

\* getRowVal of update-boundary-condition: the first column of the matching row.
FirstRowVal(s, t) == Value(s, IF t <= 0 THEN 1 ELSE MatchingRow(s, t), 1)

FirstIsFound(s, d) ==
  \A i \in DOMAIN dest[d] :
    LET t == dest[d][i].time
    IN  IF t <= 0 THEN sources[s].times # <<>> ELSE MatchingRow(s, t) # 0

\* update-boundary-condition, which is column-to-boundary-condition with no column
\* given; its ghost says column 1.
UpdateBoundaryCondition(s, d) ==
  /\ Begins
  /\ FirstIsFound(s, d)
  /\ WritesValues(d, LAMBDA i : FirstRowVal(s, dest[d][i].time))
  /\ Wrote(d, "column", s, 1)
  /\ UNCHANGED <<files, copying, status>>

FirstNotFound(s, d) ==
  /\ Begins
  /\ ~FirstIsFound(s, d)
  /\ Fails
  /\ UNCHANGED copying

ReflineToBc(s, d, name) ==
  LET col == ReflineColumn(s, name)
  IN  /\ Begins
      /\ name \in Range(sources[s].names)
      /\ Len(dest[d]) <= Len(sources[s].times)
      /\ WritesValues(d, LAMBDA i : Value(s, i, col))
      /\ Wrote(d, "refline", s, col)
      /\ UNCHANGED <<files, copying, status>>

\* No line has the name, or the results end before the condition does.
ReflineNotFound(s, d, name) ==
  /\ Begins
  /\ name \in Range(sources[s].names) => Len(dest[d]) > Len(sources[s].times)
  /\ Fails
  /\ UNCHANGED copying

\* hdf-to-hdf is given pairs of a table and the dataset it replaces.
HdfToHdf(pairs) ==
  /\ Begins
  /\ copying' = pairs
  /\ UNCHANGED <<files, dest, status, writer>>

\* CopyHdf5Dataset: the next pair, in no particular order, replaces all rows.
CopyDataset(table, d) ==
  /\ <<table, d>> \in copying
  /\ Len(tables[table]) = Len(dest[d])
  /\ dest' = [dest EXCEPT ![d] = tables[table]]
  /\ copying' = copying \ {<<table, d>>}
  /\ writer' = [writer EXCEPT ![d] = [kind |-> "copy", from |-> table, col |-> 0,
                                      times |-> TimesOf(tables[table])]]
  /\ UNCHANGED <<files, status, ran>>

\* The shapes differ, or a file does not open: the pairs left are not copied.
CopyFails(table, d) ==
  /\ <<table, d>> \in copying
  /\ copying' = {}
  /\ Fails
  /\ UNCHANGED ran

Next ==
  \/ NotPossible
  \/ \E s \in DOMAIN sources, d \in DOMAIN dest :
       \/ \E col \in Indices : ColumnToBc(s, d, col) \/ ColumnNotFound(s, d, col)
       \/ UpdateBoundaryCondition(s, d) \/ FirstNotFound(s, d)
       \/ \E name \in Names : ReflineToBc(s, d, name) \/ ReflineNotFound(s, d, name)
  \/ \E f \in [DOMAIN tables -> DOMAIN dest] :
       HdfToHdf({<<t, f[t]>> : t \in DOMAIN tables})
  \/ \E table \in DOMAIN tables, d \in DOMAIN dest :
       CopyDataset(table, d) \/ CopyFails(table, d)

Spec == Init /\ [][Next]_vars

-----------------------------------------------------------------------------
(* Properties the code has. *)

\* Row i of dataset d comes from the row of the source that the action which wrote d
\* last pairs with it: column-to-boundary-condition the row of the same time,
\* refline-to-boundary-condition row i, whatever the times there are.
AsWritten(d, i) ==
  LET w == writer[d]
      row == dest[d][i]
  IN  CASE w.kind = "none" -> row.value = Old
        [] w.kind = "copy" -> row = tables[w.from][i]
        [] w.kind = "refline" -> row.value = Value(w.from, i, w.col)
        [] w.kind = "column" ->
             /\ row.value.from = w.from
             /\ row.time > 0 =>
                  /\ row.value.col = w.col
                  /\ sources[w.from].times[row.value.row] = row.time
             /\ row.time <= 0 => row.value.row = 1

\* After any mix of actions, failed ones and interrupted copies included, every
\* dataset is whole: all its rows come from the one action that wrote it last, by
\* its pairing of rows, and keep their times (the buffers of MigrateColumnData,
\* which pairs by time, and of MigrateRefLineData, which pairs by position).
DatasetsAreWhole ==
  \A d \in DOMAIN dest :
    /\ TimesOf(dest[d]) = writer[d].times
    /\ \A i \in DOMAIN dest[d] : AsWritten(d, i)

\* Where a condition has the times of the results, looking a time up and going row
\* by row find the same value, after the start: the assumption of
\* refline-to-bc.md is all that separates the two actions.
LookupAgreesWithRows ==
  \A s \in DOMAIN sources, d \in DOMAIN dest, col \in Indices :
    (TimesOf(dest[d]) = sources[s].times /\ ColumnIsFound(s, d, col)) =>
      \A i \in DOMAIN dest[d] :
        dest[d][i].time > 0 => RowVal(s, dest[d][i].time, col) = Value(s, i, col)

Days(n) == n * MinutesPerDay

\* Tolerance is wide enough for the rounding of every time in the first 32 days: a
\* condition whose times the results have is always found (getRowVal2 compares a
\* float32 with a float64).
FirstDaysAreFound ==
  \A s \in DOMAIN sources, d \in DOMAIN dest :
    (/\ sources[s].times # <<>>
     /\ \A i \in DOMAIN dest[d] :
          /\ dest[d][i].time < Days(32)
          /\ dest[d][i].time > 0 => dest[d][i].time \in Range(sources[s].times))
    => ColumnIsFound(s, d, 1)

-----------------------------------------------------------------------------
(* The inductive invariant the properties follow from. *)

\* The files the conditions are made from are those of the scene.
FilesAreKept ==
  \E scene \in Scenes : sources = scene.sources /\ tables = scene.tables

RowsAreNumbered == \A d \in DOMAIN dest : dest[d] \in Seq(Range(dest[d]))

\* The last writer of a dataset took its values from a file there is.
WriterIsKnown ==
  /\ DOMAIN writer = DOMAIN dest
  /\ \A d \in DOMAIN dest :
       /\ writer[d].kind \in {"none", "copy", "column", "refline"}
       /\ writer[d].kind = "copy" => writer[d].from \in DOMAIN tables
       /\ writer[d].kind \in {"column", "refline"} => writer[d].from \in DOMAIN sources

IInv ==
  /\ TypeOK
  /\ FilesAreKept
  /\ RowsAreNumbered
  /\ WriterIsKnown
  /\ DatasetsAreWhole

-----------------------------------------------------------------------------
(* What the documents and comments say and the code does not do. *)

\* column-to-bc.md:19: the action "Extracts specified column data from source for
\* each time step".
SpecifiedColumnIsUsed ==
  \A d \in DOMAIN dest : writer[d].kind = "column" =>
    \A i \in DOMAIN dest[d] : dest[d][i].value.col = writer[d].col

\* actions-root.go:21-22: Tolerance "is used to compare RAS time values"; equal
\* times are equal within it.
EqualTimesAreFound ==
  \A s \in DOMAIN sources, d \in DOMAIN dest :
    (sources[s].times # <<>> /\ TimesOf(dest[d]) = sources[s].times) => ColumnIsFound(s, d, 1)

=============================================================================
