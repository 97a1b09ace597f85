----------------------------- MODULE LinkProofs -----------------------------
(***************************************************************************)
(* Proofs about the two components of the package actions/link.             *)
(*                                                                          *)
(* BoundaryLink, for all results, tables and conditions there may be and    *)
(* any number of link actions: every dataset stays whole, and looking times *)
(* up agrees with going row by row; and, of the first 32 days, that no time *)
(* is missed because one file holds it in fewer bits.                       *)
(*                                                                          *)
(* BFileEdits, for every b-file that RAS lays out and any number of edits:  *)
(* what the reader makes of the file and the writer of the blocks, and from *)
(* that that the file says what was asked.  The argument goes up in steps:  *)
(*   SplitsBack            rows are cut into blocks where headers are;      *)
(*   BreachIsParsed,       the rows of one structure, and of one outlet,    *)
(*   OutletIsParsed        give back their data;                            *)
(*   ReadIsBlocks          the reader gives BlocksOf(w) on a file of w;     *)
(*   WriteIsRendered       the writer gives the file of Rewritten(w);       *)
(*   ResultsAreApplied,    editing the blocks is editing w;                 *)
(*   UpdatedIs                                                              *)
(*   BlankIsNotClean       the reader panics on an empty line only;         *)
(*   EditsInvariant        so the file is always the file of w.             *)
(***************************************************************************)
EXTENDS BoundaryLink, BFileEdits, SharedLemmas

-----------------------------------------------------------------------------
(* The files. *)

\* A result has increasing times and a column at least.
LEMMA SourceIs ==
  ASSUME FilesAreKept, NEW s \in DOMAIN sources
  PROVE  LET times == sources[s].times
             names == sources[s].names
         IN  /\ times \in Seq(Int) /\ Len(times) \in Nat /\ DOMAIN times = 1 .. Len(times)
             /\ \A i \in 1 .. Len(times) : times[i] \in Int
             /\ \A i, j \in DOMAIN times : i < j => times[i] < times[j]
             /\ Len(names) \in Nat \ {0} /\ Columns(s) = 1 .. Len(names)
  <1>1. PICK scene \in Scenes : sources = scene.sources /\ tables = scene.tables
    BY DEF FilesAreKept
  <1>2. /\ sources[s].times \in Seq(Int)
        /\ \A i, j \in DOMAIN sources[s].times : i < j => sources[s].times[i] < sources[s].times[j]
        /\ sources[s].names \in Seq(STRING) \ {<<>>}
    BY <1>1, ScenesAssumption DEF ScenesAssumption
  <1>3. /\ Len(sources[s].names) \in Nat \ {0}
        /\ DOMAIN sources[s].names = 1 .. Len(sources[s].names)
    BY <1>2
  <1>4. QED
    BY <1>2, <1>3 DEF Columns

\* What is numbered from 1 is a sequence.
LEMMA SequenceOfItsRange ==
  ASSUME NEW n \in Nat, NEW f, f = [i \in 1 .. n |-> f[i]]
  PROVE  f \in Seq(Range(f)) /\ Len(f) = n
  <1>1. f \in [1 .. n -> Range(f)]
    BY DEF Range
  <1>2. QED
    BY <1>1

\* The rows of a table come from it.
LEMMA TableIs ==
  ASSUME FilesAreKept, NEW t \in DOMAIN tables
  PROVE  /\ Len(tables[t]) \in Nat /\ DOMAIN tables[t] = 1 .. Len(tables[t])
         /\ tables[t] \in Seq(Range(tables[t]))
         /\ \A i \in DOMAIN tables[t] : tables[t][i].time \in Int /\ tables[t][i].value.from = t
  <1>1. PICK scene \in Scenes : sources = scene.sources /\ tables = scene.tables
    BY DEF FilesAreKept
  <1> DEFINE R == [time: Int, value: [from: {t}, row: Nat, col: Nat]]
  <1>2. tables[t] \in Seq(R)
    BY <1>1, ScenesAssumption DEF ScenesAssumption
  <1>3. \A r \in R : r.time \in Int /\ r.value.from = t
    OBVIOUS
  <1> HIDE DEF R
  <1>4. /\ Len(tables[t]) \in Nat /\ DOMAIN tables[t] = 1 .. Len(tables[t])
        /\ \A i \in DOMAIN tables[t] : tables[t][i] \in R
    BY <1>2
  <1>5. tables[t] \in Seq(Range(tables[t]))
    BY <1>2, <1>4, SequenceOfItsRange
  <1>6. QED
    BY <1>3, <1>4, <1>5

-----------------------------------------------------------------------------
(* Looking a time up. *)

LEMMA MatchingRowIs ==
  ASSUME FilesAreKept, NEW s \in DOMAIN sources, NEW t
  PROVE  LET k == MatchingRow(s, t)
             times == sources[s].times
         IN  \/ k = 0 /\ \A i \in 1 .. Len(times) : ~Near(t, times[i])
             \/ k \in 1 .. Len(times) /\ Near(t, times[k])
  <1> DEFINE times == sources[s].times
             I == {i \in 1 .. Len(times) : Near(t, times[i])}
  <1>1. Len(times) \in Nat
    BY SourceIs
  <1>2. MatchingRow(s, t) = IF I # {} THEN CHOOSE x \in I : \A y \in I : x <= y ELSE 0
    BY DEF MatchingRow, SelectInSeq, Min
  <1>3. CASE I # {}
    <2>1. I \in SUBSET Nat
      BY <1>1
    <2>2. \E x \in I : \A y \in I : x <= y
      <3> HIDE DEF I
      <3>1. QED
        BY <1>3, <2>1, Least
    <2>3. MatchingRow(s, t) \in I
      BY <1>2, <1>3, <2>2
    <2>4. QED
      BY <2>3
  <1>4. CASE I = {}
    BY <1>2, <1>4
  <1>5. QED
    BY <1>3, <1>4

\* The value found for a time is of a row the source has, and of the row with that
\* time once the simulation has started.
LEMMA RowValIs ==
  ASSUME FilesAreKept, NEW s \in DOMAIN sources, NEW t \in Int, NEW col,
         RowIsFound(s, t, col)
  PROVE  LET v == RowVal(s, t, col)
         IN  /\ v.from = s /\ v.row \in DOMAIN sources[s].times /\ v.col \in Columns(s)
             /\ t > 0 => v.col = col /\ sources[s].times[v.row] = t
             /\ t <= 0 => v.row = 1
  <1>1. CASE t <= 0
    <2>1. sources[s].times # <<>>
      BY <1>1 DEF RowIsFound
    <2>2. 1 \in DOMAIN sources[s].times /\ 1 \in Columns(s)
      BY <2>1, SourceIs
    <2>3. QED
      BY <1>1, <2>2 DEF RowVal, Value
  <1>2. CASE t > 0
    <2>1. MatchingRow(s, t) # 0 /\ col \in Columns(s) /\ ~(t <= 0)
      BY <1>2 DEF RowIsFound
    <2>2. /\ MatchingRow(s, t) \in DOMAIN sources[s].times
          /\ sources[s].times[MatchingRow(s, t)] = t
      BY <2>1, MatchingRowIs, SourceIs DEF Near
    <2>3. QED
      BY <2>1, <2>2 DEF RowVal, Value
  <1>3. QED
    BY <1>1, <1>2

\* update-boundary-condition looks up as column-to-boundary-condition does with no
\* column given.
LEMMA FirstRowValIs ==
  ASSUME FilesAreKept, NEW s \in DOMAIN sources, NEW t \in Int,
         IF t <= 0 THEN sources[s].times # <<>> ELSE MatchingRow(s, t) # 0
  PROVE  RowIsFound(s, t, 1) /\ FirstRowVal(s, t) = RowVal(s, t, 1)
  BY SourceIs DEF RowIsFound, FirstRowVal, RowVal

LEMMA ReflineColumnIs ==
  ASSUME FilesAreKept, NEW s \in DOMAIN sources, NEW name \in Range(sources[s].names)
  PROVE  ReflineColumn(s, name) \in Columns(s)
  <1> DEFINE names == sources[s].names
             I == {i \in 1 .. Len(names) : names[i] = name}
  <1>1. Len(names) \in Nat /\ Columns(s) = 1 .. Len(names) /\ DOMAIN names = 1 .. Len(names)
    BY SourceIs DEF Columns
  <1>2. I # {}
    BY <1>1 DEF Range
  <1>3. \E x \in I : \A y \in I : y <= x
    <2>1. I \in SUBSET Nat /\ \A y \in I : y <= Len(names)
      BY <1>1
    <2> HIDE DEF I
    <2>2. QED
      BY <1>1, <1>2, <2>1, Greatest
  <1>4. ReflineColumn(s, name) = CHOOSE x \in I : \A y \in I : x >= y
    BY <1>2 DEF ReflineColumn, SelectLastInSeq, Max
  <1>5. QED
    BY <1>1, <1>3, <1>4

-----------------------------------------------------------------------------
(* The first state. *)

LEMMA InitIInv == Init => IInv
  <1> SUFFICES ASSUME Init PROVE IInv
    OBVIOUS
  <1>1. PICK scene \in Scenes :
          /\ sources = scene.sources /\ tables = scene.tables /\ dest = scene.dest
          /\ writer = [d \in DOMAIN scene.dest |-> NoWriter(scene.dest[d])]
    BY DEF Init
  <1>2. \A d \in DOMAIN dest :
          /\ dest[d] \in Seq(Range(dest[d]))
          /\ \A i \in DOMAIN dest[d] : dest[d][i].time \in Int /\ dest[d][i].value = Old
    <2> SUFFICES ASSUME NEW d \in DOMAIN dest
                 PROVE  /\ dest[d] \in Seq(Range(dest[d]))
                        /\ \A i \in DOMAIN dest[d] :
                             dest[d][i].time \in Int /\ dest[d][i].value = Old
      OBVIOUS
    <2> DEFINE R == [time: Int, value: {[from |-> "", row |-> 0, col |-> 0]}]
    <2>1. dest[d] \in Seq(R)
      BY <1>1, ScenesAssumption DEF ScenesAssumption
    <2>2. \A r \in R : r.time \in Int /\ r.value = Old
      BY DEF Old, Value
    <2> HIDE DEF R
    <2>3. /\ Len(dest[d]) \in Nat /\ DOMAIN dest[d] = 1 .. Len(dest[d])
          /\ dest[d] = [i \in 1 .. Len(dest[d]) |-> dest[d][i]]
          /\ \A i \in DOMAIN dest[d] : dest[d][i] \in R
      BY <2>1
    <2>4. dest[d] \in Seq(Range(dest[d]))
      BY <2>3, SequenceOfItsRange
    <2>5. QED
      BY <2>2, <2>3, <2>4
  <1>3. FilesAreKept /\ RowsAreNumbered
    BY <1>1, <1>2 DEF FilesAreKept, RowsAreNumbered
  <1>4. TypeOK
    BY <1>2, MaxActionsAssumption DEF Init, TypeOK, MaxActionsAssumption
  <1>5. /\ DOMAIN writer = DOMAIN dest
        /\ \A d \in DOMAIN dest : /\ writer[d].kind = "none"
                                  /\ writer[d].times = TimesOf(dest[d])
    BY <1>1 DEF NoWriter
  <1>6. WriterIsKnown
    BY <1>5 DEF WriterIsKnown
  <1>7. DatasetsAreWhole
    BY <1>2, <1>5 DEF DatasetsAreWhole, AsWritten
  <1>8. QED
    BY <1>3, <1>4, <1>6, <1>7 DEF IInv

-----------------------------------------------------------------------------
(* The steps. *)

\* The value v is what a link action of this kind writes at time t into row i.
IsOf(v, kind, from, col, i, t) ==
  /\ v.from = from /\ v.row \in DOMAIN sources[from].times /\ v.col \in Columns(from)
  /\ kind = "refline" => v = Value(from, i, col)
  /\ kind = "column" =>
       /\ t > 0 => v.col = col /\ sources[from].times[v.row] = t
       /\ t <= 0 => v.row = 1

\* A dataset that no step touches, whose writer stays, is still as it was written.
LEMMA RowIsKept ==
  ASSUME NEW e, NEW i, UNCHANGED <<sources, tables>>,
         dest'[e] = dest[e], writer'[e] = writer[e], AsWritten(e, i)
  PROVE  AsWritten(e, i)'
  <1> DEFINE w == writer[e]
             row == dest[e][i]
  <1>1. writer'[e] = w /\ dest'[e][i] = row
    OBVIOUS
  <1> QED
    BY <1>1 DEF AsWritten

\* What TypeOK says of one row.
RowIsTyped(d, i) ==
  /\ dest[d][i].time \in Int
  /\ \/ dest[d][i].value = Old
     \/ /\ dest[d][i].value.from \in DOMAIN sources
        /\ dest[d][i].value.row \in DOMAIN sources[dest[d][i].value.from].times
        /\ dest[d][i].value.col \in Columns(dest[d][i].value.from)
     \/ dest[d][i].value.from \in DOMAIN tables

\* A link action that writes the right values leaves all datasets whole.
LEMMA WholeAfter ==
  ASSUME IInv, NEW d \in DOMAIN dest, NEW s \in DOMAIN sources, NEW col, NEW v,
         NEW kind \in {"column", "refline"}, Begins,
         dest' = [dest EXCEPT ![d] = [i \in DOMAIN dest[d] |-> [time |-> dest[d][i].time, value |-> v[i]]]],
         \A i \in DOMAIN dest[d] : IsOf(v[i], kind, s, col, i, dest[d][i].time),
         Wrote(d, kind, s, col), UNCHANGED <<files, copying, status>>
  PROVE  IInv'
  <1> DEFINE new == [i \in DOMAIN dest[d] |-> [time |-> dest[d][i].time, value |-> v[i]]]
  <1>1. /\ DOMAIN dest' = DOMAIN dest /\ dest'[d] = new
        /\ \A e \in DOMAIN dest : e # d => dest'[e] = dest[e]
    OBVIOUS
  <1>2. /\ DOMAIN new = DOMAIN dest[d]
        /\ \A i \in DOMAIN dest[d] : new[i].time = dest[d][i].time /\ new[i].value = v[i]
    OBVIOUS
  <1> HIDE DEF new
  <1>3. UNCHANGED <<sources, tables>>
    BY DEF files
  <1>4. DOMAIN writer = DOMAIN dest
    BY DEF IInv, WriterIsKnown
  <1>5. /\ DOMAIN writer' = DOMAIN writer
        /\ \A e \in DOMAIN writer : e # d => writer'[e] = writer[e]
        /\ writer'[d] = [kind |-> kind, from |-> s, col |-> col, times |-> writer[d].times]
    BY <1>4 DEF Wrote
  <1>6. /\ writer'[d].kind = kind /\ writer'[d].from = s /\ writer'[d].col = col
        /\ writer'[d].times = writer[d].times
    BY <1>5
  <1>7. FilesAreKept'
    BY <1>3 DEF IInv, FilesAreKept
  <1>8. RowsAreNumbered'
    <2>1. dest[d] \in Seq(Range(dest[d]))
      BY DEF IInv, RowsAreNumbered
    <2>2. Len(dest[d]) \in Nat /\ DOMAIN dest[d] = 1 .. Len(dest[d])
      BY <2>1
    <2>3. new = [i \in 1 .. Len(dest[d]) |-> new[i]]
      BY <2>2 DEF new
    <2>4. new \in Seq(Range(new))
      BY <2>2, <2>3, SequenceOfItsRange
    <2>5. QED
      BY <1>1, <2>4 DEF IInv, RowsAreNumbered
  <1>9. TypeOK'
    <2>1. \A i \in DOMAIN dest'[d] :
            /\ dest'[d][i].time \in Int
            /\ dest'[d][i].value.from \in DOMAIN sources
            /\ dest'[d][i].value.row \in DOMAIN sources[dest'[d][i].value.from].times
            /\ dest'[d][i].value.col \in Columns(dest'[d][i].value.from)
      BY <1>1, <1>2 DEF IInv, TypeOK, IsOf
    <2>2. \A e : Columns(e)' = Columns(e)
      BY <1>3 DEF Columns
    <2>3. ran' \in 0 .. MaxActions
      BY MaxActionsAssumption DEF MaxActionsAssumption, Begins, IInv, TypeOK
    <2>4. ASSUME NEW e \in DOMAIN dest', NEW i \in DOMAIN dest'[e]
          PROVE  RowIsTyped(e, i)'
      <3>1. CASE e = d
        BY <1>3, <2>1, <2>2, <3>1 DEF RowIsTyped
      <3>2. CASE e # d
        <4>1. e \in DOMAIN dest /\ dest'[e] = dest[e] /\ i \in DOMAIN dest[e]
          BY <1>1, <3>2
        <4>2. RowIsTyped(e, i)
          BY <4>1 DEF IInv, TypeOK, RowIsTyped
        <4>3. QED
          BY <1>3, <2>2, <4>1, <4>2 DEF RowIsTyped
      <3>3. QED
        BY <3>1, <3>2
    <2>5. copying' \subseteq (DOMAIN tables') \X (DOMAIN dest') /\ status' \in {"ok", "error"}
      BY <1>1, <1>3 DEF IInv, TypeOK
    <2>6. QED
      BY <2>3, <2>4, <2>5 DEF TypeOK, RowIsTyped
  <1>10. WriterIsKnown'
    BY <1>1, <1>3, <1>4, <1>5, <1>6 DEF IInv, WriterIsKnown
  <1>11. DatasetsAreWhole'
    <2>1. ASSUME NEW e \in DOMAIN dest, e # d
          PROVE  /\ TimesOf(dest[e])' = writer'[e].times
                 /\ \A i \in DOMAIN dest'[e] : AsWritten(e, i)'
      <3>1. dest'[e] = dest[e] /\ writer'[e] = writer[e]
        BY <1>1, <1>4, <1>5, <2>1
      <3>2. /\ TimesOf(dest[e]) = writer[e].times
            /\ \A i \in DOMAIN dest[e] : AsWritten(e, i)
        BY DEF IInv, DatasetsAreWhole
      <3>3. ASSUME NEW i \in DOMAIN dest[e] PROVE AsWritten(e, i)'
        <4>1. AsWritten(e, i)
          BY <3>2
        <4>2. QED
          BY <1>3, <3>1, <4>1, RowIsKept
      <3>4. QED
        BY <3>1, <3>2, <3>3 DEF TimesOf
    <2>2. TimesOf(new) = TimesOf(dest[d])
      BY <1>2 DEF TimesOf
    <2>3. TimesOf(dest[d]) = writer[d].times
      BY DEF IInv, DatasetsAreWhole
    <2>4. ASSUME NEW i \in DOMAIN dest'[d]
          PROVE  AsWritten(d, i)'
      <3>1. i \in DOMAIN dest[d] /\ dest'[d][i].time = dest[d][i].time /\ dest'[d][i].value = v[i]
        BY <1>1, <1>2
      <3>2. IsOf(v[i], kind, s, col, i, dest[d][i].time)
        BY <3>1
      <3>3. CASE kind = "refline"
        BY <1>3, <1>6, <3>1, <3>2, <3>3 DEF AsWritten, IsOf
      <3>4. CASE kind = "column"
        BY <1>3, <1>6, <3>1, <3>2, <3>4 DEF AsWritten, IsOf
      <3>5. QED
        BY <3>3, <3>4
    <2>5. QED
      BY <1>1, <1>6, <2>1, <2>2, <2>3, <2>4 DEF DatasetsAreWhole
  <1>12. QED
    BY <1>7, <1>8, <1>9, <1>10, <1>11 DEF IInv

\* The rows of a condition have whole times.
LEMMA RowIs ==
  ASSUME IInv, NEW d \in DOMAIN dest
  PROVE  /\ Len(dest[d]) \in Nat /\ DOMAIN dest[d] = 1 .. Len(dest[d])
         /\ \A i \in DOMAIN dest[d] : dest[d][i].time \in Int
  <1>1. dest[d] \in Seq(Range(dest[d]))
    BY DEF IInv, RowsAreNumbered
  <1>2. QED
    BY <1>1 DEF IInv, TypeOK

LEMMA ColumnStep ==
  ASSUME IInv, NEW s \in DOMAIN sources, NEW d \in DOMAIN dest, NEW col,
         ColumnToBc(s, d, col)
  PROVE  IInv'
  <1> DEFINE v == [i \in DOMAIN dest[d] |-> RowVal(s, dest[d][i].time, col)]
  <1>1. FilesAreKept
    BY DEF IInv
  <1>2. \A i \in DOMAIN dest[d] : v[i] = RowVal(s, dest[d][i].time, col)
    OBVIOUS
  <1>3. dest' = [dest EXCEPT ![d] = [i \in DOMAIN dest[d] |-> [time |-> dest[d][i].time, value |-> v[i]]]]
    BY DEF ColumnToBc, WritesValues
  <1> HIDE DEF v
  <1>4. ASSUME NEW i \in DOMAIN dest[d]
        PROVE  IsOf(v[i], "column", s, col, i, dest[d][i].time)
    <2>1. dest[d][i].time \in Int /\ RowIsFound(s, dest[d][i].time, col)
      BY RowIs DEF ColumnToBc, ColumnIsFound
    <2>2. QED
      BY <1>1, <1>2, <2>1, RowValIs DEF IsOf
  <1>5. QED
    BY <1>3, <1>4, WholeAfter DEF ColumnToBc

LEMMA UpdateStep ==
  ASSUME IInv, NEW s \in DOMAIN sources, NEW d \in DOMAIN dest,
         UpdateBoundaryCondition(s, d)
  PROVE  IInv'
  <1> DEFINE v == [i \in DOMAIN dest[d] |-> FirstRowVal(s, dest[d][i].time)]
  <1>1. FilesAreKept
    BY DEF IInv
  <1>2. \A i \in DOMAIN dest[d] : v[i] = FirstRowVal(s, dest[d][i].time)
    OBVIOUS
  <1>3. dest' = [dest EXCEPT ![d] = [i \in DOMAIN dest[d] |-> [time |-> dest[d][i].time, value |-> v[i]]]]
    BY DEF UpdateBoundaryCondition, WritesValues
  <1> HIDE DEF v
  <1>4. ASSUME NEW i \in DOMAIN dest[d]
        PROVE  IsOf(v[i], "column", s, 1, i, dest[d][i].time)
    <2>1. /\ dest[d][i].time \in Int
          /\ IF dest[d][i].time <= 0 THEN sources[s].times # <<>>
             ELSE MatchingRow(s, dest[d][i].time) # 0
      BY RowIs DEF UpdateBoundaryCondition, FirstIsFound
    <2>2. RowIsFound(s, dest[d][i].time, 1) /\ v[i] = RowVal(s, dest[d][i].time, 1)
      BY <1>1, <1>2, <2>1, FirstRowValIs
    <2>3. QED
      BY <1>1, <2>1, <2>2, RowValIs DEF IsOf
  <1>5. QED
    BY <1>3, <1>4, WholeAfter DEF UpdateBoundaryCondition

LEMMA ReflineStep ==
  ASSUME IInv, NEW s \in DOMAIN sources, NEW d \in DOMAIN dest, NEW name,
         ReflineToBc(s, d, name)
  PROVE  IInv'
  <1> DEFINE col == ReflineColumn(s, name)
             v == [i \in DOMAIN dest[d] |-> Value(s, i, col)]
  <1>1. FilesAreKept
    BY DEF IInv
  <1>2. col \in Columns(s)
    BY <1>1, ReflineColumnIs DEF ReflineToBc
  <1>3. \A i \in DOMAIN dest[d] : i \in DOMAIN sources[s].times
    BY <1>1, RowIs, SourceIs DEF ReflineToBc
  <1>4. /\ Begins /\ Wrote(d, "refline", s, col) /\ UNCHANGED <<files, copying, status>>
        /\ dest' = [dest EXCEPT ![d] = [i \in DOMAIN dest[d] |-> [time |-> dest[d][i].time, value |-> Value(s, i, col)]]]
    BY DEF ReflineToBc, WritesValues
  <1>5. dest' = [dest EXCEPT ![d] = [i \in DOMAIN dest[d] |-> [time |-> dest[d][i].time, value |-> v[i]]]]
    BY <1>4
  <1>6. \A i \in DOMAIN dest[d] : v[i] = Value(s, i, col)
    OBVIOUS
  <1> HIDE DEF v, col
  <1>7. \A i \in DOMAIN dest[d] : IsOf(v[i], "refline", s, col, i, dest[d][i].time)
    BY <1>2, <1>3, <1>6 DEF IsOf, Value
  <1>8. QED
    BY <1>4, <1>5, <1>7, WholeAfter

\* What touches neither the files nor a dataset leaves them whole.
LEMMA KeptAfter ==
  ASSUME IInv, UNCHANGED <<files, dest, writer>>,
         copying' \subseteq (DOMAIN tables) \X (DOMAIN dest),
         status' \in {"ok", "error"}, ran' \in 0 .. MaxActions
  PROVE  IInv'
  <1>1. UNCHANGED <<sources, tables, dest, writer>>
    BY DEF files
  <1>2. TypeOK'
    BY <1>1 DEF IInv, TypeOK, Columns
  <1>3. FilesAreKept' /\ RowsAreNumbered' /\ WriterIsKnown'
    BY <1>1 DEF IInv, FilesAreKept, RowsAreNumbered, WriterIsKnown
  <1>4. \A d, i : AsWritten(d, i)' <=> AsWritten(d, i)
    BY <1>1 DEF AsWritten
  <1>5. \A d : TimesOf(dest[d])' = TimesOf(dest[d])
    BY <1>1 DEF TimesOf
  <1>6. DatasetsAreWhole'
    BY <1>1, <1>4, <1>5 DEF IInv, DatasetsAreWhole
  <1>7. QED
    BY <1>2, <1>3, <1>6 DEF IInv

LEMMA BeginsCounts ==
  ASSUME IInv, Begins
  PROVE  ran' \in 0 .. MaxActions
  BY MaxActionsAssumption DEF MaxActionsAssumption, Begins, IInv, TypeOK

LEMMA CopyStep ==
  ASSUME IInv, NEW table \in DOMAIN tables, NEW d \in DOMAIN dest, CopyDataset(table, d)
  PROVE  IInv'
  <1> USE DEF CopyDataset
  <1>1. /\ DOMAIN dest' = DOMAIN dest /\ dest'[d] = tables[table]
        /\ \A e \in DOMAIN dest : e # d => dest'[e] = dest[e]
    OBVIOUS
  <1>2. UNCHANGED <<sources, tables>>
    BY DEF files
  <1>3. DOMAIN writer = DOMAIN dest
    BY DEF IInv, WriterIsKnown
  <1>4. /\ DOMAIN writer' = DOMAIN writer
        /\ \A e \in DOMAIN writer : e # d => writer'[e] = writer[e]
        /\ writer'[d] = [kind |-> "copy", from |-> table, col |-> 0, times |-> TimesOf(tables[table])]
    BY <1>3
  <1>5. /\ writer'[d].kind = "copy" /\ writer'[d].from = table
        /\ writer'[d].times = TimesOf(tables[table])
    BY <1>4
  <1>6. /\ tables[table] \in Seq(Range(tables[table]))
        /\ \A i \in DOMAIN tables[table] :
             tables[table][i].time \in Int /\ tables[table][i].value.from = table
    BY TableIs DEF IInv
  <1>7. FilesAreKept' /\ RowsAreNumbered' /\ WriterIsKnown'
    BY <1>1, <1>2, <1>3, <1>4, <1>5, <1>6 DEF IInv, FilesAreKept, RowsAreNumbered, WriterIsKnown
  <1>8. TypeOK'
    <2>1. \A e : Columns(e)' = Columns(e)
      BY <1>2 DEF Columns
    <2>2. ASSUME NEW e \in DOMAIN dest', NEW i \in DOMAIN dest'[e]
          PROVE  RowIsTyped(e, i)'
      <3>1. CASE e = d
        <4>1. /\ dest'[e] = tables[table] /\ i \in DOMAIN tables[table]
              /\ dest'[e][i].time \in Int /\ dest'[e][i].value.from \in DOMAIN tables'
          BY <1>1, <1>2, <1>6, <3>1
        <4>2. QED
          BY <4>1 DEF RowIsTyped
      <3>2. CASE e # d
        <4>1. e \in DOMAIN dest /\ dest'[e] = dest[e] /\ i \in DOMAIN dest[e]
          BY <1>1, <3>2
        <4>2. RowIsTyped(e, i)
          BY <4>1 DEF IInv, TypeOK, RowIsTyped
        <4>3. QED
          BY <1>2, <2>1, <4>1, <4>2 DEF RowIsTyped
      <3>3. QED
        BY <3>1, <3>2
    <2>3. copying' \subseteq (DOMAIN tables') \X (DOMAIN dest') /\ status' \in {"ok", "error"}
      BY <1>1, <1>2 DEF IInv, TypeOK
    <2>4. ran' \in 0 .. MaxActions
      BY DEF IInv, TypeOK
    <2>5. QED
      BY <2>2, <2>3, <2>4 DEF TypeOK, RowIsTyped
  <1>9. DatasetsAreWhole'
    <2>1. ASSUME NEW e \in DOMAIN dest, e # d
          PROVE  /\ TimesOf(dest[e])' = writer'[e].times
                 /\ \A i \in DOMAIN dest'[e] : AsWritten(e, i)'
      <3>1. dest'[e] = dest[e] /\ writer'[e] = writer[e]
        BY <1>1, <1>3, <1>4, <2>1
      <3>2. /\ TimesOf(dest[e]) = writer[e].times
            /\ \A i \in DOMAIN dest[e] : AsWritten(e, i)
        BY DEF IInv, DatasetsAreWhole
      <3>3. ASSUME NEW i \in DOMAIN dest[e] PROVE AsWritten(e, i)'
        <4>1. AsWritten(e, i)
          BY <3>2
        <4>2. QED
          BY <1>2, <3>1, <4>1, RowIsKept
      <3>4. QED
        BY <3>1, <3>2, <3>3 DEF TimesOf
    <2>2. \A i \in DOMAIN dest'[d] : AsWritten(d, i)'
      BY <1>1, <1>2, <1>5 DEF AsWritten
    <2>3. QED
      BY <1>1, <1>5, <2>1, <2>2 DEF DatasetsAreWhole
  <1>10. QED
    BY <1>7, <1>8, <1>9 DEF IInv

LEMMA StepIInv == IInv /\ [Next]_vars => IInv'
  <1> SUFFICES ASSUME IInv, [Next]_vars PROVE IInv'
    OBVIOUS
  <1> DEFINE Looks(s, d) ==
               \/ \E col \in Indices : ColumnToBc(s, d, col) \/ ColumnNotFound(s, d, col)
               \/ UpdateBoundaryCondition(s, d) \/ FirstNotFound(s, d)
               \/ \E name \in Names : ReflineToBc(s, d, name) \/ ReflineNotFound(s, d, name)
  <1>1. CASE NotPossible
    <2>1. ran' \in 0 .. MaxActions
      BY <1>1, BeginsCounts DEF NotPossible
    <2>2. QED
      BY <1>1, <2>1, KeptAfter DEF NotPossible, Fails, IInv, TypeOK
  <1>2. ASSUME NEW s \in DOMAIN sources, NEW d \in DOMAIN dest, Looks(s, d)
        PROVE  IInv'
    <2>1. CASE \E col \in Indices : ColumnToBc(s, d, col)
      BY <2>1, ColumnStep
    <2>2. CASE UpdateBoundaryCondition(s, d)
      BY <2>2, UpdateStep
    <2>3. CASE \E name \in Names : ReflineToBc(s, d, name)
      BY <2>3, ReflineStep
    <2>4. CASE \/ \E col \in Indices : ColumnNotFound(s, d, col)
               \/ FirstNotFound(s, d)
               \/ \E name \in Names : ReflineNotFound(s, d, name)
      <3>1. Begins /\ Fails /\ UNCHANGED copying
        BY <2>4 DEF ColumnNotFound, FirstNotFound, ReflineNotFound
      <3>2. ran' \in 0 .. MaxActions
        BY <3>1, BeginsCounts
      <3>3. QED
        BY <3>1, <3>2, KeptAfter DEF Fails, IInv, TypeOK
    <2>5. QED
      BY <1>2, <2>1, <2>2, <2>3, <2>4
  <1>3. ASSUME NEW f \in [DOMAIN tables -> DOMAIN dest], HdfToHdf({<<t, f[t]>> : t \in DOMAIN tables})
        PROVE  IInv'
    <2>1. ran' \in 0 .. MaxActions
      BY <1>3, BeginsCounts DEF HdfToHdf
    <2>2. copying' \subseteq (DOMAIN tables) \X (DOMAIN dest)
      BY <1>3 DEF HdfToHdf
    <2>3. QED
      BY <1>3, <2>1, <2>2, KeptAfter DEF HdfToHdf, IInv, TypeOK
  <1>4. ASSUME NEW table \in DOMAIN tables, NEW d \in DOMAIN dest,
               CopyDataset(table, d) \/ CopyFails(table, d)
        PROVE  IInv'
    <2>1. CASE CopyDataset(table, d)
      BY <2>1, CopyStep
    <2>2. CASE CopyFails(table, d)
      BY <2>2, KeptAfter DEF CopyFails, Fails, IInv, TypeOK
    <2>3. QED
      BY <1>4, <2>1, <2>2
  <1>5. CASE UNCHANGED vars
    BY <1>5, KeptAfter DEF vars, files, IInv, TypeOK
  <1>6. QED
    <2>1. CASE \E s \in DOMAIN sources, d \in DOMAIN dest : Looks(s, d)
      BY <1>2, <2>1
    <2> HIDE DEF Looks
    <2>2. CASE \E f \in [DOMAIN tables -> DOMAIN dest] : HdfToHdf({<<t, f[t]>> : t \in DOMAIN tables})
      BY <1>3, <2>2
    <2>3. CASE \E table \in DOMAIN tables, d \in DOMAIN dest : CopyDataset(table, d) \/ CopyFails(table, d)
      BY <1>4, <2>3
    <2>4. QED
      BY <1>1, <1>5, <2>1, <2>2, <2>3 DEF Next, Looks

-----------------------------------------------------------------------------
(* Theorems. *)

\* The inductive invariant holds in every state a manifest can reach.
THEOREM Invariance == Spec => []IInv
  BY InitIInv, StepIInv, PTL DEF Spec

\* Every value of a condition is the old one or names a row and column there is.
THEOREM TypeCorrect == Spec => []TypeOK
  <1>1. IInv => TypeOK
    BY DEF IInv
  <1>2. QED
    BY <1>1, Invariance, PTL

\* After any actions, failed and interrupted ones included, all rows of a dataset
\* come from the action that wrote it last, each from the row it is paired with: by
\* time for column-to-boundary-condition, by position for refline-to-boundary-condition.
THEOREM Whole == Spec => []DatasetsAreWhole
  <1>1. IInv => DatasetsAreWhole
    BY DEF IInv
  <1>2. QED
    BY <1>1, Invariance, PTL

\* Where a condition has the times of the results, looking a time up and going row
\* by row find the same value.
THEOREM Agreement == Spec => []LookupAgreesWithRows
  <1>1. IInv => LookupAgreesWithRows
    <2> SUFFICES ASSUME IInv, NEW s \in DOMAIN sources, NEW d \in DOMAIN dest, NEW col \in Indices,
                        TimesOf(dest[d]) = sources[s].times, ColumnIsFound(s, d, col),
                        NEW i \in DOMAIN dest[d], dest[d][i].time > 0
                 PROVE  RowVal(s, dest[d][i].time, col) = Value(s, i, col)
      BY DEF LookupAgreesWithRows
    <2> DEFINE t == dest[d][i].time
               k == MatchingRow(s, t)
    <2>1. FilesAreKept /\ t \in Int /\ ~(t <= 0)
      BY RowIs DEF IInv
    <2>2. i \in DOMAIN sources[s].times /\ sources[s].times[i] = t
      BY DEF TimesOf
    <2>3. RowIsFound(s, t, col)
      BY DEF ColumnIsFound
    <2>4. k # 0
      BY <2>1, <2>3 DEF RowIsFound
    <2>5. k \in 1 .. Len(sources[s].times) /\ sources[s].times[k] = t
      BY <2>1, <2>4, MatchingRowIs DEF Near
    <2>6. k = i
      <3>1. /\ DOMAIN sources[s].times = 1 .. Len(sources[s].times) /\ Len(sources[s].times) \in Nat
            /\ \A j \in 1 .. Len(sources[s].times) : sources[s].times[j] \in Int
            /\ \A j, h \in DOMAIN sources[s].times : j < h => sources[s].times[j] < sources[s].times[h]
        BY <2>1, SourceIs
      <3> HIDE DEF k, t
      <3>2. ~(k < i) /\ ~(i < k)
        BY <2>2, <2>5, <3>1
      <3>3. QED
        BY <2>2, <2>5, <3>1, <3>2
    <2>7. QED
      BY <2>1, <2>6 DEF RowVal
  <1>2. QED
    BY <1>1, Invariance, PTL

-----------------------------------------------------------------------------
(* Time. *)

\* In the first 32 days a float32 keeps as many times a day at least.
FewestFloats == 524288

LEMMA EnoughFloats ==
  ASSUME NEW m \in Nat, m < Days(32)
  PROVE  FloatsPerDay(m) \in Nat /\ FloatsPerDay(m) >= FewestFloats
  <1> DEFINE days == m \div MinutesPerDay
             P(e) == 2^e <= days /\ days < 2^(e + 1)
             e == CHOOSE x \in 0 .. 12 : P(x)
  <1>1. days \in 0 .. 31
    BY DEF Days, MinutesPerDay
  <1>2. FloatsPerDay(m) = IF days = 0 THEN 2^24 ELSE 2^(23 - e)
    BY DEF FloatsPerDay
  <1> HIDE DEF days
  <1>3. CASE days = 0
    BY <1>2, <1>3, SMT DEF FewestFloats
  <1>4. CASE days # 0
    <2>1. \E x \in 0 .. 12 : P(x)
      <3>1. CASE days = 1
        <4>1. P(0)
          BY <3>1
        <4>2. QED
          BY <4>1
      <3>2. CASE days \in 2 .. 3
        <4>1. P(1)
          BY <3>2
        <4>2. QED
          BY <4>1
      <3>3. CASE days \in 4 .. 7
        <4>1. P(2)
          BY <3>3
        <4>2. QED
          BY <4>1
      <3>4. CASE days \in 8 .. 15
        <4>1. P(3)
          BY <3>4
        <4>2. QED
          BY <4>1
      <3>5. CASE days \in 16 .. 31
        <4>1. P(4)
          BY <3>5
        <4>2. QED
          BY <4>1
      <3>6. QED
        BY <1>1, <1>4, <3>1, <3>2, <3>3, <3>4, <3>5
    <2>2. e \in 0 .. 12 /\ 2^e <= days
      BY <2>1
    <2> HIDE DEF e
    <2>3. e \in 0 .. 4
      <3> DEFINE Power(x) == 2^x
                 Larger == 32 .. 4096
      <3>1. \A k \in Larger : ~(k <= days)
        BY <1>1
      <3>2. /\ Power(5) \in Larger /\ Power(6) \in Larger /\ Power(7) \in Larger
            /\ Power(8) \in Larger /\ Power(9) \in Larger /\ Power(10) \in Larger
            /\ Power(11) \in Larger /\ Power(12) \in Larger
        BY SMT
      <3>3. Power(e) <= days
        BY <2>2
      <3> HIDE DEF Power, Larger
      <3>4. /\ ~(Power(5) <= days) /\ ~(Power(6) <= days) /\ ~(Power(7) <= days)
            /\ ~(Power(8) <= days) /\ ~(Power(9) <= days) /\ ~(Power(10) <= days)
            /\ ~(Power(11) <= days) /\ ~(Power(12) <= days)
        BY <3>1, <3>2, Zenon
      <3>5. QED
        BY <2>2, <3>3, <3>4
    <2> DEFINE Power(x) == 2^(23 - x)
    <2>4. /\ Power(0) \in Nat /\ Power(0) >= FewestFloats
          /\ Power(1) \in Nat /\ Power(1) >= FewestFloats
          /\ Power(2) \in Nat /\ Power(2) >= FewestFloats
          /\ Power(3) \in Nat /\ Power(3) >= FewestFloats
          /\ Power(4) \in Nat /\ Power(4) >= FewestFloats
      BY SMT DEF FewestFloats
    <2>5. FloatsPerDay(m) = Power(e)
      BY <1>2, <1>4
    <2> HIDE DEF Power
    <2>6. e = 0 \/ e = 1 \/ e = 2 \/ e = 3 \/ e = 4
      BY <2>3
    <2>7. QED
      BY <2>4, <2>5, <2>6
  <1>5. QED
    BY <1>3, <1>4

LEMMA RestIsLess ==
  ASSUME NEW k \in Int
  PROVE  k % 1440 \in 0 .. 1439
  OBVIOUS

LEMMA ProductIsInteger ==
  ASSUME NEW a \in Int, NEW b \in Int
  PROVE  a * b \in Int
  OBVIOUS

\* So the rounding to one is below Tolerance, though not by much.
LEMMA FirstDaysAreClose ==
  ASSUME NEW m \in Nat, m < Days(32)
  PROVE  WithinTolerance(m)
  <1>1. FloatsPerDay(m) \in Nat /\ FloatsPerDay(m) >= FewestFloats
    BY EnoughFloats
  <1> DEFINE F == FloatsPerDay(m)
             a == m % 1440
             b == F % 1440
             over == (a * b) % 1440
  <1>2. a \in Int /\ b \in Int
    BY <1>1, RestIsLess
  <1>3. RoundingOf(m) = IF 2 * over <= 1440 THEN over ELSE 1440 - over
    BY DEF RoundingOf, MinutesPerDay
  <1> HIDE DEF a, b
  <1>4. over \in 0 .. 1439
    BY <1>2, ProductIsInteger, RestIsLess
  <1> HIDE DEF over, F
  <1>5. RoundingOf(m) \in 0 .. 720
    BY <1>3, <1>4
  <1>6. QED
    BY <1>1, <1>5, SMT DEF WithinTolerance, FewestFloats

\* A condition in the first 32 days whose times the results have is always found.
THEOREM FirstDays == Spec => []FirstDaysAreFound
  <1>1. IInv => FirstDaysAreFound
    <2> SUFFICES ASSUME IInv, NEW s \in DOMAIN sources, NEW d \in DOMAIN dest,
                        sources[s].times # <<>>, NEW i \in DOMAIN dest[d],
                        dest[d][i].time < Days(32),
                        dest[d][i].time > 0 => dest[d][i].time \in Range(sources[s].times)
                 PROVE  RowIsFound(s, dest[d][i].time, 1)
      BY DEF FirstDaysAreFound, ColumnIsFound
    <2> DEFINE t == dest[d][i].time
    <2>1. FilesAreKept /\ t \in Int
      BY RowIs DEF IInv
    <2>2. 1 \in Columns(s)
      BY <2>1, SourceIs
    <2>3. CASE t <= 0
      BY <2>3 DEF RowIsFound
    <2>4. CASE t > 0
      <3>1. PICK k \in DOMAIN sources[s].times : sources[s].times[k] = t
        BY <2>4 DEF Range
      <3>2. WithinTolerance(t)
        BY <2>1, <2>4, FirstDaysAreClose
      <3>3. k \in 1 .. Len(sources[s].times) /\ Near(t, sources[s].times[k])
        BY <2>1, <3>1, <3>2, SourceIs DEF Near
      <3>4. MatchingRow(s, t) # 0
        BY <2>1, <3>3, MatchingRowIs, SourceIs
      <3>5. QED
        BY <2>1, <2>2, <2>4, <3>4 DEF RowIsFound
    <2>5. QED
      BY <2>1, <2>3, <2>4
  <1>2. QED
    BY <1>1, Invariance, PTL

-----------------------------------------------------------------------------
(* Splitting a file into blocks. *)

\* What a row does to the blocks read so far.
WithRow(blocks, row) ==
  IF blocks = <<>> \/ row.k = "header"
  THEN Append(blocks, <<row>>)
  ELSE [blocks EXCEPT ![Len(blocks)] = Append(@, row)]

LEMMA WithRowIs ==
  ASSUME NEW S, NEW blocks \in Seq(Seq(S)), NEW row \in S
  PROVE  WithRow(blocks, row) \in Seq(Seq(S))
  <1>1. CASE blocks = <<>> \/ row.k = "header"
    <2>1. <<row>> \in Seq(S)
      OBVIOUS
    <2>2. QED
      BY <1>1, <2>1, AppendProperties DEF WithRow
  <1>2. CASE ~(blocks = <<>> \/ row.k = "header")
    <2>1. Len(blocks) \in 1 .. Len(blocks)
      BY <1>2
    <2> DEFINE last == blocks[Len(blocks)]
    <2>2. last \in Seq(S)
      BY <2>1
    <2> HIDE DEF last
    <2>3. Append(last, row) \in Seq(S)
      BY <2>2, AppendProperties
    <2>4. [blocks EXCEPT ![Len(blocks)] = Append(last, row)] \in Seq(Seq(S))
      BY <2>1, <2>3, ExceptSeq
    <2>5. QED
      BY <1>2, <2>4 DEF WithRow, last
  <1>3. QED
    BY <1>1, <1>2

RowSteps(S) == [b \in Seq(Seq(S)) |-> [r \in S |-> WithRow(b, r)]]

LEMMA RowStepsAre ==
  ASSUME NEW S
  PROVE  /\ RowSteps(S) \in Steps(Seq(Seq(S)), S)
         /\ \A b \in Seq(Seq(S)), r \in S : RowSteps(S)[b][r] = WithRow(b, r)
  <1>1. \A b \in Seq(Seq(S)), r \in S : WithRow(b, r) \in Seq(Seq(S))
    BY WithRowIs
  <1> DEFINE B == Seq(Seq(S))
  <1> HIDE DEF B
  <1>2. QED
    BY <1>1 DEF Steps, RowSteps, B

LEMMA SplitIsFold ==
  ASSUME NEW S, NEW rows \in Seq(S)
  PROVE  SplitIntoBlocks(rows) = Folded(RowSteps(S), <<>>, rows, Seq(Seq(S)))
  <1> DEFINE B == Seq(Seq(S))
             D == DOMAIN rows
             F == RowSteps(S)
             IsFold(f) == f = [s \in SUBSET D |->
               IF s = {} THEN <<>> ELSE WithRow(f[s \ {Max(s)}], rows[Max(s)])]
             c == CHOOSE f : IsFold(f)
  <1>1. (\A i \in D : rows[i] \in S) /\ <<>> \in B /\ D = DOMAIN rows
    OBVIOUS
  <1>2. F \in Steps(B, S) /\ \A b \in B, r \in S : F[b][r] = WithRow(b, r)
    BY RowStepsAre
  <1>3. SplitIntoBlocks(rows) = c[D]
    BY DEF SplitIntoBlocks, FoldLeft, MapThenFoldSet, WithRow
  <1> HIDE DEF B, D, F
  <1>4. IsFold(c)
    <2>1. PICK f : f = [s \in SUBSET D |-> f[s]] /\ \A s \in SUBSET D :
            /\ f[s] = IF s = {} THEN <<>> ELSE F[f[s \ {Max(s)}]][rows[Max(s)]]
            /\ f[s] \in B
            /\ s # {} => s \ {Max(s)} \in SUBSET D /\ Max(s) \in D
      BY <1>1, <1>2, FoldOver DEF D
    <2>2. ASSUME NEW s \in SUBSET D
          PROVE  f[s] = IF s = {} THEN <<>> ELSE WithRow(f[s \ {Max(s)}], rows[Max(s)])
      <3>1. s # {} => f[s \ {Max(s)}] \in B /\ rows[Max(s)] \in S
        BY <1>1, <2>1
      <3>2. QED
        BY <1>2, <2>1, <3>1
    <2>3. IsFold(f)
      BY <2>1, <2>2
    <2>4. QED
      BY <2>3
  <1> HIDE DEF c
  <1>5. ASSUME NEW s \in SUBSET D, s # {}, c[s \ {Max(s)}] \in B
        PROVE  c[s] = F[c[s \ {Max(s)}]][rows[Max(s)]]
    <2>1. Max(s) \in D
      BY <1>1, <1>2, <1>5, FoldOver DEF D
    <2>2. QED
      BY <1>1, <1>2, <1>4, <1>5, <2>1
  <1>6. c[{}] = <<>>
    BY <1>4
  <1>7. c[D] = Folded(F, <<>>, rows, B)
    <2> DEFINE none == <<>>
    <2>1. none \in B /\ c[{}] = none
      BY <1>1, <1>6
    <2> HIDE DEF none
    <2>2. IsFoldOf(c, F, none, rows, B)
      BY <1>1, <1>5, <2>1 DEF IsFoldOf
    <2>3. c[DOMAIN rows] = Folded(F, none, rows, B)
      BY <1>2, <2>1, <2>2, FoldIsFolded
    <2>4. QED
      BY <1>1, <2>3 DEF none
  <1>8. QED
    BY <1>3, <1>7 DEF B, F

\* Reading one row more.
LEMMA SplitNext ==
  ASSUME NEW S, NEW rows \in Seq(S), NEW row \in S
  PROVE  /\ SplitIntoBlocks(Append(rows, row)) = WithRow(SplitIntoBlocks(rows), row)
         /\ SplitIntoBlocks(rows) \in Seq(Seq(S))
  <1> DEFINE B == Seq(Seq(S))
             F == RowSteps(S)
             more == Append(rows, row)
  <1>1. <<>> \in B /\ more \in Seq(S)
    BY AppendProperties
  <1>2. F \in Steps(B, S) /\ \A b \in B, r \in S : F[b][r] = WithRow(b, r)
    BY RowStepsAre
  <1>3. SplitIntoBlocks(rows) = Folded(F, <<>>, rows, B) /\ SplitIntoBlocks(more) = Folded(F, <<>>, more, B)
    BY <1>1, SplitIsFold
  <1> HIDE DEF B, F
  <1>4. Folded(F, <<>>, more, B) = F[Folded(F, <<>>, rows, B)][row] /\ Folded(F, <<>>, rows, B) \in B
    BY <1>1, <1>2, FoldedAppend
  <1>5. QED
    BY <1>2, <1>3, <1>4 DEF B

LEMMA SplitNone ==
  ASSUME NEW S, NEW rows \in Seq(S)
  PROVE  rows = <<>> => SplitIntoBlocks(rows) = <<>>
  <1>1. <<>> \in Seq(Seq(S))
    OBVIOUS
  <1>2. RowSteps(S) \in Steps(Seq(Seq(S)), S)
    BY RowStepsAre
  <1>3. QED
    BY <1>1, <1>2, SplitIsFold, FoldedEmpty

\* A header and rows that are none.
Headed(block) ==
  /\ block # <<>>
  /\ block[1].k = "header"
  /\ \A j \in 2 .. Len(block) : block[j].k # "header"

LEMMA NextRow ==
  ASSUME NEW S, NEW blocks \in Seq(Seq(S)), NEW block \in Seq(S), NEW row \in S, row.k # "header"
  PROVE  WithRow(Append(blocks, block), row) = Append(blocks, Append(block, row))
  <1> DEFINE B == Seq(S)
             more == Append(blocks, block)
             longer == Append(block, row)
             n == Len(blocks)
  <1>1. longer \in B
    BY AppendProperties
  <1>2. /\ n \in Nat /\ more \in Seq(B) /\ Len(more) = n + 1 /\ more[n + 1] = block
        /\ more # <<>> /\ \A i \in 1 .. n : more[i] = blocks[i]
    BY AppendProperties
  <1>3. blocks \in Seq(B) /\ block \in B
    OBVIOUS
  <1> HIDE DEF more, longer, B, n
  <1>4. WithRow(more, row) = [more EXCEPT ![n + 1] = longer]
    BY <1>2 DEF WithRow, longer
  <1> DEFINE a == [more EXCEPT ![n + 1] = longer]
             b == Append(blocks, longer)
  <1>5. /\ a \in Seq(B) /\ Len(a) = n + 1 /\ a[n + 1] = longer
        /\ \A i \in 1 .. n : a[i] = blocks[i]
    <2>1. n + 1 \in 1 .. Len(more)
      BY <1>2
    <2>2. /\ a \in Seq(B) /\ Len(a) = Len(more)
          /\ \A j \in 1 .. Len(more) : a[j] = IF j = n + 1 THEN longer ELSE more[j]
      BY <1>1, <1>2, <2>1, ExceptSeq
    <2> HIDE DEF a
    <2>3. QED
      BY <1>2, <2>1, <2>2
  <1>6. /\ b \in Seq(B) /\ Len(b) = n + 1 /\ b[n + 1] = longer
        /\ \A i \in 1 .. n : b[i] = blocks[i]
    BY <1>1, <1>3, AppendProperties DEF n
  <1> HIDE DEF a, b
  <1>7. a = b
    <2>1. \A i \in 1 .. n + 1 : a[i] = b[i]
      BY <1>2, <1>5, <1>6
    <2>2. QED
      BY <1>5, <1>6, <2>1, SeqEqual
  <1>8. QED
    BY <1>4, <1>7 DEF a, b, more, longer

\* A block that follows is read as it is.
LEMMA SplitBlock ==
  ASSUME NEW S, NEW rows \in Seq(S), NEW block \in Seq(S), Headed(block)
  PROVE  SplitIntoBlocks(rows \o block) = Append(SplitIntoBlocks(rows), block)
  <1> DEFINE n == Len(block)
             p(m) == SubSeq(block, 1, m)
             P == SplitIntoBlocks(rows)
             T == {m \in Nat : m + 1 <= n =>
                     SplitIntoBlocks(rows \o p(m + 1)) = Append(P, p(m + 1))}
  <1>1. n \in Nat \ {0} /\ \A j \in 1 .. n : block[j] \in S
    BY DEF Headed
  <1>2. P \in Seq(Seq(S))
    BY <1>1, SplitNext
  <1>3. ASSUME NEW m \in Nat, m < n
        PROVE  /\ p(m) \in Seq(S) /\ block[m + 1] \in S /\ p(m + 1) = Append(p(m), block[m + 1])
               /\ SplitIntoBlocks(rows \o p(m + 1)) = WithRow(SplitIntoBlocks(rows \o p(m)), block[m + 1])
    <2> DEFINE e == block[m + 1]
    <2>1. p(m) \in Seq(S) /\ e \in S /\ p(m + 1) = Append(p(m), e)
      BY <1>3, NextPrefix
    <2> HIDE DEF p, e
    <2>2. rows \o p(m + 1) = Append(rows \o p(m), e) /\ rows \o p(m) \in Seq(S)
      BY <2>1, ConcatAppend, ConcatProperties
    <2>3. SplitIntoBlocks(rows \o p(m + 1)) = WithRow(SplitIntoBlocks(rows \o p(m)), e)
      BY <2>1, <2>2, SplitNext
    <2>4. QED
      BY <2>1, <2>3 DEF e
  <1>4. p(0) = <<>> /\ rows \o p(0) = rows
    BY SubSeqEmpty, ConcatEmptySeq
  <1> HIDE DEF p, P, n
  <1>5. 0 \in T
    <2> DEFINE e == block[1]
    <2>1. p(1) = Append(<<>>, e) /\ SplitIntoBlocks(rows \o p(1)) = WithRow(P, e) /\ e.k = "header"
      <3>1. 0 < n /\ 0 + 1 = 1 /\ e.k = "header"
        BY <1>1 DEF Headed
      <3>2. /\ p(0 + 1) = Append(p(0), block[0 + 1])
            /\ SplitIntoBlocks(rows \o p(0 + 1)) = WithRow(SplitIntoBlocks(rows \o p(0)), block[0 + 1])
        BY <1>3, <3>1
      <3>3. QED
        BY <1>4, <3>1, <3>2 DEF P
    <2> HIDE DEF e
    <2>2. p(1) = <<e>>
      BY <2>1
    <2>3. WithRow(P, e) = Append(P, <<e>>)
      BY <2>1 DEF WithRow
    <2>4. SplitIntoBlocks(rows \o p(1)) = Append(P, p(1))
      BY <2>1, <2>2, <2>3
    <2>5. 0 + 1 = 1 /\ 0 \in Nat
      OBVIOUS
    <2>6. QED
      BY <2>4, <2>5
  <1>6. ASSUME NEW m \in Nat, m \in T PROVE m + 1 \in T
    <2>1. SUFFICES ASSUME (m + 1) + 1 <= n
                   PROVE  SplitIntoBlocks(rows \o p((m + 1) + 1)) = Append(P, p((m + 1) + 1))
      OBVIOUS
    <2> DEFINE k == m + 1
               e == block[k + 1]
    <2>2. k \in Nat /\ k < n /\ k <= n /\ k + 1 \in 2 .. n
      BY <1>1, <2>1
    <2>3. SplitIntoBlocks(rows \o p(k)) = Append(P, p(k))
      BY <1>6, <2>2
    <2>4. e.k # "header"
      BY <2>2 DEF Headed, n
    <2> HIDE DEF k
    <2>5. /\ p(k) \in Seq(S) /\ e \in S /\ p(k + 1) = Append(p(k), e)
          /\ SplitIntoBlocks(rows \o p(k + 1)) = WithRow(SplitIntoBlocks(rows \o p(k)), e)
      BY <1>3, <2>2
    <2> HIDE DEF e
    <2>6. WithRow(Append(P, p(k)), e) = Append(P, Append(p(k), e))
      BY <1>2, <2>4, <2>5, NextRow
    <2>7. QED
      BY <2>3, <2>5, <2>6 DEF k
  <1> HIDE DEF T
  <1>7. n - 1 \in T
    BY <1>1, <1>5, <1>6, Induction
  <1>8. p((n - 1) + 1) = block
    BY <1>1, SubSeqFull DEF p, n
  <1>9. QED
    <2>1. (n - 1) + 1 <= n
      BY <1>1
    <2>2. SplitIntoBlocks(rows \o p((n - 1) + 1)) = Append(P, p((n - 1) + 1))
      BY <1>7, <2>1 DEF T
    <2>3. QED
      BY <1>8, <2>2 DEF P

\* Blocks that were put one after the other are found again.
LEMMA SplitsBack ==
  ASSUME NEW S, NEW raw \in Seq(Seq(S)), \A i \in 1 .. Len(raw) : Headed(raw[i])
  PROVE  SplitIntoBlocks(FlattenSeq(raw)) = raw
  <1> DEFINE n == Len(raw)
             p(m) == SubSeq(raw, 1, m)
             T == {m \in Nat : m <= n => SplitIntoBlocks(FlattenSeq(p(m))) = p(m)}
  <1>1. n \in Nat
    OBVIOUS
  <1>2. 0 \in T
    <2>1. p(0) = <<>> /\ <<>> \in Seq(S)
      BY SubSeqEmpty
    <2> DEFINE none == <<>>
    <2>2. none = <<>> /\ none \in Seq(S)
      OBVIOUS
    <2> HIDE DEF none
    <2>3. SplitIntoBlocks(none) = <<>>
      BY <2>2, SplitNone
    <2>4. QED
      BY <2>1, <2>2, <2>3, FlattenEmpty
  <1>3. ASSUME NEW m \in Nat, m \in T PROVE m + 1 \in T
    <2>1. SUFFICES ASSUME m + 1 <= n PROVE SplitIntoBlocks(FlattenSeq(p(m + 1))) = p(m + 1)
      OBVIOUS
    <2> DEFINE b == raw[m + 1]
    <2>2. m < n /\ m + 1 \in 1 .. n
      BY <1>1, <2>1
    <2>3. p(m) \in Seq(Seq(S)) /\ b \in Seq(S) /\ p(m + 1) = Append(p(m), b)
      BY <2>2, NextPrefix
    <2>4. SplitIntoBlocks(FlattenSeq(p(m))) = p(m) /\ Headed(b)
      BY <1>1, <1>3, <2>2
    <2> HIDE DEF p, b
    <2>5. FlattenSeq(p(m + 1)) = FlattenSeq(p(m)) \o b /\ FlattenSeq(p(m)) \in Seq(S)
      BY <2>3, FlattenAppend, FlattenIsSeq
    <2>6. SplitIntoBlocks(FlattenSeq(p(m)) \o b) = Append(SplitIntoBlocks(FlattenSeq(p(m))), b)
      BY <2>3, <2>4, <2>5, SplitBlock
    <2>7. QED
      BY <2>3, <2>4, <2>5, <2>6
  <1> HIDE DEF T
  <1>4. n \in T
    BY <1>1, <1>2, <1>3, Induction
  <1>5. p(n) = raw
    BY SubSeqFull
  <1> HIDE DEF n, p
  <1>6. QED
    BY <1>1, <1>4, <1>5 DEF T

-----------------------------------------------------------------------------
(* Rows. *)

RowCells == {cells \in Seq(Int) : Len(cells) \in 1 .. 2 * PerRow}
CellRows == {Row(cells) : cells \in RowCells}
Heads ==
  {Header("version", ""), Header("breach", "")} \cup {Header("outlet", name) : name \in Labels}

\* The rows of what RAS lays out, and those that rewriting and skip-dss add.
LaidOut == CellRows \cup Heads \cup {EndOfFlow}
SkipHeads == {Header("extra", ""), Header("skip", "")}
Rows == LaidOut \cup SkipHeads \cup {Blank}

LEMMA RowsAre ==
  /\ \A r \in CellRows : r.k = "row" /\ Len(r.cells) \in 1 .. 2 * PerRow
  /\ \A r \in Heads \cup SkipHeads : r.k = "header"
  /\ EndOfFlow.k = "end" /\ Blank.k = "blank"
  <1>1. ASSUME NEW r \in CellRows PROVE r.k = "row" /\ Len(r.cells) \in 1 .. 2 * PerRow
    <2>1. PICK cells \in RowCells : r = [k |-> "row", cells |-> cells]
      BY DEF CellRows, Row
    <2>2. r.k = "row" /\ r.cells = cells
      BY <2>1
    <2>3. QED
      BY <2>2 DEF RowCells
  <1>2. ASSUME NEW r \in Heads \cup SkipHeads PROVE r.k = "header"
    <2>1. \E of, name : r = Header(of, name)
      BY DEF Heads, SkipHeads
    <2>2. \A of, name : Header(of, name).k = "header"
      BY DEF Header
    <2>3. QED
      BY <2>1, <2>2
  <1>3. EndOfFlow.k = "end" /\ Blank.k = "blank"
    BY DEF EndOfFlow, Blank
  <1>4. QED
    BY <1>1, <1>2, <1>3

LEMMA CellRowIs ==
  ASSUME NEW a \in Int
  PROVE  /\ Row(<<a>>) \in CellRows
         /\ \A b, c \in Int : Row(<<a, b, c>>) \in CellRows
  <1>1. \A cells \in Seq(Int) : Len(cells) \in 1 .. 10 => Row(cells) \in CellRows
    BY DEF CellRows, RowCells, PerRow
  <1>2. <<a>> \in Seq(Int) /\ Len(<<a>>) \in 1 .. 10
    OBVIOUS
  <1>3. ASSUME NEW b \in Int, NEW c \in Int
        PROVE  <<a, b, c>> \in Seq(Int) /\ Len(<<a, b, c>>) \in 1 .. 10
    OBVIOUS
  <1>4. Row(<<a>>) \in CellRows
    BY <1>1, <1>2
  <1>5. ASSUME NEW b \in Int, NEW c \in Int PROVE Row(<<a, b, c>>) \in CellRows
    BY <1>1, <1>3
  <1>6. QED
    BY <1>4, <1>5

Fives(n) == (n + 4) \div 5

LEMMA FivesAre ==
  ASSUME NEW n \in Nat
  PROVE  /\ Fives(n) \in Nat /\ StoredRows(n) = Fives(n)
         /\ 5 * Fives(n) >= n /\ 5 * (Fives(n) - 1) < n
         /\ Fives(n) = 0 <=> n = 0
  BY DEF Fives, StoredRows, PerRow

-----------------------------------------------------------------------------
(* The rows of a structure. *)

Struct == [snet : Nat \ {0}, wasting : BOOLEAN, method1 : BOOLEAN,
           prog : Nat, down : Nat, elev : Cells]

\* Mass wasting adds a row.
Extra(s) == IF s.wasting THEN 1 ELSE 0
StructLength(s) ==
  4 + Extra(s) + Fives(s.prog) + (IF s.method1 THEN 1 + Fives(s.down) ELSE 0)

StructHead(s) == Row(<<s.snet, IF s.method1 THEN 1 ELSE 0, IF s.wasting THEN 1 ELSE 0>>)
StructRow(s, i) ==
  IF i = 1 THEN StructHead(s)
  ELSE IF i = 3 + Extra(s) THEN Row(<<s.elev, 0, 0>>)
  ELSE IF i = 4 + Extra(s) THEN Row(<<s.prog, 0, 0>>)
  ELSE IF i = 5 + Extra(s) + Fives(s.prog) THEN Row(<<s.down, 0, 0>>)
  ELSE Ordinates

LEMMA StructRowsAre ==
  ASSUME NEW s \in Struct
  PROVE  /\ StructRows(s) \in Seq(CellRows)
         /\ StructLength(s) \in Nat \ {0} /\ Len(StructRows(s)) = StructLength(s)
         /\ \A i \in 1 .. StructLength(s) : StructRows(s)[i] = StructRow(s, i)
  <1> DEFINE R == CellRows
             head == <<StructHead(s)>>
             waste == IF s.wasting THEN <<Ordinates>> ELSE <<>>
             elev == Row(<<s.elev, 0, 0>>)
             prog == Row(<<s.prog, 0, 0>>)
             down == Row(<<s.down, 0, 0>>)
             mid == <<Ordinates, elev, prog>>
             p == Fives(s.prog)
             q == Fives(s.down)
             x == Extra(s)
             ps == [i \in 1 .. p |-> Ordinates]
             qs == [i \in 1 .. q |-> Ordinates]
             first == <<down>>
             second == first \o qs
             last == IF s.method1 THEN second ELSE <<>>
             a == head \o waste
             b == a \o mid
             c == b \o ps
             d == c \o last
  <1>1. /\ StructHead(s) \in R /\ Ordinates \in R /\ elev \in R /\ prog \in R /\ down \in R
    <2>1. s.elev \in Int /\ s.snet \in Int /\ s.prog \in Int /\ s.down \in Int /\ 0 \in Int /\ 1 \in Int
      <3>1. s.elev \in Cells
        BY DEF Struct
      <3>2. s.elev \in Int
        BY <3>1, ReformatAssumption
      <3>3. QED
        BY <3>2 DEF Struct
    <2>2. QED
      BY <2>1, CellRowIs DEF StructHead, Ordinates
  <1>2. p \in Nat /\ q \in Nat /\ x \in {0, 1} /\ (x = 1 <=> s.wasting)
    BY FivesAre DEF Struct, Extra
  <1>3. StructRows(s) = d
    BY DEF StructRows, StructHead, Fives
  <1>4. StructLength(s) = 4 + x + p + (IF s.method1 THEN 1 + q ELSE 0)
    BY DEF StructLength
  <1>5. \A i : StructRow(s, i) =
          IF i = 1 THEN StructHead(s) ELSE IF i = 3 + x THEN elev ELSE IF i = 4 + x THEN prog
          ELSE IF i = 5 + x + p THEN down ELSE Ordinates
    BY DEF StructRow
  <1> HIDE DEF R, elev, prog, down, p, q, x
  <1>6. /\ head \in Seq(R) /\ Len(head) = 1 /\ head[1] = StructHead(s)
        /\ waste \in Seq(R) /\ Len(waste) = x /\ (x = 1 => waste[1] = Ordinates)
    BY <1>1, <1>2
  <1>7. mid \in Seq(R) /\ Len(mid) = 3 /\ mid[1] = Ordinates /\ mid[2] = elev /\ mid[3] = prog
    BY <1>1
  <1>8. ps \in Seq(R) /\ Len(ps) = p /\ \A i \in 1 .. p : ps[i] = Ordinates
    BY <1>1, <1>2
  <1>9. qs \in Seq(R) /\ Len(qs) = q /\ \A i \in 1 .. q : qs[i] = Ordinates
    BY <1>1, <1>2
  <1>10. first \in Seq(R) /\ Len(first) = 1 /\ first[1] = down
    BY <1>1
  <1> HIDE DEF head, waste, mid, ps, qs, first
  <1>11. second \in Seq(R) /\ Joins(second, first, qs)
    BY <1>9, <1>10, Joined
  <1> HIDE DEF second
  <1>12. /\ last \in Seq(R) /\ Len(last) = IF s.method1 THEN 1 + q ELSE 0
         /\ \A i \in 1 .. Len(last) : last[i] = IF i = 1 THEN down ELSE Ordinates
    <2>1. /\ Len(second) = 1 + q
          /\ \A i \in 1 .. 1 + q : second[i] = IF i = 1 THEN down ELSE Ordinates
      BY <1>2, <1>9, <1>10, <1>11 DEF Joins
    <2>2. CASE s.method1
      BY <1>11, <2>1, <2>2
    <2>3. CASE ~s.method1
      BY <2>3
    <2>4. QED
      BY <2>2, <2>3
  <1> HIDE DEF last
  <1>13. a \in Seq(R) /\ Joins(a, head, waste)
    BY <1>6, Joined
  <1> HIDE DEF a
  <1>14. b \in Seq(R) /\ Joins(b, a, mid)
    BY <1>7, <1>13, Joined
  <1> HIDE DEF b
  <1>15. c \in Seq(R) /\ Joins(c, b, ps)
    BY <1>8, <1>14, Joined
  <1> HIDE DEF c
  <1>16. d \in Seq(R) /\ Joins(d, c, last)
    BY <1>12, <1>15, Joined
  <1> HIDE DEF d
  <1>17. Len(a) = 1 + x /\ Len(b) = 4 + x /\ Len(c) = 4 + x + p /\ Len(d) = 4 + x + p + Len(last)
    BY <1>2, <1>6, <1>7, <1>8, <1>13, <1>14, <1>15, <1>16 DEF Joins
  <1>18. StructLength(s) = Len(d) /\ StructLength(s) \in Nat \ {0} /\ Len(last) \in Nat
    BY <1>2, <1>4, <1>12, <1>17
  <1>19. ASSUME NEW i \in 1 .. StructLength(s) PROVE d[i] = StructRow(s, i)
    <2>1. i \in 1 .. Len(d) /\ i \in Int
      BY <1>18
    <2>2. CASE i = 1
      <3>1. a[i] = head[i]
        BY <1>2, <1>6, <1>13, <2>2 DEF Joins
      <3>2. b[i] = a[i]
        <4>1. i \in 1 .. Len(a)
          BY <1>2, <1>17, <2>2
        <4>2. QED
          BY <1>14, <4>1 DEF Joins
      <3>3. c[i] = b[i]
        BY <1>2, <1>15, <1>17, <2>2 DEF Joins
      <3>4. d[i] = c[i]
        BY <1>2, <1>16, <1>17, <2>2 DEF Joins
      <3>5. QED
        BY <1>5, <1>6, <2>2, <3>1, <3>2, <3>3, <3>4
    <2>3. CASE i \in 2 .. 1 + x
      <3>1. i = 2 /\ x = 1
        BY <1>2, <2>3
      <3>2. a[i] = waste[1]
        <4>1. i \in 1 .. Len(a) /\ i > Len(head) /\ i - Len(head) = 1
          BY <1>6, <1>17, <3>1
        <4>2. QED
          BY <1>13, <4>1 DEF Joins
      <3>3. b[i] = a[i]
        BY <1>14, <1>17, <3>1 DEF Joins
      <3>4. c[i] = b[i]
        BY <1>15, <1>17, <3>1 DEF Joins
      <3>5. d[i] = c[i]
        BY <1>2, <1>16, <1>17, <3>1 DEF Joins
      <3>6. waste[1] = Ordinates
        BY <1>6, <3>1
      <3>7. StructRow(s, i) = Ordinates
        BY <1>2, <1>5, <3>1
      <3>8. QED
        BY <3>2, <3>3, <3>4, <3>5, <3>6, <3>7
    <2>4. CASE i \in 2 + x .. 4 + x
      <3>1. b[i] = mid[i - (1 + x)] /\ i - (1 + x) \in 1 .. 3
        BY <1>2, <1>7, <1>14, <1>17, <2>1, <2>4 DEF Joins
      <3>2. c[i] = b[i]
        BY <1>2, <1>15, <1>17, <2>1, <2>4 DEF Joins
      <3>3. d[i] = c[i]
        BY <1>2, <1>16, <1>17, <2>1, <2>4 DEF Joins
      <3>4. i = 2 + x \/ i = 3 + x \/ i = 4 + x
        BY <1>2, <2>1, <2>4
      <3>5. CASE i = 2 + x
        <4>1. i - (1 + x) = 1 /\ i # 1 /\ i # 3 + x /\ i # 4 + x /\ i # 5 + x + p
          BY <1>2, <3>5
        <4>2. QED
          BY <1>5, <1>7, <3>1, <3>2, <3>3, <4>1
      <3>6. CASE i = 3 + x
        <4>1. i - (1 + x) = 2 /\ i # 1
          BY <1>2, <3>6
        <4>2. QED
          BY <1>5, <1>7, <3>1, <3>2, <3>3, <3>6, <4>1
      <3>7. CASE i = 4 + x
        <4>1. i - (1 + x) = 3 /\ i # 1 /\ i # 3 + x
          BY <1>2, <3>7
        <4>2. QED
          BY <1>5, <1>7, <3>1, <3>2, <3>3, <3>7, <4>1
      <3>8. QED
        BY <3>4, <3>5, <3>6, <3>7
    <2>5. CASE i \in 5 + x .. 4 + x + p
      <3>1. c[i] = ps[i - (4 + x)] /\ i - (4 + x) \in 1 .. p
        BY <1>2, <1>8, <1>15, <1>17, <2>1, <2>5 DEF Joins
      <3>2. d[i] = c[i]
        BY <1>2, <1>16, <1>17, <2>1, <2>5 DEF Joins
      <3>3. i # 1 /\ i # 3 + x /\ i # 4 + x /\ i # 5 + x + p
        BY <1>2, <2>1, <2>5
      <3>4. QED
        BY <1>5, <1>8, <3>1, <3>2, <3>3
    <2>6. CASE i > 4 + x + p
      <3>1. d[i] = last[i - (4 + x + p)] /\ i - (4 + x + p) \in 1 .. Len(last)
        BY <1>2, <1>16, <1>17, <2>1, <2>6 DEF Joins
      <3>2. i - (4 + x + p) = 1 <=> i = 5 + x + p
        BY <1>2, <2>1
      <3>3. i # 1 /\ i # 3 + x /\ i # 4 + x
        BY <1>2, <2>1, <2>6
      <3>4. QED
        BY <1>5, <1>12, <3>1, <3>2, <3>3
    <2>7. QED
      BY <1>2, <2>1, <2>2, <2>3, <2>4, <2>5, <2>6
  <1>20. QED
    BY <1>3, <1>16, <1>18, <1>19 DEF R

\* The reader cuts a structure out where it is.
LEMMA StructIsCut ==
  ASSUME NEW s \in Struct, NEW rows, NEW first \in Nat,
         \A j \in 1 .. StructLength(s) : rows[first + j - 1] = StructRow(s, j)
  PROVE  /\ NumRows(rows, first) = StructLength(s)
         /\ ElevationRow(rows, first) = 3 + Extra(s)
         /\ rows[first].cells[1] = s.snet
  <1> DEFINE p == Fives(s.prog)
             q == Fives(s.down)
             x == Extra(s)
             n == StructLength(s)
  <1>1. p \in Nat /\ q \in Nat /\ x \in {0, 1} /\ (x = 1 <=> s.wasting)
        /\ StoredRows(s.prog) = p /\ StoredRows(s.down) = q
    BY FivesAre DEF Struct, Extra
  <1>2. n = 4 + x + p + (IF s.method1 THEN 1 + q ELSE 0)
    BY DEF StructLength
  <1>3. \A j : StructRow(s, j) =
          IF j = 1 THEN StructHead(s) ELSE IF j = 3 + x THEN Row(<<s.elev, 0, 0>>)
          ELSE IF j = 4 + x THEN Row(<<s.prog, 0, 0>>)
          ELSE IF j = 5 + x + p THEN Row(<<s.down, 0, 0>>) ELSE Ordinates
    BY DEF StructRow
  <1> HIDE DEF p, q, x, n
  <1>4. /\ StructHead(s).cells[1] = s.snet
        /\ StructHead(s).cells[2] = 1 <=> s.method1
        /\ StructHead(s).cells[3] = 1 <=> s.wasting
        /\ Row(<<s.prog, 0, 0>>).cells[1] = s.prog
        /\ Row(<<s.down, 0, 0>>).cells[1] = s.down
    BY DEF StructHead, Row
  <1>5. rows[first] = StructHead(s)
    <2>1. 1 \in 1 .. n /\ first + 1 - 1 = first
      BY <1>1, <1>2
    <2>2. QED
      BY <1>3, <2>1 DEF n
  <1>6. rows[first + (4 + x) - 1].cells[1] = s.prog
    <2>1. 4 + x \in 1 .. n /\ 4 + x # 1 /\ 4 + x # 3 + x
      BY <1>1, <1>2
    <2>2. rows[first + (4 + x) - 1] = Row(<<s.prog, 0, 0>>)
      BY <1>3, <2>1 DEF n
    <2>3. QED
      BY <1>4, <2>2
  <1>7. s.method1 => rows[first + (4 + x) + p].cells[1] = s.down
    <2>1. SUFFICES ASSUME s.method1 PROVE rows[first + (4 + x) + p].cells[1] = s.down
      OBVIOUS
    <2> DEFINE j == 5 + x + p
    <2>2. j \in 1 .. n /\ j # 1 /\ j # 3 + x /\ j # 4 + x /\ first + j - 1 = first + (4 + x) + p
      BY <1>1, <1>2, <2>1
    <2>3. rows[first + j - 1] = Row(<<s.down, 0, 0>>)
      BY <1>3, <2>2 DEF n
    <2>4. QED
      BY <1>4, <2>2, <2>3
  <1>8. FixedRows(rows, first) = 4 + x /\ ElevationRow(rows, first) = 3 + x
    BY <1>1, <1>4, <1>5 DEF FixedRows, ElevationRow, Wasting
  <1>9. Method1(rows, first) <=> s.method1
    BY <1>4, <1>5 DEF Method1
  <1>10. NumRows(rows, first) = (4 + x) + p + (IF s.method1 THEN 1 + q ELSE 0)
    BY <1>1, <1>6, <1>7, <1>8, <1>9 DEF NumRows
  <1>11. QED
    BY <1>2, <1>4, <1>5, <1>8, <1>10 DEF n, x

StructBlock(s) ==
  [k |-> "breach", snet |-> s.snet, elevRow |-> 3 + Extra(s), rows |-> StructRows(s)]

LEMMA StructBlockIs ==
  ASSUME NEW s \in Struct, NEW S, NEW rows \in Seq(S), NEW first \in Nat \ {0},
         first + StructLength(s) - 1 <= Len(rows),
         \A j \in 1 .. StructLength(s) : rows[first + j - 1] = StructRows(s)[j]
  PROVE  BreachBlock(rows, first) = StructBlock(s) /\ NumRows(rows, first) = StructLength(s)
  <1> DEFINE n == StructLength(s)
             last == first + n - 1
             taken == SubSeq(rows, first, last)
             laid == StructRows(s)
  <1>1. /\ laid \in Seq(CellRows) /\ n \in Nat \ {0} /\ Len(laid) = n
        /\ \A j \in 1 .. n : laid[j] = StructRow(s, j)
    BY StructRowsAre
  <1>2. /\ NumRows(rows, first) = n
        /\ ElevationRow(rows, first) = 3 + Extra(s)
        /\ rows[first].cells[1] = s.snet
    <2>1. \A j \in 1 .. StructLength(s) : rows[first + j - 1] = StructRow(s, j)
      BY <1>1
    <2>2. first \in Nat
      OBVIOUS
    <2> HIDE DEF n
    <2>3. QED
      BY <2>1, <2>2, StructIsCut DEF n
  <1>3. \A j \in 1 .. n : rows[first + j - 1] = laid[j]
    OBVIOUS
  <1> HIDE DEF n
  <1>4. Len(rows) \in Nat /\ last \in Int /\ last <= Len(rows) /\ first <= last /\ last - first + 1 = n
    BY <1>1 DEF n
  <1>5. \A j \in first .. last : rows[j] \in CellRows
    <2>1. ASSUME NEW j \in first .. last PROVE rows[j] \in CellRows
      <3> DEFINE i == j - first + 1
      <3>1. i \in 1 .. n /\ first + i - 1 = j
        BY <1>4
      <3>2. laid[i] \in CellRows
        BY <1>1, <3>1
      <3>3. QED
        BY <1>3, <3>1, <3>2
    <2>2. QED
      BY <2>1
  <1> HIDE DEF last, laid
  <1>6. /\ taken \in Seq(CellRows) /\ Len(taken) = n
        /\ \A i \in 1 .. n : taken[i] = rows[first + i - 1]
    BY <1>4, <1>5, SubSeqProperties
  <1> HIDE DEF taken
  <1>7. taken = laid
    <2>1. \A i \in 1 .. n : taken[i] = laid[i]
      BY <1>3, <1>6
    <2>2. QED
      BY <1>1, <1>6, <2>1, SeqEqual
  <1>8. taken[1].cells[1] = s.snet
    <2>1. first + 1 - 1 = first /\ 1 \in 1 .. n
      BY <1>1
    <2>2. QED
      BY <1>2, <1>6, <2>1
  <1>9. BreachBlock(rows, first) =
          [k |-> "breach", snet |-> taken[1].cells[1], elevRow |-> 3 + Extra(s), rows |-> taken]
    BY <1>2 DEF BreachBlock, taken, last
  <1>10. QED
    BY <1>2, <1>7, <1>8, <1>9 DEF StructBlock, laid, n

-----------------------------------------------------------------------------
(* The block of the breach data. *)

StructSeqs(structs) == [i \in 1 .. Len(structs) |-> StructRows(structs[i])]
StructBlocks(structs) == [i \in 1 .. Len(structs) |-> StructBlock(structs[i])]
BreachHead(structs) == <<Header("breach", ""), Row(<<Len(structs)>>)>>
BreachRows(structs) == BreachHead(structs) \o FlattenSeq(StructSeqs(structs))

LEMMA StructSeqsAre ==
  ASSUME NEW structs \in Seq(Struct)
  PROVE  /\ StructSeqs(structs) \in Seq(Seq(CellRows))
         /\ Len(StructSeqs(structs)) = Len(structs) /\ Len(structs) \in Nat
         /\ \A i \in 1 .. Len(structs) :
              structs[i] \in Struct /\ StructSeqs(structs)[i] = StructRows(structs[i])
         /\ FlattenSeq(StructSeqs(structs)) \in Seq(CellRows)
  <1>1. Len(structs) \in Nat /\ \A i \in 1 .. Len(structs) : structs[i] \in Struct
    OBVIOUS
  <1>2. \A i \in 1 .. Len(structs) : StructRows(structs[i]) \in Seq(CellRows)
    BY <1>1, StructRowsAre
  <1>3. /\ StructSeqs(structs) \in Seq(Seq(CellRows)) /\ Len(StructSeqs(structs)) = Len(structs)
        /\ \A i \in 1 .. Len(structs) : StructSeqs(structs)[i] = StructRows(structs[i])
    BY <1>1, <1>2 DEF StructSeqs
  <1>4. FlattenSeq(StructSeqs(structs)) \in Seq(CellRows)
    BY <1>3, FlattenIsSeq
  <1>5. QED
    BY <1>1, <1>3, <1>4

LEMMA BreachHeadIs ==
  ASSUME NEW structs \in Seq(Struct)
  PROVE  /\ BreachHead(structs) \in Seq(LaidOut) /\ Len(BreachHead(structs)) = 2
         /\ BreachHead(structs)[1] = Header("breach", "")
         /\ BreachHead(structs)[2] = Row(<<Len(structs)>>)
         /\ Row(<<Len(structs)>>) \in CellRows
         /\ BreachRows(structs) \in Seq(LaidOut)
         /\ Joins(BreachRows(structs), BreachHead(structs), FlattenSeq(StructSeqs(structs)))
  <1>1. Len(structs) \in Int
    BY StructSeqsAre
  <1>2. Row(<<Len(structs)>>) \in CellRows /\ Header("breach", "") \in Heads
    BY <1>1, CellRowIs DEF Heads
  <1>3. Row(<<Len(structs)>>) \in LaidOut /\ Header("breach", "") \in LaidOut
    BY <1>2 DEF LaidOut
  <1>4. /\ BreachHead(structs) \in Seq(LaidOut) /\ Len(BreachHead(structs)) = 2
        /\ BreachHead(structs)[1] = Header("breach", "")
        /\ BreachHead(structs)[2] = Row(<<Len(structs)>>)
    <2> DEFINE h == Header("breach", "")
               r == Row(<<Len(structs)>>)
               L == LaidOut
    <2>1. h \in L /\ r \in L /\ BreachHead(structs) = <<h, r>>
      BY <1>3 DEF BreachHead
    <2> HIDE DEF h, r, L
    <2>2. <<h, r>> \in Seq(L) /\ Len(<<h, r>>) = 2 /\ <<h, r>>[1] = h /\ <<h, r>>[2] = r
      BY <2>1
    <2>3. QED
      BY <2>1, <2>2 DEF h, r, L
  <1>5. FlattenSeq(StructSeqs(structs)) \in Seq(LaidOut)
    <2>1. CellRows \subseteq LaidOut
      BY DEF LaidOut
    <2>2. QED
      BY <2>1, StructSeqsAre, SeqMonotonic
  <1>6. BreachRows(structs) \in Seq(LaidOut)
        /\ Joins(BreachRows(structs), BreachHead(structs), FlattenSeq(StructSeqs(structs)))
    BY <1>4, <1>5, Joined DEF BreachRows
  <1>7. QED
    BY <1>2, <1>4, <1>6

\* Reading the breach data gives the structures, each cut at the right row.
LEMMA BreachIsParsed ==
  ASSUME NEW structs \in Seq(Struct)
  PROVE  BreachBlocks(BreachRows(structs)) =
           <<DefaultBlock(BreachHead(structs))>> \o StructBlocks(structs)
  <1> DEFINE n == Len(structs)
             block == BreachRows(structs)
             rows == Tail(block)
             head == BreachHead(structs)
             ss == StructSeqs(structs)
             body == FlattenSeq(ss)
             IsFirst(f) == f = [i \in 1 .. n |-> IF i = 1 THEN 2 ELSE f[i - 1] + NumRows(rows, f[i - 1])]
             c == CHOOSE f : IsFirst(f)
  <1>1. /\ ss \in Seq(Seq(CellRows)) /\ Len(ss) = n /\ n \in Nat
        /\ \A i \in 1 .. n : structs[i] \in Struct /\ ss[i] = StructRows(structs[i])
    BY StructSeqsAre
  <1>2. /\ head \in Seq(LaidOut) /\ Len(head) = 2
        /\ head[1] = Header("breach", "") /\ head[2] = Row(<<n>>)
        /\ block \in Seq(LaidOut) /\ Joins(block, head, body)
    BY BreachHeadIs
  <1>3. Len(body) \in Nat /\ body \in Seq(CellRows)
    BY StructSeqsAre
  <1>4. PICK f : Flattens(f, ss, CellRows)
    BY <1>1, FlatteningOf DEF Flattens
  <1>5. ASSUME NEW i \in 1 .. n
        PROVE  /\ Len(f[i - 1]) \in Nat /\ Len(f[i]) = Len(f[i - 1]) + Len(ss[i]) /\ Len(f[i]) <= Len(body)
               /\ \A j \in 1 .. Len(ss[i]) : body[Len(f[i - 1]) + j] = ss[i][j]
    <2> HIDE DEF ss, n
    <2>1. i \in 1 .. Len(ss) /\ ss \in Seq(Seq(CellRows))
      BY <1>1
    <2> HIDE DEF body
    <2>2. IsAt(f, ss, i)
      BY <1>4, <2>1, FlattenedAt
    <2>3. QED
      BY <2>2 DEF body, IsAt
  <1>6. f[0] = <<>>
    BY <1>4 DEF Flattens, IsFlattening
  <1> DEFINE count == rows[1].cells[1]
             Chosen(k) == CHOOSE g : g = [j \in 1 .. k |->
                            IF j = 1 THEN 2 ELSE g[j - 1] + NumRows(rows, g[j - 1])]
             CutUp(k, front) == <<DefaultBlock(front)>> \o [i \in 1 .. k |-> BreachBlock(rows, Chosen(k)[i])]
  <1>7. BreachBlocks(block) = CutUp(count, SubSeq(block, 1, 2))
    BY DEF BreachBlocks
  <1> HIDE DEF block, head, ss, body
  <1>8. /\ rows \in Seq(LaidOut) /\ Len(rows) = 1 + Len(body) /\ rows[1] = Row(<<n>>)
        /\ \A i \in 1 .. Len(body) : rows[1 + i] = body[i]
    <2>1. /\ Len(block) = 2 + Len(body)
          /\ \A i \in 1 .. 2 : block[i] = head[i]
          /\ \A i \in 1 .. 2 + Len(body) : i > 2 => block[i] = body[i - 2]
      BY <1>2, <1>3 DEF Joins
    <2>2. /\ rows \in Seq(LaidOut) /\ Len(rows) = Len(block) - 1
          /\ \A i \in 1 .. Len(rows) : rows[i] = block[i + 1]
      <3>1. block # <<>>
        BY <1>3, <2>1
      <3>2. QED
        BY <1>2, <3>1, HeadTailProperties
    <2> HIDE DEF rows
    <2>3. Len(rows) = 1 + Len(body)
      BY <1>3, <2>1, <2>2
    <2>4. rows[1] = Row(<<n>>)
      <3>1. 1 \in 1 .. Len(rows) /\ 1 + 1 = 2 /\ 2 \in 1 .. 2
        BY <1>3, <2>3
      <3>2. rows[1] = block[1 + 1]
        BY <2>2, <3>1
      <3>3. rows[1] = block[2]
        BY <3>1, <3>2
      <3>4. QED
        BY <1>2, <2>1, <3>1, <3>3
    <2>5. ASSUME NEW i \in 1 .. Len(body) PROVE rows[1 + i] = body[i]
      <3>1. /\ 1 + i \in 1 .. Len(rows) /\ (1 + i) + 1 \in 1 .. 2 + Len(body)
            /\ (1 + i) + 1 > 2 /\ ((1 + i) + 1) - 2 = i
        BY <1>3, <2>3
      <3>2. QED
        BY <2>1, <2>2, <3>1
    <2>6. QED
      BY <2>2, <2>3, <2>4, <2>5
  <1>9. count = n
    BY <1>8 DEF Row
  <1>10. SubSeq(block, 1, 2) = head
    <2>1. /\ Len(block) = 2 + Len(body)
          /\ \A i \in 1 .. 2 : block[i] = head[i]
      BY <1>2, <1>3 DEF Joins
    <2>2. \A i \in 1 .. 2 : block[i] \in LaidOut
      <3>1. \A i \in 1 .. Len(block) : block[i] \in LaidOut
        BY <1>2, ElementOfSeq
      <3>2. \A i \in 1 .. 2 : i \in 1 .. Len(block)
        BY <1>3, <2>1
      <3>3. QED
        BY <3>1, <3>2
    <2> DEFINE t == SubSeq(block, 1, 2)
    <2>3. t \in Seq(LaidOut) /\ Len(t) = 2 /\ \A i \in 1 .. 2 : t[i] = block[i]
      <3>1. /\ t \in Seq(LaidOut) /\ Len(t) = IF 1 <= 2 THEN 2 - 1 + 1 ELSE 0
            /\ \A i \in 1 .. 2 - 1 + 1 : t[i] = block[1 + i - 1]
        BY <2>2, SubSeqProperties
      <3>2. QED
        BY <3>1
    <2> HIDE DEF t
    <2>4. \A i \in 1 .. 2 : t[i] = head[i]
      BY <2>1, <2>3
    <2>5. t = head
      BY <1>2, <2>3, <2>4, SeqEqual
    <2>6. QED
      BY <2>5 DEF t
  <1> HIDE DEF rows
  <1> DEFINE e == [i \in 1 .. n |-> 2 + Len(f[i - 1])]
  <1>11. ASSUME NEW i \in 1 .. n
         PROVE  /\ BreachBlock(rows, e[i]) = StructBlock(structs[i])
                /\ e[i] + NumRows(rows, e[i]) = 2 + Len(f[i])
    <2> DEFINE s == structs[i]
               at == Len(f[i - 1])
    <2>1. s \in Struct /\ ss[i] = StructRows(s)
      BY <1>1
    <2>2. Len(StructRows(s)) = StructLength(s) /\ StructLength(s) \in Nat \ {0}
      BY <2>1, StructRowsAre
    <2>3. /\ at \in Nat /\ Len(f[i]) = at + StructLength(s) /\ Len(f[i]) <= Len(body)
          /\ \A j \in 1 .. StructLength(s) : body[at + j] = StructRows(s)[j]
      BY <1>5, <2>1, <2>2
    <2>4. e[i] = 2 + at
      OBVIOUS
    <2> HIDE DEF s, at, e
    <2>5. ASSUME NEW j \in 1 .. StructLength(s) PROVE rows[e[i] + j - 1] = StructRows(s)[j]
      <3>1. at + j \in 1 .. Len(body) /\ e[i] + j - 1 = 1 + (at + j)
        BY <1>3, <2>2, <2>3, <2>4
      <3>2. QED
        BY <1>8, <2>3, <3>1
    <2>6. e[i] \in Nat \ {0} /\ e[i] + StructLength(s) - 1 <= Len(rows)
      BY <1>3, <1>8, <2>2, <2>3, <2>4
    <2>7. BreachBlock(rows, e[i]) = StructBlock(s) /\ NumRows(rows, e[i]) = StructLength(s)
      BY <1>8, <2>1, <2>5, <2>6, StructBlockIs
    <2>8. QED
      BY <2>2, <2>3, <2>4, <2>7 DEF s
  <1>12. IsFirst(e)
    <2>1. ASSUME NEW i \in 1 .. n
          PROVE  e[i] = IF i = 1 THEN 2 ELSE e[i - 1] + NumRows(rows, e[i - 1])
      <3>1. CASE i = 1
        <4>1. e[1] = 2 + Len(f[0]) /\ Len(f[0]) = 0
          BY <1>6, <3>1
        <4>2. QED
          BY <3>1, <4>1
      <3>2. CASE i # 1
        <4>1. i - 1 \in 1 .. n
          BY <1>1, <3>2
        <4>2. e[i] = 2 + Len(f[i - 1])
          OBVIOUS
        <4> HIDE DEF e
        <4>3. QED
          BY <1>11, <3>2, <4>1, <4>2
      <3>3. QED
        BY <3>1, <3>2
    <2>2. QED
      BY <2>1
  <1>13. IsFirst(c)
    BY <1>12
  <1> HIDE DEF c
  <1>14. \A i \in 1 .. n : c[i] = IF i = 1 THEN 2 ELSE c[i - 1] + NumRows(rows, c[i - 1])
    BY <1>13
  <1>15. \A i \in 1 .. n : e[i] = IF i = 1 THEN 2 ELSE e[i - 1] + NumRows(rows, e[i - 1])
    <2> HIDE DEF e
    <2>1. QED
      BY <1>12
  <1> HIDE DEF e
  <1> DEFINE T == {m \in Nat : m + 1 <= n => c[m + 1] = e[m + 1]}
  <1>16. 0 \in T
    BY <1>1, <1>14, <1>15
  <1>17. ASSUME NEW m \in Nat, m \in T PROVE m + 1 \in T
    <2>1. SUFFICES ASSUME (m + 1) + 1 <= n PROVE c[(m + 1) + 1] = e[(m + 1) + 1]
      OBVIOUS
    <2>2. (m + 1) + 1 \in 1 .. n /\ (m + 1) + 1 # 1 /\ ((m + 1) + 1) - 1 = m + 1 /\ m + 1 <= n
      BY <1>1, <2>1
    <2>3. c[m + 1] = e[m + 1]
      BY <1>17, <2>2
    <2>4. QED
      BY <1>14, <1>15, <2>2, <2>3
  <1> HIDE DEF T
  <1>18. ASSUME NEW i \in 1 .. n PROVE c[i] = e[i]
    <2>1. i - 1 \in Nat /\ (i - 1) + 1 = i
      BY <1>1
    <2>2. i - 1 \in T
      BY <1>16, <1>17, <2>1, Induction
    <2>3. QED
      BY <1>1, <2>1, <2>2 DEF T
  <1>19. [i \in 1 .. n |-> BreachBlock(rows, c[i])] = StructBlocks(structs)
    BY <1>11, <1>18 DEF StructBlocks
  <1>20. BreachBlocks(block) = <<DefaultBlock(head)>> \o [i \in 1 .. n |-> BreachBlock(rows, c[i])]
    <2>1. c = Chosen(n)
      BY DEF c
    <2> HIDE DEF Chosen, count
    <2>2. CutUp(n, head) = <<DefaultBlock(head)>> \o [i \in 1 .. n |-> BreachBlock(rows, c[i])]
      BY <2>1
    <2> HIDE DEF CutUp
    <2>3. QED
      BY <1>7, <1>9, <1>10, <2>2
  <1>21. QED
    BY <1>19, <1>20 DEF block, head

-----------------------------------------------------------------------------
(* The rows of an outlet series. *)

LEMMA PairsFlattened ==
  ASSUME NEW A, NEW ps \in Seq(A \X A)
  PROVE  /\ FlattenSeq(ps) \in Seq(A) /\ Len(FlattenSeq(ps)) = 2 * Len(ps) /\ Len(ps) \in Nat
         /\ \A i \in 1 .. Len(ps) : <<FlattenSeq(ps)[2 * i - 1], FlattenSeq(ps)[2 * i]>> = ps[i]
  <1> DEFINE n == Len(ps)
  <1>1. n \in Nat /\ \A i \in 1 .. n : ps[i] \in A \X A
    OBVIOUS
  <1>2. \A a, b \in A : <<a, b>> \in Seq(A) /\ Len(<<a, b>>) = 2
    OBVIOUS
  <1>3. ASSUME NEW i \in 1 .. n PROVE ps[i] \in Seq(A) /\ Len(ps[i]) = 2 /\ ps[i] = <<ps[i][1], ps[i][2]>>
    <2>1. ps[i] \in A \X A
      BY <1>1
    <2>2. PICK a \in A, b \in A : ps[i] = <<a, b>>
      BY <2>1
    <2>3. QED
      BY <1>2, <2>2
  <1>4. ps \in Seq(Seq(A))
    <2>1. \A i \in 1 .. Len(ps) : ps[i] \in Seq(A)
      BY <1>3
    <2>2. ps = [i \in 1 .. Len(ps) |-> ps[i]] /\ Len(ps) \in Nat
      OBVIOUS
    <2> DEFINE m == Len(ps)
               Q == Seq(A)
    <2> HIDE DEF m, Q
    <2>3. m \in Nat /\ ps = [i \in 1 .. m |-> ps[i]] /\ \A i \in 1 .. m : ps[i] \in Q
      BY <2>1, <2>2 DEF m, Q
    <2>4. ps \in Seq(Q)
      BY <2>3, IsASeq
    <2>5. QED
      BY <2>4 DEF Q
  <1>5. PICK f : Flattens(f, ps, A)
    BY <1>4, FlatteningOf DEF Flattens
  <1> HIDE DEF n
  <1>6. \A i \in 1 .. n : IsAt(f, ps, i)
    BY <1>4, <1>5, FlattenedAt DEF n
  <1>7. ASSUME NEW i \in 1 .. n PROVE Len(f[i]) = Len(f[i - 1]) + 2
    BY <1>3, <1>6 DEF IsAt
  <1>8. f[0] = <<>> /\ FlattenSeq(ps) = f[n]
    BY <1>5 DEF Flattens, IsFlattening, n
  <1> DEFINE T == {m \in Nat : m <= n => Len(f[m]) = 2 * m}
  <1>9. 0 \in T
    BY <1>8
  <1>10. ASSUME NEW m \in Nat, m \in T PROVE m + 1 \in T
    <2>1. SUFFICES ASSUME m + 1 <= n PROVE Len(f[m + 1]) = 2 * (m + 1)
      OBVIOUS
    <2>2. m + 1 \in 1 .. n /\ (m + 1) - 1 = m /\ m <= n
      BY <1>1, <2>1
    <2>3. Len(f[m + 1]) = Len(f[m]) + 2 /\ Len(f[m]) = 2 * m
      BY <1>7, <1>10, <2>2
    <2>4. QED
      BY <2>3
  <1> HIDE DEF T
  <1>11. \A m \in 0 .. n : Len(f[m]) = 2 * m
    <2>1. Nat \subseteq T
      BY <1>9, <1>10, Induction
    <2>2. QED
      BY <1>1, <2>1 DEF T
  <1>12. ASSUME NEW i \in 1 .. n
         PROVE  <<FlattenSeq(ps)[2 * i - 1], FlattenSeq(ps)[2 * i]>> = ps[i]
    <2>1. i - 1 \in 0 .. n /\ 2 * (i - 1) + 1 = 2 * i - 1 /\ 2 * (i - 1) + 2 = 2 * i
      BY <1>1
    <2>2. Len(f[i - 1]) = 2 * (i - 1)
      BY <1>11, <2>1
    <2>3. \A j \in 1 .. 2 : FlattenSeq(ps)[2 * (i - 1) + j] = ps[i][j]
      <3>1. \A j \in 1 .. Len(ps[i]) : FlattenSeq(ps)[Len(f[i - 1]) + j] = ps[i][j]
        BY <1>6 DEF IsAt
      <3>2. Len(ps[i]) = 2
        BY <1>3
      <3>3. QED
        BY <2>2, <3>1, <3>2
    <2>4. FlattenSeq(ps)[2 * (i - 1) + 1] = ps[i][1] /\ FlattenSeq(ps)[2 * (i - 1) + 2] = ps[i][2]
      BY <2>3
    <2>5. FlattenSeq(ps)[2 * i - 1] = ps[i][1] /\ FlattenSeq(ps)[2 * i] = ps[i][2]
      BY <2>1, <2>4
    <2>6. QED
      BY <1>3, <2>5
  <1>13. Len(FlattenSeq(ps)) = 2 * n
    BY <1>1, <1>8, <1>11
  <1>14. QED
    BY <1>1, <1>4, <1>12, <1>13, FlattenIsSeq DEF n

FiveCells(series, r) ==
  FlattenSeq(SubSeq(series, 5 * r - 4, IF 5 * r < Len(series) THEN 5 * r ELSE Len(series)))

\* Where a pair of a series is: which row, and how many cells come before it.
RowOf(p) == (p - 1) \div 5 + 1
CellsBefore(p) == 2 * ((p - 1) % 5)

LEMMA FiveCellsAre ==
  ASSUME NEW series \in Seq(Cells \X Cells), NEW r \in 1 .. Fives(Len(series))
  PROVE  /\ FiveCells(series, r) \in Seq(Cells) /\ Len(FiveCells(series, r)) \in 2 .. 10
         /\ \A p \in 1 .. Len(series) : RowOf(p) = r =>
              /\ CellsBefore(p) + 2 <= Len(FiveCells(series, r))
              /\ <<FiveCells(series, r)[CellsBefore(p) + 1], FiveCells(series, r)[CellsBefore(p) + 2]>> = series[p]
  <1> DEFINE n == Len(series)
             C == Cells \X Cells
             lo == 5 * r - 4
             hi == IF 5 * r < n THEN 5 * r ELSE n
             five == SubSeq(series, lo, hi)
             m == hi - lo + 1
             cells == FiveCells(series, r)
  <1>1. n \in Nat /\ \A i \in 1 .. n : series[i] \in C
    OBVIOUS
  <1>2. Fives(n) \in Nat /\ 5 * (Fives(n) - 1) < n
    BY <1>1, FivesAre
  <1> HIDE DEF C
  <1>3. r \in Nat /\ r >= 1 /\ 5 * (r - 1) < n
    <2>1. r <= Fives(n) /\ r \in Nat /\ r >= 1
      BY <1>2
    <2>2. QED
      BY <1>1, <1>2, <2>1
  <1> HIDE DEF n
  <1>4. lo \in Nat /\ hi \in Nat /\ 1 <= lo /\ lo <= hi /\ hi <= n /\ m \in 1 .. 5
    BY <1>1, <1>3
  <1>5. \A i \in lo .. hi : series[i] \in C
    BY <1>1, <1>4
  <1> HIDE DEF lo, hi
  <1>6. /\ five \in Seq(C) /\ Len(five) = m
        /\ \A i \in 1 .. m : five[i] = series[lo + i - 1]
    BY <1>4, <1>5, SubSeqProperties
  <1>7. cells = FlattenSeq(five)
    BY DEF FiveCells, n, lo, hi
  <1> HIDE DEF cells, five, m
  <1>8. /\ cells \in Seq(Cells) /\ Len(cells) = 2 * m
        /\ \A i \in 1 .. m : <<cells[2 * i - 1], cells[2 * i]>> = five[i]
    BY <1>6, <1>7, PairsFlattened DEF C
  <1>9. ASSUME NEW p \in 1 .. n, RowOf(p) = r
        PROVE  /\ CellsBefore(p) + 2 <= Len(cells)
               /\ <<cells[CellsBefore(p) + 1], cells[CellsBefore(p) + 2]>> = series[p]
    <2> DEFINE i == ((p - 1) % 5) + 1
               q == (p - 1) \div 5
    <2>1. p - 1 \in Nat /\ p - 1 = 5 * q + ((p - 1) % 5) /\ (p - 1) % 5 \in 0 .. 4 /\ q \in Nat
      BY <1>1
    <2>2. q + 1 = r
      BY <1>9 DEF RowOf
    <2>3. CellsBefore(p) + 1 = 2 * i - 1 /\ CellsBefore(p) + 2 = 2 * i
      BY <2>1 DEF CellsBefore
    <2>4. i \in 1 .. 5 /\ p = lo + i - 1
      BY <2>1, <2>2 DEF lo
    <2> HIDE DEF i, q
    <2>5. i \in 1 .. m
      <3>1. p <= n
        BY <1>1
      <3>2. hi = 5 * r \/ hi = n
        BY DEF hi
      <3>3. CASE hi = n
        BY <1>1, <1>4, <2>4, <3>1, <3>3 DEF m
      <3>4. CASE hi = 5 * r
        BY <1>3, <1>4, <2>4, <3>4 DEF m, lo
      <3>5. QED
        BY <3>2, <3>3, <3>4
    <2>6. <<cells[2 * i - 1], cells[2 * i]>> = series[p]
      BY <1>6, <1>8, <2>4, <2>5
    <2>7. 2 * i <= Len(cells)
      BY <1>4, <1>8, <2>5 DEF m
    <2>8. QED
      BY <2>3, <2>6, <2>7
  <1>10. Len(cells) \in 2 .. 10
    BY <1>4, <1>8 DEF m
  <1>11. QED
    BY <1>8, <1>9, <1>10 DEF cells, n

SeriesRows(series) == [r \in 1 .. Fives(Len(series)) |-> Row(FiveCells(series, r))]

LEMMA SeriesRowsAre ==
  ASSUME NEW series \in Seq(Cells \X Cells)
  PROVE  /\ SeriesRows(series) \in Seq(CellRows) /\ Len(SeriesRows(series)) = Fives(Len(series))
         /\ Len(series) \in Nat /\ Fives(Len(series)) \in Nat
         /\ \A p \in 1 .. Len(series) : PairAt(SeriesRows(series), p) = series[p]
  <1> DEFINE n == Len(series)
             k == Fives(n)
             rows == SeriesRows(series)
  <1>1. n \in Nat /\ k \in Nat /\ 5 * k >= n /\ 5 * (k - 1) < n
    BY FivesAre
  <1>2. ASSUME NEW r \in 1 .. k
        PROVE  FiveCells(series, r) \in Seq(Cells) /\ Row(FiveCells(series, r)) \in CellRows
    <2>1. FiveCells(series, r) \in Seq(Cells) /\ Len(FiveCells(series, r)) \in 2 .. 10
      BY FiveCellsAre
    <2>2. FiveCells(series, r) \in Seq(Int)
      BY <2>1, ReformatAssumption, SeqMonotonic
    <2> DEFINE cells == FiveCells(series, r)
    <2> HIDE DEF cells
    <2>3. cells \in Seq(Int) /\ Len(cells) \in 1 .. 10
      BY <2>1, <2>2 DEF cells
    <2>4. Row(cells) \in CellRows
      BY <2>3 DEF CellRows, RowCells, PerRow
    <2>5. QED
      BY <2>1, <2>4 DEF cells
  <1>3. rows = [r \in 1 .. k |-> Row(FiveCells(series, r))]
    BY DEF SeriesRows
  <1> HIDE DEF rows, k, n
  <1>4. rows \in Seq(CellRows) /\ Len(rows) = k /\ DOMAIN rows = 1 .. k
    BY <1>1, <1>2, <1>3
  <1>5. ASSUME NEW p \in 1 .. n PROVE PairAt(rows, p) = series[p]
    <2> DEFINE r == (p - 1) \div 5 + 1
               c == 2 * ((p - 1) % 5)
               cells == FiveCells(series, r)
    <2>1. r \in 1 .. k
      BY <1>1
    <2>2. rows[r].cells = cells
      BY <1>3, <2>1 DEF Row
    <2>3. c + 2 <= Len(cells) /\ <<cells[c + 1], cells[c + 2]>> = series[p]
      <3>1. RowOf(p) = r /\ CellsBefore(p) = c
        BY DEF RowOf, CellsBefore
      <3>2. r \in 1 .. Fives(Len(series)) /\ p \in 1 .. Len(series)
        BY <2>1 DEF k, n
      <3> HIDE DEF r, c
      <3>3. QED
        BY <3>1, <3>2, FiveCellsAre
    <2>4. PairAt(rows, p) =
            IF r \in DOMAIN rows /\ c + 2 <= Len(rows[r].cells)
            THEN <<rows[r].cells[c + 1], rows[r].cells[c + 2]>> ELSE <<0, 0>>
      BY DEF PairAt, PerRow
    <2> HIDE DEF r, c, cells
    <2>5. QED
      BY <1>4, <2>1, <2>2, <2>3, <2>4
  <1>6. QED
    BY <1>1, <1>4, <1>5 DEF rows, k, n

LEMMA PairRowsAre ==
  ASSUME NEW series \in Seq(Cells \X Cells)
  PROVE  PairRows(series) = IF series = <<>> THEN <<Blank>> ELSE SeriesRows(series)
  <1> DEFINE n == Len(series)
  <1>1. n \in Nat /\ StoredRows(n) = Fives(n)
    BY FivesAre
  <1>2. \A r \in 1 .. Fives(n) :
          /\ 5 * (r - 1) + 1 = 5 * r - 4
          /\ SmallerOf(5 * r, n) = IF 5 * r < n THEN 5 * r ELSE n
    BY DEF SmallerOf
  <1>3. [r \in 1 .. StoredRows(n) |->
          Row(FlattenSeq(SubSeq(series, 5 * (r - 1) + 1, SmallerOf(5 * r, n))))] = SeriesRows(series)
    BY <1>1, <1>2 DEF SeriesRows, FiveCells
  <1>4. QED
    BY <1>3 DEF PairRows, PerRow

-----------------------------------------------------------------------------
(* The rows of an outlet. *)

Outlet == [name : Labels, series : Seq(Cells \X Cells), emptyLine : BOOLEAN]

OutletHead(o) == <<Header("outlet", o.name), Row(<<Len(o.series)>>)>>
Gap(o) == IF o.emptyLine THEN <<Blank>> ELSE <<>>
OutletEnd == <<EndOfFlow, Ordinates>>

LEMMA OutletParts ==
  ASSUME NEW o \in Outlet
  PROVE  /\ o.series \in Seq(Cells \X Cells) /\ o.name \in Labels /\ o.emptyLine \in BOOLEAN
         /\ OutletHead(o) \in Seq(LaidOut) /\ Len(OutletHead(o)) = 2
         /\ OutletHead(o)[1] = Header("outlet", o.name)
         /\ OutletHead(o)[2] = Row(<<Len(o.series)>>)
         /\ SeriesRows(o.series) \in Seq(LaidOut)
         /\ OutletEnd \in Seq(LaidOut) /\ Len(OutletEnd) = 2
         /\ OutletEnd[1] = EndOfFlow /\ OutletEnd[2] = Ordinates
         /\ OutletRows(o) = ((OutletHead(o) \o SeriesRows(o.series)) \o Gap(o)) \o OutletEnd
  <1> DEFINE n == Len(o.series)
             h == Header("outlet", o.name)
             r == Row(<<n>>)
             L == LaidOut
  <1>1. o.series \in Seq(Cells \X Cells) /\ o.name \in Labels /\ o.emptyLine \in BOOLEAN
    BY DEF Outlet
  <1>2. n \in Nat /\ SeriesRows(o.series) \in Seq(CellRows)
    BY <1>1, SeriesRowsAre
  <1>3. CellRows \subseteq L /\ Heads \subseteq L /\ EndOfFlow \in L
    BY DEF LaidOut
  <1>4. h \in L
    BY <1>1, <1>3 DEF Heads
  <1>5. r \in L /\ Ordinates \in L
    <2>1. n \in Int /\ 1 \in Int /\ 0 \in Int
      BY <1>2
    <2>2. r \in CellRows /\ Ordinates \in CellRows
      BY <2>1, CellRowIs DEF Ordinates
    <2>3. QED
      BY <1>3, <2>2
  <1>6. SeriesRows(o.series) \in Seq(L)
    BY <1>2, <1>3, SeqMonotonic
  <1>7. OutletRows(o) = ((<<h, r>> \o SeriesRows(o.series)) \o Gap(o)) \o OutletEnd
    BY DEF OutletRows, SeriesRows, FiveCells, Fives, Gap, OutletEnd
  <1>8. OutletHead(o) = <<h, r>>
    BY DEF OutletHead
  <1> HIDE DEF h, r, L
  <1>9. <<h, r>> \in Seq(L) /\ Len(<<h, r>>) = 2 /\ <<h, r>>[1] = h /\ <<h, r>>[2] = r
    BY <1>4, <1>5
  <1>10. OutletEnd \in Seq(L) /\ Len(OutletEnd) = 2 /\ OutletEnd[1] = EndOfFlow /\ OutletEnd[2] = Ordinates
    BY <1>3, <1>5 DEF OutletEnd
  <1>11. QED
    BY <1>1, <1>6, <1>7, <1>8, <1>9, <1>10 DEF h, r, L, n

\* Without an empty line.
LEMMA OutletLaidOut ==
  ASSUME NEW o \in Outlet, ~o.emptyLine
  PROVE  /\ SeriesRows(o.series) \o OutletEnd \in Seq(LaidOut)
         /\ Joins(SeriesRows(o.series) \o OutletEnd, SeriesRows(o.series), OutletEnd)
         /\ OutletRows(o) \in Seq(LaidOut)
         /\ Joins(OutletRows(o), OutletHead(o), SeriesRows(o.series) \o OutletEnd)
         /\ OutletRows(o) = OutletHead(o) \o (SeriesRows(o.series) \o OutletEnd)
  <1> DEFINE h == OutletHead(o)
             d == SeriesRows(o.series)
             e == OutletEnd
             L == LaidOut
  <1>1. h \in Seq(L) /\ d \in Seq(L) /\ e \in Seq(L) /\ OutletRows(o) = ((h \o d) \o Gap(o)) \o e
    BY OutletParts
  <1>2. Gap(o) = <<>>
    BY DEF Gap
  <1> HIDE DEF h, d, e, L
  <1>3. h \o d \in Seq(L) /\ d \o e \in Seq(L) /\ Joins(d \o e, d, e)
    BY <1>1, Joined
  <1>4. (h \o d) \o <<>> = h \o d
    BY <1>3, ConcatEmptySeq
  <1>5. (h \o d) \o e = h \o (d \o e)
    BY <1>1, Associative, SMTT(20)
  <1> DEFINE t == d \o e
  <1> HIDE DEF t
  <1>6. h \o t \in Seq(L) /\ Joins(h \o t, h, t)
    <2>1. t \in Seq(L)
      BY <1>3 DEF t
    <2>2. QED
      BY <1>1, <2>1, Joined
  <1>7. OutletRows(o) = h \o t
    BY <1>1, <1>2, <1>4, <1>5 DEF t
  <1>8. QED
    BY <1>3, <1>6, <1>7 DEF h, d, e, L, t

OutletBlockOf(o) ==
  [k |-> "outlet", name |-> o.name, count |-> Len(o.series), series |-> o.series,
   extra |-> OutletEnd]

\* The reader takes a series out of its rows.
LEMMA OutletIsParsed ==
  ASSUME NEW o \in Outlet, ~o.emptyLine
  PROVE  OutletBlock(OutletRows(o)) = OutletBlockOf(o)
  <1> DEFINE n == Len(o.series)
             k == Fives(n)
             d == SeriesRows(o.series)
             e == OutletEnd
             block == OutletRows(o)
             rows == SubSeq(block, 3, Len(block))
             I == {i \in 1 .. Len(rows) : rows[i] = EndOfFlow}
             flow == SelectInSeq(rows, LAMBDA row : row = EndOfFlow)
             data(f) == IF f = 0 THEN rows ELSE SubSeq(rows, 1, f - 1)
             extra(f) == IF f = 0 THEN <<>> ELSE SubSeq(rows, f, Len(rows))
             count == block[2].cells[1]
             series(c, f) == [p \in 1 .. c |-> PairAt(data(f), p)]
  <1>1. /\ d \in Seq(LaidOut) /\ Len(d) = k /\ k \in Nat /\ n \in Nat
        /\ \A i \in 1 .. k : d[i] \in CellRows
        /\ \A p \in 1 .. n : PairAt(d, p) = o.series[p]
        /\ o.series \in Seq(Cells \X Cells)
    <2>1. o.series \in Seq(Cells \X Cells) /\ d \in Seq(LaidOut)
      BY OutletParts
    <2>2. /\ d \in Seq(CellRows) /\ Len(d) = k /\ k \in Nat /\ n \in Nat
          /\ \A p \in 1 .. n : PairAt(d, p) = o.series[p]
      BY <2>1, SeriesRowsAre
    <2>3. \A i \in 1 .. k : d[i] \in CellRows
      BY <2>2, ElementOfSeq
    <2>4. QED
      BY <2>1, <2>2, <2>3
  <1>2. /\ OutletHead(o) \in Seq(LaidOut) /\ Len(OutletHead(o)) = 2
        /\ OutletHead(o)[1] = Header("outlet", o.name) /\ OutletHead(o)[2] = Row(<<n>>)
        /\ e \in Seq(LaidOut) /\ Len(e) = 2 /\ e[1] = EndOfFlow /\ e[2] = Ordinates
    BY OutletParts
  <1>3. /\ d \o e \in Seq(LaidOut) /\ Joins(d \o e, d, e)
        /\ block \in Seq(LaidOut) /\ Joins(block, OutletHead(o), d \o e)
    BY OutletLaidOut
  <1>4. OutletBlock(block) =
          [k |-> "outlet", name |-> block[1].name, count |-> count,
           series |-> series(count, flow), extra |-> extra(flow)]
    BY DEF OutletBlock
  <1>5. flow = IF I # {} THEN Min(I) ELSE 0
    BY DEF SelectInSeq
  <1> HIDE DEF block, e, d, k, flow
  <1>6. rows = d \o e
    <2> DEFINE h == OutletHead(o)
               t == d \o e
    <2>1. h \in Seq(LaidOut) /\ t \in Seq(LaidOut) /\ block \in Seq(LaidOut) /\ Joins(block, h, t) /\ Len(h) = 2
      BY <1>2, <1>3
    <2> HIDE DEF h, t
    <2>2. SubSeq(block, Len(h) + 1, Len(block)) = t
      BY <2>1, PartsOf
    <2>3. Len(h) + 1 = 3
      BY <2>1
    <2>4. QED
      BY <2>2, <2>3 DEF t
  <1>7. block[1] = Header("outlet", o.name) /\ block[2] = Row(<<n>>)
    <2>1. \A i \in 1 .. 2 : block[i] = OutletHead(o)[i]
      BY <1>2, <1>3 DEF Joins
    <2>2. QED
      BY <1>2, <2>1
  <1>8. rows \in Seq(LaidOut) /\ Joins(rows, d, e)
    BY <1>3, <1>6
  <1> HIDE DEF rows
  <1>9. /\ Len(rows) = k + 2 /\ \A i \in 1 .. k : rows[i] = d[i]
        /\ rows[k + 1] = EndOfFlow /\ rows[k + 2] = Ordinates
    <2>1. Len(rows) = k + 2 /\ \A i \in 1 .. k : rows[i] = d[i]
      BY <1>1, <1>2, <1>8 DEF Joins
    <2>2. /\ k + 1 \in 1 .. k + 2 /\ k + 1 > k /\ (k + 1) - k = 1
          /\ k + 2 \in 1 .. k + 2 /\ k + 2 > k /\ (k + 2) - k = 2
      BY <1>1
    <2>3. \A i \in 1 .. k + 2 : i > k => rows[i] = e[i - k]
      BY <1>1, <1>8, <2>1 DEF Joins
    <2>4. QED
      BY <1>2, <2>1, <2>2, <2>3
  <1>10. I = {k + 1}
    <2>1. \A r \in CellRows : r # EndOfFlow
      BY RowsAre
    <2>2. Ordinates # EndOfFlow
      <3>1. 1 \in Int /\ 0 \in Int
        OBVIOUS
      <3>2. Ordinates \in CellRows
        BY <3>1, CellRowIs DEF Ordinates
      <3>3. QED
        BY <2>1, <3>2
    <2>3. \A i \in 1 .. k : rows[i] # EndOfFlow
      BY <1>1, <1>9, <2>1
    <2>4. \A i \in 1 .. k + 2 : i \in 1 .. k \/ i = k + 1 \/ i = k + 2
      BY <1>1
    <2>5. k + 1 \in 1 .. k + 2
      BY <1>1
    <2>6. QED
      BY <1>9, <2>2, <2>3, <2>4, <2>5
  <1>11. flow = k + 1
    <2>1. Min(I) \in I
      <3>1. I \in SUBSET Nat /\ I # {}
        <4> HIDE DEF I
        <4>1. k + 1 \in Nat
          BY <1>1
        <4>2. QED
          BY <1>10, <4>1
      <3> HIDE DEF I
      <3>2. QED
        BY <3>1, MinIs
    <2> HIDE DEF I
    <2>2. QED
      BY <1>5, <1>10, <2>1
  <1>12. count = n
    BY <1>7 DEF Row
  <1>13. k + 1 # 0 /\ (k + 1) - 1 = k
    BY <1>1
  <1>14. SubSeq(rows, 1, k) = d /\ SubSeq(rows, k + 1, Len(rows)) = e
    BY <1>1, <1>2, <1>8, PartsOf
  <1>15. data(k + 1) = d /\ extra(k + 1) = e
    BY <1>13, <1>14
  <1> HIDE DEF data, extra, n, count
  <1>16. series(n, k + 1) = o.series
    <2>1. series(n, k + 1) = [p \in 1 .. n |-> o.series[p]]
      BY <1>1, <1>15
    <2>2. o.series = [p \in 1 .. n |-> o.series[p]]
      BY <1>1 DEF n
    <2>3. QED
      BY <2>1, <2>2
  <1> HIDE DEF series
  <1>17. block[1].name = o.name
    BY <1>7 DEF Header
  <1>18. OutletBlock(block) =
           [k |-> "outlet", name |-> o.name, count |-> n, series |-> o.series, extra |-> e]
    BY <1>4, <1>11, <1>12, <1>15, <1>16, <1>17
  <1>19. QED
    BY <1>18 DEF OutletBlockOf, block, e, n

-----------------------------------------------------------------------------
(* A whole file. *)

Wants ==
  [structs : Seq(Struct), outlets : Seq(Outlet),
   skip : {"no", "next row", "after an empty line"}]

Opening == <<Header("version", ""), Ordinates>>
OutletSeqs(outlets) == [i \in 1 .. Len(outlets) |-> OutletRows(outlets[i])]
SkipPart(skip) ==
  IF skip = "no" THEN <<>>
  ELSE IF skip = "next row" THEN SkipDssRows ELSE <<Blank>> \o SkipDssRows

LEMMA WantIs ==
  ASSUME NEW w \in Wants
  PROVE  /\ w.structs \in Seq(Struct) /\ w.outlets \in Seq(Outlet)
         /\ w.skip \in {"no", "next row", "after an empty line"}
         /\ Len(w.structs) \in Nat /\ DOMAIN w.structs = 1 .. Len(w.structs)
         /\ \A i \in 1 .. Len(w.structs) : w.structs[i] \in Struct
         /\ Len(w.outlets) \in Nat /\ DOMAIN w.outlets = 1 .. Len(w.outlets)
         /\ \A i \in 1 .. Len(w.outlets) : w.outlets[i] \in Outlet
  <1>1. /\ w.structs \in Seq(Struct) /\ w.outlets \in Seq(Outlet)
        /\ w.skip \in {"no", "next row", "after an empty line"}
    BY DEF Wants
  <1> DEFINE s == w.structs
             o == w.outlets
             E == Struct
             F == Outlet
  <1> HIDE DEF s, o, E, F
  <1>2. s \in Seq(E) /\ o \in Seq(F)
    BY <1>1 DEF s, o, E, F
  <1>3. /\ Len(s) \in Nat /\ DOMAIN s = 1 .. Len(s) /\ \A i \in 1 .. Len(s) : s[i] \in E
        /\ Len(o) \in Nat /\ DOMAIN o = 1 .. Len(o) /\ \A i \in 1 .. Len(o) : o[i] \in F
    BY <1>2
  <1>4. QED
    BY <1>1, <1>3 DEF s, o, E, F

LEMMA FixedParts ==
  /\ LaidOut \subseteq Rows
  /\ Header("version", "") \in LaidOut /\ Ordinates \in LaidOut /\ Ordinates \in CellRows
  /\ Opening \in Seq(LaidOut) /\ Len(Opening) = 2 /\ Opening[1] = Header("version", "") /\ Opening[2] = Ordinates
  /\ Header("extra", "") \in Rows /\ Row(<<1>>) \in CellRows /\ Row(<<1>>) \in Rows
  /\ Header("skip", "") \in Rows /\ Blank \in Rows
  <1>1. LaidOut \subseteq Rows
    BY DEF Rows
  <1>2. Row(<<1>>) \in CellRows /\ Ordinates \in CellRows
    <2>1. 1 \in Int /\ 0 \in Int
      OBVIOUS
    <2>2. QED
      BY <2>1, CellRowIs DEF Ordinates
  <1>3. Header("version", "") \in LaidOut /\ Ordinates \in LaidOut /\ Row(<<1>>) \in Rows
    BY <1>1, <1>2 DEF LaidOut, Heads
  <1>4. Header("extra", "") \in Rows /\ Header("skip", "") \in Rows /\ Blank \in Rows
    BY DEF Rows, SkipHeads
  <1>5. /\ Opening \in Seq(LaidOut) /\ Len(Opening) = 2
        /\ Opening[1] = Header("version", "") /\ Opening[2] = Ordinates
    BY <1>3, Pairs DEF Opening
  <1>6. QED
    BY <1>1, <1>2, <1>3, <1>4, <1>5

LEMMA SkipRowsAre ==
  /\ SkipDssRows \in Seq(Rows) /\ Len(SkipDssRows) = 3
  /\ SkipDssRows[1] = Header("extra", "") /\ SkipDssRows[2] = Row(<<1>>) /\ SkipDssRows[3] = Header("skip", "")
  /\ <<Blank>> \in Seq(Rows)
  /\ \A skip : SkipPart(skip) \in Seq(Rows)
  <1> DEFINE a == Header("extra", "")
             b == Row(<<1>>)
             c == Header("skip", "")
             d == SkipDssRows
             e == <<Blank>>
             S == Rows
  <1>1. a \in S /\ b \in S /\ c \in S /\ Blank \in S /\ d = <<a, b, c>>
    BY FixedParts DEF SkipDssRows
  <1>2. e \in Seq(S)
    <2> HIDE DEF S
    <2>1. QED
      BY <1>1, Pairs
  <1> HIDE DEF a, b, c, S, e
  <1>3. /\ <<a, b, c>> \in Seq(S) /\ Len(<<a, b, c>>) = 3
        /\ <<a, b, c>>[1] = a /\ <<a, b, c>>[2] = b /\ <<a, b, c>>[3] = c
    BY <1>1
  <1>4. /\ d \in Seq(S) /\ Len(d) = 3 /\ d[1] = a /\ d[2] = b /\ d[3] = c
    BY <1>1, <1>3
  <1> HIDE DEF d
  <1>5. e \o d \in Seq(S)
    BY <1>2, <1>4, Joined
  <1>6. \A skip : (IF skip = "no" THEN <<>> ELSE IF skip = "next row" THEN d ELSE e \o d) \in Seq(S)
    <2> DEFINE none == <<>>
    <2>1. none \in Seq(S)
      OBVIOUS
    <2> HIDE DEF none
    <2>2. \A skip : (IF skip = "no" THEN none ELSE IF skip = "next row" THEN d ELSE e \o d) \in Seq(S)
      BY <1>4, <1>5, <2>1
    <2>3. QED
      BY <2>2 DEF none
  <1>7. QED
    BY <1>2, <1>4, <1>6 DEF a, b, c, d, e, S, SkipPart

LEMMA OutletInRows ==
  ASSUME NEW o \in Outlet
  PROVE  OutletRows(o) \in Seq(Rows)
  <1> DEFINE h == OutletHead(o)
             d == SeriesRows(o.series)
             g == Gap(o)
             e == OutletEnd
             S == Rows
  <1>1. /\ h \in Seq(LaidOut) /\ d \in Seq(LaidOut) /\ e \in Seq(LaidOut)
        /\ OutletRows(o) = ((h \o d) \o g) \o e
    BY OutletParts
  <1>2. h \in Seq(S) /\ d \in Seq(S) /\ e \in Seq(S)
    <2> HIDE DEF h, d, e, S
    <2>1. LaidOut \subseteq S
      BY FixedParts DEF S
    <2>2. QED
      BY <1>1, <2>1, SeqMonotonic
  <1>3. g \in Seq(S)
    <2>1. <<Blank>> \in Seq(S)
      BY SkipRowsAre
    <2> HIDE DEF S
    <2>2. QED
      BY <2>1 DEF Gap
  <1> HIDE DEF h, d, g, e, S
  <1>4. h \o d \in Seq(S)
    BY <1>2, Joined
  <1>5. (h \o d) \o g \in Seq(S)
    BY <1>3, <1>4, Joined
  <1>6. ((h \o d) \o g) \o e \in Seq(S)
    BY <1>2, <1>5, Joined
  <1>7. QED
    BY <1>1, <1>6 DEF S

LEMMA OutletSeqsAre ==
  ASSUME NEW outlets \in Seq(Outlet)
  PROVE  /\ OutletSeqs(outlets) \in Seq(Seq(Rows))
         /\ Len(OutletSeqs(outlets)) = Len(outlets) /\ Len(outlets) \in Nat
         /\ \A i \in 1 .. Len(outlets) :
              outlets[i] \in Outlet /\ OutletSeqs(outlets)[i] = OutletRows(outlets[i])
         /\ FlattenSeq(OutletSeqs(outlets)) \in Seq(Rows)
  <1>1. Len(outlets) \in Nat /\ \A i \in 1 .. Len(outlets) : outlets[i] \in Outlet
    OBVIOUS
  <1>2. \A i \in 1 .. Len(outlets) : OutletRows(outlets[i]) \in Seq(Rows)
    BY <1>1, OutletInRows
  <1>3. /\ OutletSeqs(outlets) \in Seq(Seq(Rows)) /\ Len(OutletSeqs(outlets)) = Len(outlets)
        /\ \A i \in 1 .. Len(outlets) : OutletSeqs(outlets)[i] = OutletRows(outlets[i])
    BY <1>1, <1>2 DEF OutletSeqs
  <1>4. FlattenSeq(OutletSeqs(outlets)) \in Seq(Rows)
    BY <1>3, FlattenIsSeq
  <1>5. QED
    BY <1>1, <1>3, <1>4

\* What RAS lays out, part by part.
LEMMA RenderParts ==
  ASSUME NEW w \in Wants
  PROVE  /\ Render(w) = ((Opening \o BreachRows(w.structs)) \o FlattenSeq(OutletSeqs(w.outlets)))
                           \o SkipPart(w.skip)
         /\ Opening \in Seq(Rows) /\ BreachRows(w.structs) \in Seq(Rows)
         /\ FlattenSeq(OutletSeqs(w.outlets)) \in Seq(Rows) /\ SkipPart(w.skip) \in Seq(Rows)
         /\ Render(w) \in Seq(Rows)
  <1> DEFINE S == Rows
             f == Opening
             h == BreachHead(w.structs)
             b == FlattenSeq(StructSeqs(w.structs))
             o == FlattenSeq(OutletSeqs(w.outlets))
             k == SkipPart(w.skip)
             four == <<Header("version", ""), Ordinates, Header("breach", ""), Row(<<Len(w.structs)>>)>>
  <1>1. w.structs \in Seq(Struct) /\ w.outlets \in Seq(Outlet) /\ w.skip \in {"no", "next row", "after an empty line"}
        /\ DOMAIN w.structs = 1 .. Len(w.structs) /\ DOMAIN w.outlets = 1 .. Len(w.outlets)
    BY WantIs
  <1>2. /\ f \in Seq(LaidOut) /\ h \in Seq(LaidOut) /\ BreachRows(w.structs) \in Seq(LaidOut)
        /\ b \in Seq(CellRows) /\ o \in Seq(S) /\ k \in Seq(S)
    BY <1>1, FixedParts, BreachHeadIs, StructSeqsAre, OutletSeqsAre, SkipRowsAre
  <1>3. f \in Seq(S) /\ h \in Seq(S) /\ BreachRows(w.structs) \in Seq(S) /\ b \in Seq(S)
    <2> HIDE DEF f, h, b, S
    <2>1. LaidOut \subseteq S /\ CellRows \subseteq S
      BY FixedParts DEF S, LaidOut
    <2>2. QED
      BY <1>2, <2>1, SeqMonotonic
  <1>4. four = f \o h
    <2> DEFINE a1 == Header("version", "")
               a2 == Ordinates
               a3 == Header("breach", "")
               a4 == Row(<<Len(w.structs)>>)
    <2>1. f = <<a1, a2>> /\ h = <<a3, a4>> /\ four = <<a1, a2, a3, a4>>
      BY DEF Opening, BreachHead
    <2> HIDE DEF a1, a2, a3, a4
    <2>2. <<a1, a2>> \o <<a3, a4>> = <<a1, a2, a3, a4>>
      <3> DEFINE B == {a1, a2, a3, a4}
      <3>1. a1 \in B /\ a2 \in B /\ a3 \in B /\ a4 \in B
        OBVIOUS
      <3> HIDE DEF B
      <3>2. QED
        BY <3>1, PairsJoined
    <2>3. QED
      BY <2>1, <2>2
  <1>5. Render(w) = ((four \o b) \o o) \o k
    <2>1. /\ [i \in DOMAIN w.structs |-> StructRows(w.structs[i])] = StructSeqs(w.structs)
          /\ [i \in DOMAIN w.outlets |-> OutletRows(w.outlets[i])] = OutletSeqs(w.outlets)
      BY <1>1 DEF StructSeqs, OutletSeqs
    <2>2. (CASE w.skip = "no" -> <<>>
             [] w.skip = "next row" -> SkipDssRows
             [] w.skip = "after an empty line" -> <<Blank>> \o SkipDssRows) = k
      BY <1>1 DEF SkipPart
    <2> HIDE DEF k
    <2>3. QED
      BY <2>1, <2>2 DEF Render
  <1> HIDE DEF S, f, h, b, o, k, four
  <1>6. (f \o h) \o b = f \o (h \o b)
    BY <1>3, Associative, SMTT(20)
  <1>7. BreachRows(w.structs) = h \o b
    BY DEF BreachRows, h, b
  <1> DEFINE r == BreachRows(w.structs)
  <1> HIDE DEF r
  <1>8. r \in Seq(S) /\ Render(w) = ((f \o r) \o o) \o k
    BY <1>3, <1>4, <1>5, <1>6, <1>7 DEF r
  <1>9. f \o r \in Seq(S)
    BY <1>3, <1>8, Joined
  <1>10. (f \o r) \o o \in Seq(S)
    BY <1>2, <1>9, Joined
  <1>11. ((f \o r) \o o) \o k \in Seq(S)
    BY <1>2, <1>10, Joined
  <1>12. QED
    BY <1>2, <1>3, <1>8, <1>11 DEF S, f, o, k, r

-----------------------------------------------------------------------------
(* Reading a file that has no empty line. *)

Clean(w) ==
  /\ w.skip # "after an empty line"
  /\ \A i \in 1 .. Len(w.outlets) : ~w.outlets[i].emptyLine

ExtraRows == <<Header("extra", ""), Row(<<1>>)>>
SkipRow == <<Header("skip", "")>>
SkipSeqs(skip) == IF skip = "no" THEN <<>> ELSE <<ExtraRows, SkipRow>>

\* The rows of a file, block by block.
RawBlocks(w) ==
  (<<Opening, BreachRows(w.structs)>> \o OutletSeqs(w.outlets)) \o SkipSeqs(w.skip)

HeadedBlocks == {block \in Seq(Rows) : Headed(block)}

LEMMA HeadedJoin ==
  ASSUME NEW S, NEW h \in Seq(S), NEW t \in Seq(S), NEW u, Joins(u, h, t),
         Len(h) = 2, h[1].k = "header", h[2].k # "header",
         \A j \in 1 .. Len(t) : t[j].k # "header"
  PROVE  Headed(u)
  <1>1. /\ Len(t) \in Nat /\ Len(u) = 2 + Len(t) /\ \A i \in 1 .. 2 : u[i] = h[i]
        /\ \A i \in 1 .. Len(u) : i > 2 => u[i] = t[i - 2] /\ i - 2 \in 1 .. Len(t)
    BY DEF Joins
  <1>2. u # <<>>
    BY <1>1
  <1>3. u[1].k = "header"
    BY <1>1
  <1>4. ASSUME NEW j \in 2 .. Len(u) PROVE u[j].k # "header"
    <2>1. CASE j = 2
      BY <1>1, <2>1
    <2>2. CASE j > 2
      <3>1. j \in 1 .. Len(u)
        BY <1>1
      <3>2. u[j] = t[j - 2] /\ j - 2 \in 1 .. Len(t)
        BY <1>1, <2>2, <3>1
      <3>3. QED
        BY <3>2
    <2>3. QED
      BY <2>1, <2>2
  <1>5. QED
    BY <1>2, <1>3, <1>4 DEF Headed

LEMMA HeadersAre ==
  /\ \A of, name : Header(of, name).k = "header" /\ Header(of, name).of = of /\ Header(of, name).name = name
  /\ \A cells : Row(cells).k = "row" /\ Row(cells).cells = cells
  BY DEF Header, Row

LEMMA OpeningIsHeaded ==
  /\ Opening \in HeadedBlocks
  /\ ExtraRows \in HeadedBlocks /\ ExtraRows[1] = Header("extra", "")
  /\ SkipRow \in HeadedBlocks /\ SkipRow[1] = Header("skip", "")
  <1> DEFINE S == Rows
             a == Header("version", "")
             c == Header("extra", "")
             d == Header("skip", "")
             r == Row(<<1>>)
  <1>1. /\ Opening \in Seq(LaidOut) /\ LaidOut \subseteq S
        /\ Len(Opening) = 2 /\ Opening[1] = a /\ Opening[2] = Ordinates
        /\ c \in S /\ d \in S /\ r \in S
    BY FixedParts
  <1>2. a.k = "header" /\ c.k = "header" /\ d.k = "header" /\ r.k = "row" /\ Ordinates.k = "row"
    BY HeadersAre DEF Ordinates
  <1> HIDE DEF S, a, c, d, r
  <1>3. ASSUME NEW x \in S, NEW y \in S, x.k = "header", y.k # "header" PROVE Headed(<<x, y>>)
    <2>1. <<x, y>> \in Seq(S) /\ Len(<<x, y>>) = 2 /\ <<x, y>>[1] = x /\ <<x, y>>[2] = y
      BY Pairs
    <2> DEFINE b == <<x, y>>
    <2> HIDE DEF b
    <2>2. b \in Seq(S) /\ Len(b) = 2 /\ b[1] = x /\ b[2] = y
      BY <2>1 DEF b
    <2>3. \A j \in 2 .. Len(b) : j = 2
      BY <2>2
    <2>4. Headed(b)
      <3>1. b # <<>>
        BY <2>2
      <3>2. \A j \in 2 .. Len(b) : b[j].k # "header"
        BY <1>3, <2>2, <2>3
      <3>3. QED
        BY <1>3, <2>2, <3>1, <3>2 DEF Headed
    <2>5. QED
      BY <2>4 DEF b
  <1>4. Opening \in Seq(S) /\ Headed(Opening)
    <2>1. Opening \in Seq(S)
      BY <1>1, SeqMonotonic
    <2>2. \A j \in 2 .. Len(Opening) : j = 2
      BY <1>1
    <2>3. QED
      <3>1. Opening # <<>>
        <4>1. Len(Opening) = 2
          BY <1>1
        <4>2. QED
          BY <4>1
      <3>2. "row" # "header"
        OBVIOUS
      <3>3. \A j \in 2 .. Len(Opening) : Opening[j].k # "header"
        BY <1>1, <1>2, <2>2, <3>2
      <3>4. Opening[1].k = "header"
        BY <1>1, <1>2
      <3>5. QED
        BY <2>1, <3>1, <3>3, <3>4 DEF Headed
  <1>5. <<c, r>> \in Seq(S) /\ Headed(<<c, r>>) /\ <<c, r>>[1] = c
    BY <1>1, <1>2, <1>3, Pairs
  <1>6. <<d>> \in Seq(S) /\ Headed(<<d>>) /\ <<d>>[1] = d
    <2>1. <<d>> \in Seq(S) /\ Len(<<d>>) = 1 /\ <<d>>[1] = d
      BY <1>1
    <2> DEFINE b == <<d>>
    <2> HIDE DEF b
    <2>2. b \in Seq(S) /\ Len(b) = 1 /\ b[1] = d
      BY <2>1 DEF b
    <2>3. Headed(b)
      <3>1. b # <<>> /\ \A j \in 2 .. Len(b) : FALSE
        BY <2>2
      <3>2. b[1].k = "header"
        BY <1>2, <2>2
      <3>3. QED
        BY <3>1, <3>2 DEF Headed
    <2>4. QED
      BY <2>2, <2>3 DEF b
  <1>7. ExtraRows = <<c, r>> /\ SkipRow = <<d>>
    BY DEF ExtraRows, SkipRow, c, d, r
  <1>8. QED
    BY <1>4, <1>5, <1>6, <1>7 DEF HeadedBlocks, S, c, d

LEMMA BreachIsHeaded ==
  ASSUME NEW structs \in Seq(Struct)
  PROVE  BreachRows(structs) \in HeadedBlocks /\ BreachRows(structs)[1] = Header("breach", "")
  <1> DEFINE h == BreachHead(structs)
             t == FlattenSeq(StructSeqs(structs))
             u == BreachRows(structs)
  <1>1. /\ h \in Seq(LaidOut) /\ Len(h) = 2 /\ h[1] = Header("breach", "") /\ h[2] = Row(<<Len(structs)>>)
        /\ u \in Seq(LaidOut) /\ Joins(u, h, t)
    BY BreachHeadIs
  <1>2. t \in Seq(CellRows)
    BY StructSeqsAre
  <1> HIDE DEF h, t, u
  <1>3. h[1].k = "header" /\ h[2].k # "header"
    <2>1. Header("breach", "").k = "header" /\ Row(<<Len(structs)>>).k = "row"
      BY HeadersAre
    <2> DEFINE x == Header("breach", "")
               y == Row(<<Len(structs)>>)
    <2> HIDE DEF x, y
    <2>2. h[1] = x /\ h[2] = y /\ x.k = "header" /\ y.k = "row"
      BY <1>1, <2>1 DEF x, y
    <2>3. QED
      BY <2>2
  <1>4. \A j \in 1 .. Len(t) : t[j].k # "header"
    <2>1. \A j \in 1 .. Len(t) : t[j] \in CellRows
      BY <1>2, ElementOfSeq
    <2>2. QED
      BY <2>1, RowsAre
  <1>5. t \in Seq(LaidOut) /\ u \in Seq(Rows)
    <2>1. CellRows \subseteq LaidOut /\ LaidOut \subseteq Rows
      BY DEF LaidOut, Rows
    <2>2. QED
      BY <1>1, <1>2, <2>1, SeqMonotonic
  <1>6. Headed(u)
    BY <1>1, <1>3, <1>4, <1>5, HeadedJoin
  <1>7. u[1] = Header("breach", "")
    <2>1. u[1] = h[1]
      <3>1. 1 \in 1 .. Len(h)
        <4>1. Len(h) = 2
          BY <1>1
        <4>2. QED
          BY <4>1
      <3>2. Joins(u, h, t)
        BY <1>1
      <3>3. QED
        BY <3>1, <3>2 DEF Joins
    <2>2. QED
      BY <1>1, <2>1
  <1>8. QED
    BY <1>5, <1>6, <1>7 DEF HeadedBlocks, u

LEMMA OutletIsHeaded ==
  ASSUME NEW o \in Outlet, ~o.emptyLine
  PROVE  OutletRows(o) \in HeadedBlocks /\ OutletRows(o)[1] = Header("outlet", o.name)
  <1> DEFINE h == OutletHead(o)
             d == SeriesRows(o.series)
             e == OutletEnd
             t == d \o e
             u == OutletRows(o)
  <1>1. /\ h \in Seq(LaidOut) /\ Len(h) = 2 /\ h[1] = Header("outlet", o.name)
        /\ h[2] = Row(<<Len(o.series)>>)
        /\ e \in Seq(LaidOut) /\ Len(e) = 2 /\ e[1] = EndOfFlow /\ e[2] = Ordinates
        /\ o.series \in Seq(Cells \X Cells)
    BY OutletParts
  <1>2. /\ t \in Seq(LaidOut) /\ Joins(t, d, e) /\ u \in Seq(LaidOut) /\ Joins(u, h, t)
    BY OutletLaidOut
  <1>3. d \in Seq(CellRows)
    BY <1>1, SeriesRowsAre
  <1> HIDE DEF h, d, e, t, u
  <1>4. h[1].k = "header" /\ h[2].k # "header" /\ EndOfFlow.k # "header" /\ Ordinates.k # "header"
    BY <1>1, HeadersAre, RowsAre DEF Ordinates
  <1>5. ASSUME NEW j \in 1 .. Len(t) PROVE t[j].k # "header"
    <2>1. Len(d) \in Nat /\ Len(t) = Len(d) + 2
      BY <1>1, <1>2, <1>3 DEF Joins
    <2>2. CASE j \in 1 .. Len(d)
      <3>1. t[j] = d[j] /\ d[j] \in CellRows
        BY <1>2, <1>3, <2>2, ElementOfSeq DEF Joins
      <3>2. QED
        BY <3>1, RowsAre
    <2>3. CASE j > Len(d)
      <3>1. t[j] = e[j - Len(d)] /\ j - Len(d) \in 1 .. 2
        BY <1>1, <1>2, <2>3 DEF Joins
      <3>2. j - Len(d) = 1 \/ j - Len(d) = 2
        BY <3>1
      <3>3. QED
        BY <1>1, <1>4, <3>1, <3>2
    <2>4. QED
      BY <2>1, <2>2, <2>3
  <1>6. u \in Seq(Rows)
    <2>1. LaidOut \subseteq Rows
      BY DEF Rows
    <2>2. QED
      BY <1>2, <2>1, SeqMonotonic
  <1>7. Headed(u)
    BY <1>1, <1>2, <1>4, <1>5, HeadedJoin
  <1>8. u[1] = Header("outlet", o.name)
    BY <1>1, <1>2 DEF Joins
  <1>9. QED
    BY <1>6, <1>7, <1>8 DEF HeadedBlocks, u

LEMMA CleanOutlets ==
  ASSUME NEW w \in Wants, Clean(w)
  PROVE  /\ w.skip \in {"no", "next row"}
         /\ OutletSeqs(w.outlets) \in Seq(HeadedBlocks)
         /\ SkipSeqs(w.skip) \in Seq(HeadedBlocks)
         /\ FlattenSeq(SkipSeqs(w.skip)) = SkipPart(w.skip)
  <1> DEFINE o == w.outlets
             H == HeadedBlocks
  <1>1. /\ o \in Seq(Outlet) /\ Len(o) \in Nat /\ \A i \in 1 .. Len(o) : o[i] \in Outlet /\ ~o[i].emptyLine
        /\ w.skip \in {"no", "next row"}
    BY WantIs DEF Clean
  <1> HIDE DEF o
  <1>2. \A i \in 1 .. Len(o) : OutletRows(o[i]) \in H
    BY <1>1, OutletIsHeaded
  <1>3. OutletSeqs(o) \in Seq(H)
    <2> HIDE DEF H
    <2>1. Len(o) \in Nat
      BY <1>1
    <2>2. [i \in 1 .. Len(o) |-> OutletRows(o[i])] \in Seq(H)
      BY <1>2, <2>1, IsASeq
    <2>3. QED
      BY <2>2 DEF OutletSeqs
  <1>4. ExtraRows \in H /\ SkipRow \in H
    BY OpeningIsHeaded
  <1>5. CASE w.skip = "no"
    <2>1. <<>> \in Seq(H)
      OBVIOUS
    <2>2. SkipSeqs(w.skip) = <<>> /\ SkipPart(w.skip) = <<>>
      BY <1>5 DEF SkipSeqs, SkipPart
    <2>3. QED
      BY <1>1, <1>3, <2>1, <2>2, FlattenEmpty DEF o
  <1>6. CASE w.skip = "next row"
    <2>1. SkipSeqs(w.skip) = <<ExtraRows, SkipRow>> /\ SkipPart(w.skip) = SkipDssRows
      BY <1>6 DEF SkipSeqs, SkipPart
    <2>2. <<ExtraRows, SkipRow>> \in Seq(H)
      BY <1>4, Pairs
    <2>3. ExtraRows \in Seq(Rows) /\ SkipRow \in Seq(Rows)
      BY <1>4 DEF HeadedBlocks
    <2>4. FlattenSeq(<<ExtraRows, SkipRow>>) = ExtraRows \o SkipRow
      BY <2>3, FlattenTwo
    <2>5. ExtraRows \o SkipRow = SkipDssRows
      <3> DEFINE a == Header("extra", "")
                 b == Row(<<1>>)
                 c == Header("skip", "")
                 S == Rows
      <3>1. a \in S /\ b \in S /\ c \in S
        BY FixedParts
      <3>2. ExtraRows = <<a, b>> /\ SkipRow = <<c>> /\ SkipDssRows = <<a, b, c>>
        BY DEF ExtraRows, SkipRow, SkipDssRows
      <3> HIDE DEF a, b, c, S
      <3>3. QED
        BY <3>1, <3>2, PairAndOne
    <2>6. QED
      BY <1>1, <1>3, <2>1, <2>2, <2>4, <2>5 DEF o
  <1>7. QED
    BY <1>1, <1>5, <1>6

LEMMA RawBlocksAre ==
  ASSUME NEW w \in Wants, Clean(w)
  PROVE  /\ RawBlocks(w) \in Seq(HeadedBlocks)
         /\ FlattenSeq(RawBlocks(w)) = Render(w)
         /\ SplitIntoBlocks(Render(w)) = RawBlocks(w)
  <1> DEFINE H == HeadedBlocks
             S == Rows
             r == BreachRows(w.structs)
             p == <<Opening, r>>
             o == OutletSeqs(w.outlets)
             k == SkipSeqs(w.skip)
             q == p \o o
             u == q \o k
  <1>1. Opening \in H /\ r \in H
    BY WantIs, OpeningIsHeaded, BreachIsHeaded
  <1>2. o \in Seq(H) /\ k \in Seq(H) /\ FlattenSeq(k) = SkipPart(w.skip)
    BY CleanOutlets
  <1>3. p \in Seq(H)
    BY <1>1, Pairs
  <1>4. \A b \in H : b \in Seq(S) /\ Headed(b)
    BY DEF HeadedBlocks
  <1>5. FlattenSeq(p) = Opening \o r
    BY <1>1, <1>4, FlattenTwo
  <1>6. Render(w) = ((Opening \o r) \o FlattenSeq(o)) \o SkipPart(w.skip)
    BY RenderParts
  <1>7. RawBlocks(w) = u
    BY DEF RawBlocks
  <1> HIDE DEF H, S, p, o, k, r
  <1>8. q \in Seq(H)
    BY <1>2, <1>3, Joined
  <1>9. u \in Seq(H)
    BY <1>2, <1>8, Joined
  <1>10. p \in Seq(Seq(S)) /\ o \in Seq(Seq(S)) /\ k \in Seq(Seq(S)) /\ q \in Seq(Seq(S)) /\ u \in Seq(Seq(S))
    <2>1. H \subseteq Seq(S)
      BY <1>4
    <2> HIDE DEF q, u
    <2>2. QED
      BY <1>2, <1>3, <1>8, <1>9, <2>1, SeqMonotonic
  <1>11. FlattenSeq(u) = (FlattenSeq(p) \o FlattenSeq(o)) \o FlattenSeq(k)
    <2>1. FlattenSeq(q) = FlattenSeq(p) \o FlattenSeq(o)
      BY <1>10, FlattenConcat
    <2> HIDE DEF q
    <2>2. FlattenSeq(u) = FlattenSeq(q) \o FlattenSeq(k)
      BY <1>10, FlattenConcat
    <2>3. QED
      BY <2>1, <2>2
  <1>12. FlattenSeq(u) = Render(w)
    BY <1>2, <1>5, <1>6, <1>11
  <1>13. SplitIntoBlocks(FlattenSeq(u)) = u
    <2> HIDE DEF u
    <2>1. \A i \in 1 .. Len(u) : u[i] \in H
      BY <1>9, ElementOfSeq
    <2>2. \A i \in 1 .. Len(u) : Headed(u[i])
      BY <1>4, <2>1
    <2>3. QED
      BY <1>10, <2>2, SplitsBack
  <1>14. QED
    BY <1>7, <1>9, <1>12, <1>13 DEF H

OutletBlocks(outlets) == [i \in 1 .. Len(outlets) |-> OutletBlockOf(outlets[i])]
BreachPart(structs) == <<DefaultBlock(BreachHead(structs))>> \o StructBlocks(structs)
SkipBlocks(skip) == IF skip = "no" THEN <<>> ELSE <<DefaultBlock(ExtraRows), DefaultBlock(SkipRow)>>

\* What the reader makes of it.
BlocksOf(w) ==
  ((<<DefaultBlock(Opening)>> \o BreachPart(w.structs)) \o OutletBlocks(w.outlets)) \o SkipBlocks(w.skip)

Blocks ==
  {DefaultBlock(rows) : rows \in Seq(Rows)} \cup {StructBlock(s) : s \in Struct}
    \cup {OutletBlockOf(o) : o \in Outlet}

LEMMA BlockPartsAre ==
  ASSUME NEW w \in Wants
  PROVE  /\ <<DefaultBlock(Opening)>> \in Seq(Blocks)
         /\ DefaultBlock(Opening) \in Blocks
         /\ DefaultBlock(BreachHead(w.structs)) \in Blocks
         /\ DefaultBlock(ExtraRows) \in Blocks /\ DefaultBlock(SkipRow) \in Blocks
         /\ <<DefaultBlock(BreachHead(w.structs))>> \in Seq(Blocks)
         /\ StructBlocks(w.structs) \in Seq(Blocks) /\ BreachPart(w.structs) \in Seq(Blocks)
         /\ OutletBlocks(w.outlets) \in Seq(Blocks)
         /\ SkipBlocks(w.skip) \in Seq(Blocks)
         /\ BlocksOf(w) \in Seq(Blocks)
  <1> DEFINE B == Blocks
             d == DefaultBlock(Opening)
             e == DefaultBlock(BreachHead(w.structs))
             x == DefaultBlock(ExtraRows)
             y == DefaultBlock(SkipRow)
             s == StructBlocks(w.structs)
             o == OutletBlocks(w.outlets)
             k == SkipBlocks(w.skip)
  <1>1. /\ \A rows \in Seq(Rows) : DefaultBlock(rows) \in B
        /\ \A t \in Struct : StructBlock(t) \in B
        /\ \A t \in Outlet : OutletBlockOf(t) \in B
    BY DEF Blocks
  <1>2. d \in B /\ e \in B /\ x \in B /\ y \in B
    <2>1. Opening \in Seq(Rows) /\ ExtraRows \in Seq(Rows) /\ SkipRow \in Seq(Rows)
      BY OpeningIsHeaded DEF HeadedBlocks
    <2>2. BreachHead(w.structs) \in Seq(LaidOut)
      BY WantIs, BreachHeadIs
    <2>3. LaidOut \subseteq Rows
      BY DEF Rows
    <2>4. BreachHead(w.structs) \in Seq(Rows)
      BY <2>2, <2>3, SeqMonotonic
    <2>5. QED
      BY <1>1, <2>1, <2>4
  <1>3. s \in Seq(B) /\ o \in Seq(B)
    <2> DEFINE ss == w.structs
               oo == w.outlets
    <2>1. /\ Len(ss) \in Nat /\ \A i \in 1 .. Len(ss) : ss[i] \in Struct
          /\ Len(oo) \in Nat /\ \A i \in 1 .. Len(oo) : oo[i] \in Outlet
      BY WantIs
    <2> HIDE DEF ss, oo, B
    <2>2. /\ \A i \in 1 .. Len(ss) : StructBlock(ss[i]) \in B
          /\ \A i \in 1 .. Len(oo) : OutletBlockOf(oo[i]) \in B
      BY <1>1, <2>1
    <2>3. StructBlocks(ss) \in Seq(B) /\ OutletBlocks(oo) \in Seq(B)
      BY <2>1, <2>2 DEF StructBlocks, OutletBlocks
    <2>4. QED
      BY <2>3 DEF ss, oo
  <1> HIDE DEF B, d, e, x, y
  <1>4. <<d>> \in Seq(B) /\ <<e>> \in Seq(B) /\ <<x, y>> \in Seq(B)
    BY <1>2, Pairs
  <1>5. k \in Seq(B)
    <2> DEFINE xy == <<x, y>>
    <2> HIDE DEF xy
    <2>1. xy \in Seq(B) /\ k = IF w.skip = "no" THEN <<>> ELSE xy
      BY <1>4 DEF SkipBlocks, x, y, xy
    <2>2. <<>> \in Seq(B)
      OBVIOUS
    <2>3. QED
      BY <2>1, <2>2
  <1> HIDE DEF s, o, k
  <1> DEFINE dd == <<d>>
             ee == <<e>>
             bp == ee \o s
             f == dd \o bp
             g == f \o o
             h == g \o k
  <1>6. dd \in Seq(B) /\ ee \in Seq(B)
    BY <1>4
  <1> HIDE DEF dd, ee
  <1>7. bp \in Seq(B)
    BY <1>3, <1>6, Joined
  <1> HIDE DEF bp
  <1>8. f \in Seq(B)
    BY <1>6, <1>7, Joined
  <1> HIDE DEF f
  <1>9. g \in Seq(B)
    BY <1>3, <1>8, Joined
  <1> HIDE DEF g
  <1>10. h \in Seq(B)
    BY <1>5, <1>9, Joined
  <1>11. BreachPart(w.structs) = bp /\ BlocksOf(w) = h
    BY DEF BreachPart, BlocksOf, dd, ee, bp, f, g, d, e, s, o, k
  <1>12. QED
    BY <1>2, <1>3, <1>5, <1>6, <1>7, <1>10, <1>11 DEF B, d, e, x, y, dd, ee, s, o, k

LEMMA ParsedAs ==
  ASSUME NEW block, NEW of, NEW name
  PROVE  block[1] = Header(of, name) =>
           ParseBlock(block) = IF of = "breach" THEN BreachBlocks(block)
                               ELSE IF of = "outlet" THEN <<OutletBlock(block)>>
                               ELSE <<DefaultBlock(block)>>
  <1>1. SUFFICES ASSUME block[1] = Header(of, name)
                 PROVE  ParseBlock(block) = IF of = "breach" THEN BreachBlocks(block)
                               ELSE IF of = "outlet" THEN <<OutletBlock(block)>>
                               ELSE <<DefaultBlock(block)>>
    OBVIOUS
  <1>2. block[1].k = "header" /\ block[1].of = of
    BY <1>1, HeadersAre
  <1>3. CASE of = "breach"
    BY <1>2, <1>3 DEF ParseBlock
  <1>4. CASE of = "outlet"
    BY <1>2, <1>4 DEF ParseBlock
  <1>5. CASE of # "breach" /\ of # "outlet"
    BY <1>2, <1>5 DEF ParseBlock
  <1>6. QED
    BY <1>3, <1>4, <1>5

LEMMA ParsedAsIs ==
  ASSUME NEW block, NEW of, NEW name, of # "breach", of # "outlet"
  PROVE  block[1] = Header(of, name) => ParseBlock(block) = <<DefaultBlock(block)>>
  BY ParsedAs

OutletSingles(outlets) == [i \in 1 .. Len(outlets) |-> <<OutletBlockOf(outlets[i])>>]
SkipSingles(skip) ==
  IF skip = "no" THEN <<>> ELSE <<<<DefaultBlock(ExtraRows)>>, <<DefaultBlock(SkipRow)>>>>

LEMMA SinglesAre ==
  ASSUME NEW w \in Wants
  PROVE  /\ OutletSingles(w.outlets) \in Seq(Seq(Blocks))
         /\ FlattenSeq(OutletSingles(w.outlets)) = OutletBlocks(w.outlets)
         /\ SkipSingles(w.skip) \in Seq(Seq(Blocks))
         /\ FlattenSeq(SkipSingles(w.skip)) = SkipBlocks(w.skip)
  <1> DEFINE B == Blocks
             o == w.outlets
             x == DefaultBlock(ExtraRows)
             y == DefaultBlock(SkipRow)
             a == OutletBlocks(o)
             s == OutletSingles(o)
  <1>1. x \in B /\ y \in B /\ a \in Seq(B)
    BY BlockPartsAre
  <1>2. Len(o) \in Nat
    BY WantIs
  <1> HIDE DEF o, B, x, y
  <1>3. Len(a) = Len(o) /\ \A i \in 1 .. Len(o) : a[i] = OutletBlockOf(o[i])
    BY <1>2 DEF OutletBlocks
  <1>4. Len(s) = Len(o) /\ \A i \in 1 .. Len(o) : s[i] = <<a[i]>>
    BY <1>2, <1>3 DEF OutletSingles
  <1>5. s \in Seq(Seq(B))
    <2>1. ASSUME NEW i \in 1 .. Len(o) PROVE <<OutletBlockOf(o[i])>> \in Seq(B)
      <3> DEFINE e == OutletBlockOf(o[i])
      <3>1. e \in B
        BY <1>1, <1>3, ElementOfSeq
      <3> HIDE DEF e
      <3>2. <<e>> \in Seq(B)
        BY <3>1
      <3>3. QED
        BY <3>2 DEF e
    <2> DEFINE V == Seq(B)
    <2> HIDE DEF V
    <2>2. [i \in 1 .. Len(o) |-> <<OutletBlockOf(o[i])>>] \in Seq(V)
      BY <1>2, <2>1, IsASeq DEF V
    <2>3. QED
      BY <2>2 DEF OutletSingles, V
  <1> HIDE DEF a, s
  <1>6. FlattenSeq(s) = a
    BY <1>1, <1>3, <1>4, <1>5, FlattenSingles
  <1> DEFINE xx == <<x>>
             yy == <<y>>
             ss == <<xx, yy>>
  <1>7. xx \in Seq(B) /\ yy \in Seq(B) /\ xx \o yy = <<x, y>>
    <2>1. xx \in Seq(B) /\ yy \in Seq(B)
      BY <1>1, Pairs
    <2>2. <<x>> \o <<y>> = Append(<<x>>, y)
      BY <2>1, AppendIsConcat
    <2>3. Append(<<x>>, y) = <<x, y>>
      BY <1>1, Pairs
    <2>4. QED
      BY <2>1, <2>2, <2>3
  <1> HIDE DEF xx, yy
  <1>8. ss \in Seq(Seq(B)) /\ FlattenSeq(ss) = xx \o yy
    BY <1>7, FlattenTwo
  <1> HIDE DEF ss
  <1>9. SkipSingles(w.skip) = IF w.skip = "no" THEN <<>> ELSE ss
    BY DEF SkipSingles, ss, xx, yy, x, y
  <1>10. SkipBlocks(w.skip) = IF w.skip = "no" THEN <<>> ELSE xx \o yy
    BY <1>7 DEF SkipBlocks, x, y
  <1>11. <<>> \in Seq(Seq(B))
    OBVIOUS
  <1>12. SkipSingles(w.skip) \in Seq(Seq(B)) /\ FlattenSeq(SkipSingles(w.skip)) = SkipBlocks(w.skip)
    <2>1. CASE w.skip = "no"
      BY <1>9, <1>10, <1>11, <2>1, FlattenEmpty
    <2>2. CASE w.skip # "no"
      BY <1>8, <1>9, <1>10, <2>2
    <2>3. QED
      BY <2>1, <2>2
  <1>13. QED
    BY <1>5, <1>6, <1>12 DEF a, s, o, B

\* Reading gives the data back.
LEMMA ReadIsBlocks ==
  ASSUME NEW w \in Wants, Clean(w)
  PROVE  Read(Render(w)) = BlocksOf(w)
  <1> DEFINE H == HeadedBlocks
             B == Blocks
             T == {ParseBlock(b) : b \in H}
             G == [b \in H |-> ParseBlock(b)]
             r == BreachRows(w.structs)
             d == DefaultBlock(Opening)
             dd == <<d>>
             bp == BreachPart(w.structs)
             p == <<Opening, r>>
             o == OutletSeqs(w.outlets)
             k == SkipSeqs(w.skip)
             q == p \o o
             u == q \o k
             raw == RawBlocks(w)
  <1>1. raw \in Seq(H) /\ SplitIntoBlocks(Render(w)) = raw /\ raw = u
    BY RawBlocksAre DEF RawBlocks
  <1>2. G \in Maps(H, T) /\ \A b \in H : G[b] = ParseBlock(b)
    BY DEF Maps
  <1>3. Read(Render(w)) = FlattenSeq(Mapped(G, u))
    <2> HIDE DEF G, raw
    <2>1. Read(Render(w)) = FlattenSeq([i \in DOMAIN raw |-> ParseBlock(raw[i])])
      BY <1>1 DEF Read
    <2>2. DOMAIN raw = 1 .. Len(raw) /\ \A i \in 1 .. Len(raw) : raw[i] \in H
      BY <1>1, ElementOfSeq, LenProperties
    <2>3. [i \in DOMAIN raw |-> ParseBlock(raw[i])] = Mapped(G, raw)
      BY <1>2, <2>2 DEF Mapped
    <2>4. QED
      BY <1>1, <2>1, <2>3
  <1>4. Opening \in H /\ r \in H /\ r[1] = Header("breach", "")
    BY WantIs, OpeningIsHeaded, BreachIsHeaded
  <1>5. o \in Seq(H) /\ k \in Seq(H) /\ w.skip \in {"no", "next row"}
    BY CleanOutlets
  <1>6. p \in Seq(H)
    BY <1>4, Pairs
  <1>7. ParseBlock(Opening) = dd
    <2>1. Opening[1] = Header("version", "")
      BY FixedParts
    <2>2. "version" # "breach" /\ "version" # "outlet"
      OBVIOUS
    <2>3. Opening[1] = Header("version", "") => ParseBlock(Opening) = <<DefaultBlock(Opening)>>
      BY <2>2, ParsedAsIs
    <2>4. QED
      BY <2>1, <2>3
  <1>8. ParseBlock(r) = bp
    <2>1. BreachBlocks(r) = bp
      BY WantIs, BreachIsParsed DEF BreachPart
    <2> HIDE DEF r, bp
    <2>2. QED
      BY <1>4, <2>1, ParsedAs
  <1>9. Mapped(G, o) = OutletSingles(w.outlets)
    <2> DEFINE oo == w.outlets
    <2>1. oo \in Seq(Outlet) /\ Len(oo) \in Nat /\ \A i \in 1 .. Len(oo) : oo[i] \in Outlet /\ ~oo[i].emptyLine
      BY WantIs DEF Clean
    <2>2. o \in Seq(H) /\ Len(o) = Len(oo) /\ \A i \in 1 .. Len(oo) : o[i] = OutletRows(oo[i])
      BY <1>5, <2>1, OutletSeqsAre
    <2> HIDE DEF oo, G, o
    <2>3. ASSUME NEW i \in 1 .. Len(oo) PROVE G[o[i]] = <<OutletBlockOf(oo[i])>>
      <3> DEFINE x == OutletRows(oo[i])
      <3>1. oo[i] \in Outlet /\ ~oo[i].emptyLine /\ o[i] = x
        BY <2>1, <2>2
      <3>2. x \in H /\ x[1] = Header("outlet", oo[i].name)
        BY <3>1, OutletIsHeaded
      <3>3. OutletBlock(x) = OutletBlockOf(oo[i])
        BY <3>1, OutletIsParsed
      <3> HIDE DEF x
      <3>4. ParseBlock(x) = <<OutletBlock(x)>>
        BY <3>2, ParsedAs
      <3>5. QED
        BY <1>2, <3>1, <3>2, <3>3, <3>4
    <2>4. QED
      BY <2>2, <2>3 DEF Mapped, OutletSingles, oo
  <1>10. Mapped(G, k) = SkipSingles(w.skip)
    <2> HIDE DEF G, k
    <2>1. CASE w.skip = "no"
      <3>1. k = <<>> /\ SkipSingles(w.skip) = <<>>
        BY <2>1 DEF SkipSeqs, SkipSingles, k
      <3>2. QED
        BY <3>1 DEF Mapped
    <2>2. CASE w.skip # "no"
      <3>1. k = <<ExtraRows, SkipRow>>
        BY <2>2 DEF SkipSeqs, k
      <3>2. /\ ExtraRows \in H /\ ExtraRows[1] = Header("extra", "")
            /\ SkipRow \in H /\ SkipRow[1] = Header("skip", "")
        BY OpeningIsHeaded
      <3>3. G[ExtraRows] = <<DefaultBlock(ExtraRows)>> /\ G[SkipRow] = <<DefaultBlock(SkipRow)>>
        <4>1. "extra" # "breach" /\ "extra" # "outlet" /\ "skip" # "breach" /\ "skip" # "outlet"
          OBVIOUS
        <4>2. ExtraRows[1] = Header("extra", "") => ParseBlock(ExtraRows) = <<DefaultBlock(ExtraRows)>>
          BY <4>1, ParsedAsIs
        <4>3. SkipRow[1] = Header("skip", "") => ParseBlock(SkipRow) = <<DefaultBlock(SkipRow)>>
          BY <4>1, ParsedAsIs
        <4>4. QED
          BY <1>2, <3>2, <4>2, <4>3
      <3>4. Mapped(G, <<ExtraRows, SkipRow>>) = <<G[ExtraRows], G[SkipRow]>>
        <4>1. \A t, x \in H : Mapped(G, <<t, x>>) = <<G[t], G[x]>>
          BY <1>2, MappedTwo
        <4>2. QED
          BY <3>2, <4>1
      <3>5. SkipSingles(w.skip) = <<<<DefaultBlock(ExtraRows)>>, <<DefaultBlock(SkipRow)>>>>
        BY <2>2 DEF SkipSingles
      <3>6. QED
        BY <3>1, <3>3, <3>4, <3>5
    <2>3. QED
      BY <2>1, <2>2
  <1> HIDE DEF G, H, T
  <1>11. Mapped(G, p) = <<dd, bp>>
    <2>1. Mapped(G, p) = <<G[Opening], G[r]>>
      BY <1>2, <1>4, MappedTwo
    <2>2. G[Opening] = dd /\ G[r] = bp
      BY <1>2, <1>4, <1>7, <1>8
    <2>3. QED
      BY <2>1, <2>2
  <1> HIDE DEF p, o, k, r, d, dd, bp
  <1>12. Mapped(G, u) = (Mapped(G, p) \o Mapped(G, o)) \o Mapped(G, k)
    <2>1. q \in Seq(H)
      BY <1>5, <1>6, Joined
    <2>2. \A s, t \in Seq(H) : Mapped(G, s \o t) = Mapped(G, s) \o Mapped(G, t)
      BY <1>2, MappedConcat
    <2>3. Mapped(G, q) = Mapped(G, p) \o Mapped(G, o)
      BY <1>5, <1>6, <2>2
    <2> HIDE DEF q
    <2>4. Mapped(G, u) = Mapped(G, q) \o Mapped(G, k)
      BY <1>5, <2>1, <2>2
    <2>5. QED
      BY <2>3, <2>4
  <1>13. dd \in Seq(B) /\ bp \in Seq(B)
    BY BlockPartsAre DEF dd, bp, d
  <1> DEFINE a == <<dd, bp>>
             b == OutletSingles(w.outlets)
             c == SkipSingles(w.skip)
  <1>14. a \in Seq(Seq(B)) /\ FlattenSeq(a) = dd \o bp
    BY <1>13, FlattenTwo
  <1>15. /\ b \in Seq(Seq(B)) /\ FlattenSeq(b) = OutletBlocks(w.outlets)
         /\ c \in Seq(Seq(B)) /\ FlattenSeq(c) = SkipBlocks(w.skip)
    BY SinglesAre
  <1>16. Mapped(G, u) = (a \o b) \o c
    BY <1>9, <1>10, <1>11, <1>12
  <1> HIDE DEF a, b, c, B
  <1>17. FlattenSeq((a \o b) \o c) = (FlattenSeq(a) \o FlattenSeq(b)) \o FlattenSeq(c)
    <2> DEFINE ab == a \o b
    <2>1. ab \in Seq(Seq(B)) /\ FlattenSeq(ab) = FlattenSeq(a) \o FlattenSeq(b)
      BY <1>14, <1>15, Joined, FlattenConcat
    <2> HIDE DEF ab
    <2>2. FlattenSeq(ab \o c) = FlattenSeq(ab) \o FlattenSeq(c)
      BY <1>15, <2>1, FlattenConcat
    <2>3. QED
      BY <2>1, <2>2 DEF ab
  <1>18. BlocksOf(w) = ((dd \o bp) \o OutletBlocks(w.outlets)) \o SkipBlocks(w.skip)
    BY DEF BlocksOf, dd, bp, d
  <1>19. QED
    BY <1>3, <1>14, <1>15, <1>16, <1>17, <1>18

-----------------------------------------------------------------------------
(* Writing what was read. *)

LEMMA ReformattedIs ==
  ASSUME NEW series \in Seq(Cells \X Cells)
  PROVE  /\ Reformatted(series) \in Seq(Cells \X Cells)
         /\ Len(Reformatted(series)) = Len(series) /\ Len(series) \in Nat
         /\ \A p \in 1 .. Len(series) :
              Reformatted(series)[p] = <<Reformat[series[p][1]], Reformat[series[p][2]]>>
  <1>1. DOMAIN series = 1 .. Len(series) /\ Len(series) \in Nat
        /\ \A p \in 1 .. Len(series) : series[p] \in Cells \X Cells
    OBVIOUS
  <1>2. ASSUME NEW p \in 1 .. Len(series)
        PROVE  <<Reformat[series[p][1]], Reformat[series[p][2]]>> \in Cells \X Cells
    <2>1. series[p] \in Cells \X Cells
      BY <1>1
    <2>2. series[p][1] \in Cells /\ series[p][2] \in Cells
      BY <2>1
    <2>3. QED
      BY <2>2, ReformatAssumption
  <1>3. Reformatted(series) = [p \in 1 .. Len(series) |-> <<Reformat[series[p][1]], Reformat[series[p][2]]>>]
    BY <1>1 DEF Reformatted
  <1>4. Reformatted(series) \in Seq(Cells \X Cells)
    <2> DEFINE C == Cells \X Cells
    <2> HIDE DEF C
    <2>1. [p \in 1 .. Len(series) |-> <<Reformat[series[p][1]], Reformat[series[p][2]]>>] \in Seq(C)
      BY <1>1, <1>2, IsASeq DEF C
    <2>2. QED
      BY <1>3, <2>1 DEF C
  <1>5. QED
    BY <1>1, <1>3, <1>4

LEMMA AgainIs ==
  ASSUME NEW o \in Outlet
  PROVE  /\ Again(o) \in Outlet /\ Len(Again(o).series) = Len(o.series)
         /\ Again(o).name = o.name /\ Again(o).series = Reformatted(o.series)
         /\ Again(o).emptyLine = (o.emptyLine \/ o.series = <<>>)
  <1>1. o.name \in Labels /\ o.series \in Seq(Cells \X Cells) /\ o.emptyLine \in BOOLEAN
    BY DEF Outlet
  <1>2. Reformatted(o.series) \in Seq(Cells \X Cells) /\ Len(Reformatted(o.series)) = Len(o.series)
    BY <1>1, ReformattedIs
  <1>3. (o.emptyLine \/ o.series = <<>>) \in BOOLEAN
    OBVIOUS
  <1>4. QED
    BY <1>1, <1>2, <1>3 DEF Again, Outlet

LEMMA RewrittenIs ==
  ASSUME NEW w \in Wants
  PROVE  /\ Rewritten(w) \in Wants
         /\ Rewritten(w) = [structs |-> w.structs, skip |-> w.skip,
                            outlets |-> [i \in 1 .. Len(w.outlets) |-> Again(w.outlets[i])]]
         /\ Rewritten(w).structs = w.structs /\ Rewritten(w).skip = w.skip
         /\ Len(Rewritten(w).outlets) = Len(w.outlets)
         /\ \A i \in 1 .. Len(w.outlets) : Rewritten(w).outlets[i] = Again(w.outlets[i])
  <1> DEFINE s == w.structs
             o == w.outlets
             k == w.skip
             a == [i \in 1 .. Len(o) |-> Again(o[i])]
             r == [structs |-> s, outlets |-> a, skip |-> k]
  <1>1. /\ w = [structs |-> s, outlets |-> o, skip |-> k]
        /\ s \in Seq(Struct) /\ k \in {"no", "next row", "after an empty line"}
    BY DEF Wants
  <1>2. Len(o) \in Nat /\ DOMAIN o = 1 .. Len(o) /\ \A i \in 1 .. Len(o) : o[i] \in Outlet
    BY WantIs
  <1>3. Rewritten(w) = r
    BY <1>2 DEF Rewritten
  <1>5. a \in Seq(Outlet)
    <2>1. \A i \in 1 .. Len(o) : Again(o[i]) \in Outlet
      BY <1>2, AgainIs
    <2>2. QED
      BY <1>2, <2>1, IsASeq
  <1>6. Len(a) = Len(o) /\ \A i \in 1 .. Len(o) : a[i] = Again(o[i])
    BY <1>2
  <1> HIDE DEF s, o, k, a
  <1>8. r \in Wants
    BY <1>1, <1>5 DEF Wants
  <1>9. QED
    BY <1>3, <1>6, <1>8 DEF s, o, k, a

LEMMA OutletIsWritten ==
  ASSUME NEW o \in Outlet, ~o.emptyLine
  PROVE  ToRows(OutletBlockOf(o)) = OutletRows(Again(o))
  <1> DEFINE n == Len(o.series)
             x == Again(o)
             h == <<Header("outlet", o.name), Row(<<n>>)>>
             t == Reformatted(o.series)
             e == OutletEnd
             g == Gap(x)
             b == OutletBlockOf(o)
  <1>1. x \in Outlet /\ Len(x.series) = n /\ x.name = o.name /\ x.series = t
        /\ x.emptyLine = (o.series = <<>>)
    BY AgainIs
  <1>2. OutletRows(x) = ((OutletHead(x) \o SeriesRows(t)) \o g) \o e
        /\ OutletHead(x) \in Seq(LaidOut) /\ SeriesRows(t) \in Seq(LaidOut) /\ t \in Seq(Cells \X Cells)
    BY <1>1, OutletParts
  <1>3. OutletHead(x) = h
    BY <1>1 DEF OutletHead
  <1>4. ToRows(b) = (h \o PairRows(t)) \o e
    <2>1. b.k = "outlet" /\ b.name = o.name /\ b.count = n /\ b.series = o.series /\ b.extra = e
      BY DEF OutletBlockOf
    <2> HIDE DEF b, e, n
    <2>2. QED
      BY <2>1 DEF ToRows
  <1>5. PairRows(t) = IF t = <<>> THEN <<Blank>> ELSE SeriesRows(t)
    BY <1>2, PairRowsAre
  <1>6. n \in Nat /\ Len(t) = n /\ (t = <<>> <=> n = 0) /\ (o.series = <<>> <=> n = 0)
    <2>1. o.series \in Seq(Cells \X Cells)
      BY DEF Outlet
    <2>2. n \in Nat /\ Len(t) = n /\ t \in Seq(Cells \X Cells)
      BY <2>1, ReformattedIs
    <2>3. QED
      BY <2>1, <2>2, EmptySeq
  <1>7. g = IF n = 0 THEN <<Blank>> ELSE <<>>
    BY <1>1, <1>6 DEF Gap
  <1>8. n = 0 => SeriesRows(t) = <<>>
    BY <1>6 DEF SeriesRows, Fives
  <1> HIDE DEF x, h, t, e, g, b, n
  <1>9. h \in Seq(LaidOut)
    BY <1>2, <1>3
  <1>10. CASE n = 0
    <2>1. h \o SeriesRows(t) = h
      BY <1>8, <1>9, <1>10, ConcatEmptySeq
    <2>2. PairRows(t) = <<Blank>> /\ g = <<Blank>>
      BY <1>5, <1>6, <1>7, <1>10
    <2>3. QED
      BY <1>2, <1>3, <1>4, <2>1, <2>2 DEF b, x
  <1>11. CASE n # 0
    <2>1. PairRows(t) = SeriesRows(t) /\ g = <<>>
      BY <1>5, <1>6, <1>7, <1>11
    <2> DEFINE hs == h \o SeriesRows(t)
    <2>2. hs \in Seq(LaidOut)
      BY <1>2, <1>9, Joined
    <2> HIDE DEF hs
    <2>3. hs \o <<>> = hs
      BY <2>2, ConcatEmptySeq
    <2>4. QED
      BY <1>2, <1>3, <1>4, <2>1, <2>3 DEF b, x, hs
  <1>12. QED
    BY <1>10, <1>11

LEMMA WrittenRows ==
  /\ \A rows : ToRows(DefaultBlock(rows)) = rows
  /\ \A s : ToRows(StructBlock(s)) = StructRows(s)
  <1>1. ASSUME NEW rows PROVE ToRows(DefaultBlock(rows)) = rows
    <2> DEFINE b == DefaultBlock(rows)
    <2>1. b.k = "default" /\ b.rows = rows
      BY DEF DefaultBlock
    <2> HIDE DEF b
    <2>2. b.k # "outlet"
      BY <2>1
    <2>3. ToRows(b) = b.rows
      BY <2>2 DEF ToRows
    <2>4. QED
      BY <2>1, <2>3 DEF b
  <1>2. ASSUME NEW s PROVE ToRows(StructBlock(s)) = StructRows(s)
    <2> DEFINE b == StructBlock(s)
    <2>1. b.k = "breach" /\ b.rows = StructRows(s)
      BY DEF StructBlock
    <2> HIDE DEF b
    <2>2. b.k # "outlet"
      BY <2>1
    <2>3. ToRows(b) = b.rows
      BY <2>2 DEF ToRows
    <2>4. QED
      BY <2>1, <2>3 DEF b
  <1>3. QED
    BY <1>1, <1>2

\* What was read is written as RAS lays it out.
LEMMA WriteIsRendered ==
  ASSUME NEW w \in Wants, Clean(w)
  PROVE  Write(BlocksOf(w)) = Render(Rewritten(w))
  <1> DEFINE B == Blocks
             S == Rows
             T == {ToRows(b) : b \in B}
             G == [b \in B |-> ToRows(b)]
             x == Rewritten(w)
             d == DefaultBlock(Opening)
             e == DefaultBlock(BreachHead(w.structs))
             s == StructBlocks(w.structs)
             o == OutletBlocks(w.outlets)
             k == SkipBlocks(w.skip)
             h == BreachHead(w.structs)
             ss == StructSeqs(w.structs)
             oo == OutletSeqs(x.outlets)
             kk == SkipSeqs(w.skip)
             dd == <<d>>
             ee == <<e>>
             bp == ee \o s
             f == dd \o bp
             g == f \o o
             u == g \o k
             all == BlocksOf(w)
  <1>1. G \in Maps(B, T) /\ \A b \in B : G[b] = ToRows(b)
    BY DEF Maps
  <1>2. /\ d \in B /\ e \in B /\ s \in Seq(B) /\ o \in Seq(B) /\ k \in Seq(B)
        /\ dd \in Seq(B) /\ ee \in Seq(B) /\ all \in Seq(B)
        /\ DefaultBlock(ExtraRows) \in B /\ DefaultBlock(SkipRow) \in B
    BY BlockPartsAre
  <1>3. all = u
    BY DEF BlocksOf, BreachPart
  <1>4. Write(all) = FlattenSeq(Mapped(G, all))
    <2> HIDE DEF G, all
    <2>1. Write(all) = FlattenSeq([i \in DOMAIN all |-> ToRows(all[i])])
      BY DEF Write
    <2>2. DOMAIN all = 1 .. Len(all) /\ \A i \in 1 .. Len(all) : all[i] \in B
      BY <1>2, ElementOfSeq, LenProperties
    <2>3. [i \in DOMAIN all |-> ToRows(all[i])] = Mapped(G, all)
      BY <1>1, <2>2 DEF Mapped
    <2>4. QED
      BY <2>1, <2>3
  <1>5. x \in Wants /\ x.structs = w.structs /\ x.skip = w.skip /\ Len(x.outlets) = Len(w.outlets)
        /\ \A i \in 1 .. Len(w.outlets) : x.outlets[i] = Again(w.outlets[i])
    BY RewrittenIs
  <1> HIDE DEF x
  <1>6. Mapped(G, dd) = <<Opening>> /\ Mapped(G, ee) = <<h>>
    <2> HIDE DEF G
    <2>1. Mapped(G, <<d>>) = <<G[d]>> /\ Mapped(G, <<e>>) = <<G[e]>>
      BY <1>1, <1>2, MappedOne
    <2>2. ToRows(d) = Opening /\ ToRows(e) = h
      BY WrittenRows
    <2> HIDE DEF d, e
    <2>3. G[d] = Opening /\ G[e] = h
      BY <1>1, <1>2, <2>2
    <2>4. QED
      BY <2>1, <2>3
  <1>7. Mapped(G, s) = ss
    <2> DEFINE t == w.structs
    <2>1. Len(t) \in Nat
      BY WantIs
    <2> HIDE DEF t, G
    <2>2. Len(s) = Len(t) /\ \A i \in 1 .. Len(t) : s[i] = StructBlock(t[i])
      BY <2>1 DEF StructBlocks, t
    <2> HIDE DEF s
    <2>3. ASSUME NEW i \in 1 .. Len(t) PROVE G[s[i]] = StructRows(t[i])
      <3>1. s[i] \in B
        BY <1>2, <2>2, ElementOfSeq
      <3>2. ToRows(s[i]) = StructRows(t[i])
        BY <2>2, WrittenRows
      <3>3. QED
        BY <1>1, <3>1, <3>2
    <2>4. QED
      BY <2>2, <2>3 DEF Mapped, StructSeqs, t
  <1>8. Mapped(G, o) = oo
    <2> DEFINE t == w.outlets
               y == x.outlets
    <2>1. Len(t) \in Nat /\ \A i \in 1 .. Len(t) : t[i] \in Outlet /\ ~t[i].emptyLine
      BY WantIs DEF Clean
    <2>2. Len(y) = Len(t) /\ \A i \in 1 .. Len(t) : y[i] = Again(t[i])
      BY <1>5
    <2> HIDE DEF t, y, G
    <2>3. Len(o) = Len(t) /\ \A i \in 1 .. Len(t) : o[i] = OutletBlockOf(t[i])
      BY <2>1 DEF OutletBlocks, t
    <2> HIDE DEF o
    <2>4. ASSUME NEW i \in 1 .. Len(t) PROVE G[o[i]] = OutletRows(y[i])
      <3>1. o[i] \in B
        BY <1>2, <2>3, ElementOfSeq
      <3>2. ToRows(OutletBlockOf(t[i])) = OutletRows(Again(t[i]))
        BY <2>1, OutletIsWritten
      <3>3. QED
        BY <1>1, <2>2, <2>3, <3>1, <3>2
    <2>5. QED
      BY <2>2, <2>3, <2>4 DEF Mapped, OutletSeqs, y
  <1>9. Mapped(G, k) = kk
    <2> HIDE DEF G
    <2>1. CASE w.skip = "no"
      <3>1. k = <<>> /\ kk = <<>>
        BY <2>1 DEF SkipSeqs, SkipBlocks
      <3> HIDE DEF k, kk
      <3>2. QED
        BY <3>1 DEF Mapped
    <2>2. CASE w.skip # "no"
      <3> DEFINE a == DefaultBlock(ExtraRows)
                 b == DefaultBlock(SkipRow)
      <3>1. k = <<a, b>> /\ kk = <<ExtraRows, SkipRow>>
        BY <2>2 DEF SkipSeqs, SkipBlocks
      <3>2. a \in B /\ b \in B /\ ToRows(a) = ExtraRows /\ ToRows(b) = SkipRow
        BY <1>2, WrittenRows
      <3> HIDE DEF a, b, k, kk
      <3>3. Mapped(G, <<a, b>>) = <<G[a], G[b]>>
        BY <1>1, <3>2, MappedTwo
      <3>4. QED
        BY <1>1, <3>1, <3>2, <3>3
    <2>3. QED
      BY <2>1, <2>2
  <1> HIDE DEF G, B, T, dd, ee, s, o, k, all
  <1>10. Mapped(G, u) = ((Mapped(G, dd) \o (Mapped(G, ee) \o Mapped(G, s))) \o Mapped(G, o)) \o Mapped(G, k)
    <2>1. \A p, q \in Seq(B) : Mapped(G, p \o q) = Mapped(G, p) \o Mapped(G, q)
      BY <1>1, MappedConcat
    <2>2. Mapped(G, bp) = Mapped(G, ee) \o Mapped(G, s) /\ bp \in Seq(B)
      BY <1>2, <2>1, Joined
    <2> HIDE DEF bp
    <2>3. Mapped(G, f) = Mapped(G, dd) \o Mapped(G, bp) /\ f \in Seq(B)
      BY <1>2, <2>1, <2>2, Joined
    <2> HIDE DEF f
    <2>4. Mapped(G, g) = Mapped(G, f) \o Mapped(G, o) /\ g \in Seq(B)
      BY <1>2, <2>1, <2>3, Joined
    <2> HIDE DEF g
    <2>5. Mapped(G, u) = Mapped(G, g) \o Mapped(G, k)
      BY <1>2, <2>1, <2>4
    <2>6. QED
      BY <2>2, <2>3, <2>4, <2>5
  <1> DEFINE p == <<Opening>>
             q == <<h>>
             hs == q \o ss
             ph == p \o hs
             po == ph \o oo
             pk == po \o kk
  <1>11. Mapped(G, u) = pk
    BY <1>6, <1>7, <1>8, <1>9, <1>10
  <1>12. /\ Opening \in Seq(S) /\ h \in Seq(S) /\ ss \in Seq(Seq(S)) /\ oo \in Seq(Seq(S)) /\ kk \in Seq(Seq(S))
         /\ FlattenSeq(kk) = SkipPart(w.skip)
         /\ FlattenSeq(ss) \in Seq(S)
    <2>1. h \in Seq(LaidOut) /\ ss \in Seq(Seq(CellRows)) /\ FlattenSeq(ss) \in Seq(CellRows)
      BY WantIs, BreachHeadIs, StructSeqsAre
    <2>2. Opening \in Seq(S)
      BY OpeningIsHeaded DEF HeadedBlocks
    <2>3. oo \in Seq(Seq(S))
      BY <1>5, WantIs, OutletSeqsAre
    <2>4. kk \in Seq(HeadedBlocks) /\ FlattenSeq(kk) = SkipPart(w.skip)
      BY CleanOutlets
    <2>5. LaidOut \subseteq S /\ CellRows \subseteq S /\ HeadedBlocks \subseteq Seq(S)
      BY DEF LaidOut, Rows, HeadedBlocks
    <2> HIDE DEF S, h, ss, kk, oo
    <2>6. h \in Seq(S) /\ kk \in Seq(Seq(S)) /\ Seq(CellRows) \subseteq Seq(S) /\ FlattenSeq(ss) \in Seq(S)
      BY <2>1, <2>4, <2>5, SeqMonotonic
    <2>7. ss \in Seq(Seq(S))
      BY <2>1, <2>6, SeqMonotonic
    <2>8. QED
      BY <2>2, <2>3, <2>4, <2>6, <2>7
  <1> HIDE DEF S, h, ss, oo, kk
  <1>13. p \in Seq(Seq(S)) /\ q \in Seq(Seq(S)) /\ FlattenSeq(p) = Opening /\ FlattenSeq(q) = h
    BY <1>12, Pairs, FlattenOne
  <1> HIDE DEF p, q
  <1>14. FlattenSeq(pk) = ((Opening \o (h \o FlattenSeq(ss))) \o FlattenSeq(oo)) \o FlattenSeq(kk)
    <2>1. \A a, b \in Seq(Seq(S)) : FlattenSeq(a \o b) = FlattenSeq(a) \o FlattenSeq(b)
      BY FlattenConcat
    <2> DEFINE V == Seq(S)
    <2> HIDE DEF V
    <2>2. \A a, b \in Seq(V) : FlattenSeq(a \o b) = FlattenSeq(a) \o FlattenSeq(b) /\ a \o b \in Seq(V)
      <3>1. \A a, b \in Seq(V) : a \o b \in Seq(V)
        BY Joined
      <3>2. QED
        BY <2>1, <3>1 DEF V
    <2>3. p \in Seq(V) /\ q \in Seq(V) /\ ss \in Seq(V) /\ oo \in Seq(V) /\ kk \in Seq(V)
      BY <1>12, <1>13 DEF V
    <2>4. FlattenSeq(hs) = h \o FlattenSeq(ss) /\ hs \in Seq(V)
      BY <1>13, <2>2, <2>3
    <2> HIDE DEF hs
    <2>5. FlattenSeq(ph) = Opening \o FlattenSeq(hs) /\ ph \in Seq(V)
      BY <1>13, <2>2, <2>3, <2>4
    <2> HIDE DEF ph
    <2>6. FlattenSeq(po) = FlattenSeq(ph) \o FlattenSeq(oo) /\ po \in Seq(V)
      BY <2>2, <2>3, <2>5
    <2> HIDE DEF po
    <2>7. FlattenSeq(pk) = FlattenSeq(po) \o FlattenSeq(kk)
      BY <2>2, <2>3, <2>6
    <2>8. QED
      BY <2>4, <2>5, <2>6, <2>7
  <1>15. BreachRows(w.structs) = h \o FlattenSeq(ss)
    BY DEF BreachRows, h, ss
  <1>16. Render(x) = ((Opening \o BreachRows(w.structs)) \o FlattenSeq(oo)) \o SkipPart(w.skip)
    BY <1>5, RenderParts DEF oo
  <1>17. Write(all) = Render(x)
    BY <1>3, <1>4, <1>11, <1>12, <1>14, <1>15, <1>16
  <1>18. QED
    BY <1>17 DEF all, x

-----------------------------------------------------------------------------
(* Where the blocks of a file are. *)

\* b is what is read from the file that says w, block by block.
Lays(b, w) ==
  LET n == Len(w.structs)
      m == Len(w.outlets)
  IN  /\ b \in Seq(Blocks)
      /\ Len(b) = 2 + n + m + Len(SkipBlocks(w.skip))
      /\ b[1] = DefaultBlock(Opening) /\ b[2] = DefaultBlock(BreachHead(w.structs))
      /\ \A i \in 1 .. n : b[2 + i] = StructBlock(w.structs[i])
      /\ \A i \in 1 .. m : b[2 + n + i] = OutletBlockOf(w.outlets[i])
      /\ \A i \in 1 .. Len(SkipBlocks(w.skip)) : b[2 + n + m + i] = SkipBlocks(w.skip)[i]

LEMMA BlocksLieSo ==
  ASSUME NEW w \in Wants
  PROVE  Lays(BlocksOf(w), w)
  <1> DEFINE B == Blocks
             d == DefaultBlock(Opening)
             e == DefaultBlock(BreachHead(w.structs))
             n == Len(w.structs)
             m == Len(w.outlets)
             s == StructBlocks(w.structs)
             o == OutletBlocks(w.outlets)
             k == SkipBlocks(w.skip)
             dd == <<d>>
             ee == <<e>>
             bp == ee \o s
             f == dd \o bp
             g == f \o o
             h == g \o k
  <1>1. /\ dd \in Seq(B) /\ ee \in Seq(B) /\ s \in Seq(B) /\ o \in Seq(B) /\ k \in Seq(B)
        /\ BlocksOf(w) \in Seq(B)
    BY BlockPartsAre
  <1>2. n \in Nat /\ m \in Nat
    BY WantIs
  <1>3. /\ Len(s) = n /\ \A i \in 1 .. n : s[i] = StructBlock(w.structs[i])
        /\ Len(o) = m /\ \A i \in 1 .. m : o[i] = OutletBlockOf(w.outlets[i])
    BY <1>2 DEF StructBlocks, OutletBlocks
  <1>4. Len(dd) = 1 /\ dd[1] = d /\ Len(ee) = 1 /\ ee[1] = e
    OBVIOUS
  <1>5. Len(k) \in Nat
    <2> HIDE DEF k, B
    <2>1. QED
      BY <1>1
  <1>6. BlocksOf(w) = h
    BY DEF BlocksOf, BreachPart
  <1> HIDE DEF B, s, o, k, dd, ee, d, e
  <1>7. bp \in Seq(B) /\ Joins(bp, ee, s)
    BY <1>1, Joined
  <1> HIDE DEF bp
  <1>8. f \in Seq(B) /\ Joins(f, dd, bp)
    BY <1>1, <1>7, Joined
  <1> HIDE DEF f
  <1>9. g \in Seq(B) /\ Joins(g, f, o)
    BY <1>1, <1>8, Joined
  <1> HIDE DEF g
  <1>10. Joins(h, g, k)
    BY <1>1, <1>9, Joined
  <1> HIDE DEF h
  <1> HIDE DEF n, m
  <1>11. /\ Len(bp) = 1 + n /\ bp[1] = e
         /\ \A i \in 1 .. n : bp[1 + i] = StructBlock(w.structs[i])
    BY <1>2, <1>3, <1>4, <1>7 DEF Joins
  <1>12. /\ Len(f) = 2 + n /\ f[1] = d /\ f[2] = e
         /\ \A i \in 1 .. n : f[2 + i] = StructBlock(w.structs[i])
    <2>1. Len(f) = 2 + n /\ f[1] = d /\ f[2] = bp[1]
      BY <1>2, <1>4, <1>8, <1>11 DEF Joins
    <2>2. ASSUME NEW i \in 1 .. n PROVE f[2 + i] = bp[1 + i]
      BY <1>2, <1>4, <1>8, <1>11, <2>1 DEF Joins
    <2>3. QED
      BY <1>11, <2>1, <2>2
  <1>13. /\ Len(g) = 2 + n + m /\ g[1] = d /\ g[2] = e
         /\ \A i \in 1 .. n : g[2 + i] = StructBlock(w.structs[i])
         /\ \A i \in 1 .. m : g[2 + n + i] = OutletBlockOf(w.outlets[i])
    <2>1. Len(g) = 2 + n + m /\ g[1] = d /\ g[2] = e
      BY <1>2, <1>3, <1>9, <1>12 DEF Joins
    <2>2. ASSUME NEW i \in 1 .. n PROVE g[2 + i] = f[2 + i]
      BY <1>2, <1>9, <1>12 DEF Joins
    <2>3. ASSUME NEW i \in 1 .. m PROVE g[2 + n + i] = o[i]
      BY <1>2, <1>3, <1>9, <1>12, <2>1 DEF Joins
    <2>4. QED
      BY <1>3, <1>12, <2>1, <2>2, <2>3
  <1>14. /\ Len(h) = 2 + n + m + Len(k) /\ h[1] = d /\ h[2] = e
         /\ \A i \in 1 .. n : h[2 + i] = StructBlock(w.structs[i])
         /\ \A i \in 1 .. m : h[2 + n + i] = OutletBlockOf(w.outlets[i])
         /\ \A i \in 1 .. Len(k) : h[2 + n + m + i] = k[i]
    <2>1. Len(h) = 2 + n + m + Len(k) /\ h[1] = d /\ h[2] = e
      BY <1>2, <1>10, <1>13 DEF Joins
    <2>2. ASSUME NEW i \in 1 .. n PROVE h[2 + i] = g[2 + i]
      BY <1>2, <1>10, <1>13 DEF Joins
    <2>3. ASSUME NEW i \in 1 .. m PROVE h[2 + n + i] = g[2 + n + i]
      BY <1>2, <1>10, <1>13 DEF Joins
    <2>4. ASSUME NEW i \in 1 .. Len(k) PROVE h[2 + n + m + i] = k[i]
      BY <1>2, <1>5, <1>10, <1>13, <2>1 DEF Joins
    <2>5. QED
      BY <1>13, <2>1, <2>2, <2>3, <2>4
  <1> DEFINE b == BlocksOf(w)
  <1>15. b = h /\ b \in Seq(B)
    BY <1>1, <1>6
  <1> HIDE DEF b
  <1>16. Lays(b, w)
    BY <1>14, <1>15 DEF Lays, n, m, k, d, e, B
  <1>17. QED
    BY <1>16 DEF b

LEMMA LaidInOneWay ==
  ASSUME NEW w \in Wants, NEW b, NEW c, Lays(b, w), Lays(c, w)
  PROVE  b = c
  <1> DEFINE n == Len(w.structs)
             m == Len(w.outlets)
             k == Len(SkipBlocks(w.skip))
  <1>1. n \in Nat /\ m \in Nat
    BY WantIs
  <1>2. k \in Nat
    BY BlockPartsAre
  <1>3. b \in Seq(Blocks) /\ c \in Seq(Blocks) /\ Len(b) = 2 + n + m + k /\ Len(c) = Len(b)
    BY DEF Lays
  <1> HIDE DEF n, m, k
  <1>4. ASSUME NEW i \in 1 .. Len(b) PROVE b[i] = c[i]
    <2>1. CASE i = 1 \/ i = 2
      BY <2>1 DEF Lays
    <2>2. CASE i \in 3 .. 2 + n
      <3>1. PICK j \in 1 .. n : i = 2 + j
        <4>1. i - 2 \in 1 .. n /\ i = 2 + (i - 2)
          BY <1>1, <2>2
        <4>2. QED
          BY <4>1
      <3>2. QED
        BY <3>1 DEF Lays, n, m, k
    <2>3. CASE i \in 3 + n .. 2 + n + m
      <3>1. PICK j \in 1 .. m : i = 2 + n + j
        <4>1. i - (2 + n) \in 1 .. m /\ i = 2 + n + (i - (2 + n))
          BY <1>1, <2>3
        <4>2. QED
          BY <4>1
      <3>2. QED
        BY <3>1 DEF Lays, n, m, k
    <2>4. CASE i \in 3 + n + m .. 2 + n + m + k
      <3>1. PICK j \in 1 .. k : i = 2 + n + m + j
        <4>1. i - (2 + n + m) \in 1 .. k /\ i = 2 + n + m + (i - (2 + n + m))
          BY <1>1, <1>2, <2>4
        <4>2. QED
          BY <4>1
      <3>2. QED
        BY <3>1 DEF Lays, n, m, k
    <2>5. i \in 1 .. 2 + n + m + k
      BY <1>3
    <2>6. QED
      BY <1>1, <1>2, <2>1, <2>2, <2>3, <2>4, <2>5
  <1>5. QED
    BY <1>3, <1>4, SeqEqual

-----------------------------------------------------------------------------
(* Amending an elevation. *)

\* A structure whose elevation is replaced in the rows is the structure with that
\* elevation, laid out.
LEMMA StructIsAmended ==
  ASSUME NEW s \in Struct, NEW cell \in Cells
  PROVE  /\ [s EXCEPT !.elev = cell] \in Struct
         /\ LET b == StructBlock(s)
            IN  [b EXCEPT !.rows[b.elevRow].cells[1] = cell] = StructBlock([s EXCEPT !.elev = cell])
  <1> DEFINE t == [s EXCEPT !.elev = cell]
             r == StructRows(s)
             q == StructRows(t)
             e == 3 + Extra(s)
             n == StructLength(s)
             row == [r[e] EXCEPT !.cells[1] = cell]
             u == [r EXCEPT ![e] = row]
             b == StructBlock(s)
  <1>1. t \in Struct
    BY DEF Struct
  <1>2. /\ t.snet = s.snet /\ t.wasting = s.wasting /\ t.method1 = s.method1
        /\ t.prog = s.prog /\ t.down = s.down /\ t.elev = cell
    BY DEF Struct
  <1>3. Extra(t) = Extra(s) /\ StructLength(t) = n /\ StructHead(t) = StructHead(s)
    BY <1>2 DEF Extra, StructLength, StructHead
  <1>4. /\ r \in Seq(CellRows) /\ n \in Nat \ {0} /\ Len(r) = n
        /\ \A i \in 1 .. n : r[i] = StructRow(s, i)
    BY StructRowsAre
  <1>5. /\ q \in Seq(CellRows) /\ Len(q) = n /\ \A i \in 1 .. n : q[i] = StructRow(t, i)
    BY <1>1, <1>3, StructRowsAre
  <1>6. e \in 1 .. n
    <2>1. s.prog \in Nat /\ s.down \in Nat
      BY DEF Struct
    <2>2. Fives(s.prog) \in Nat /\ Fives(s.down) \in Nat
      BY <2>1, FivesAre
    <2>3. QED
      BY <2>2 DEF StructLength, Extra
  <1>7. q[e] = row
    <2>1. e # 1
      BY DEF Extra
    <2>2. q[e] = Row(<<cell, 0, 0>>) /\ r[e] = Row(<<s.elev, 0, 0>>)
      BY <1>2, <1>3, <1>4, <1>5, <1>6, <2>1 DEF StructRow
    <2>3. [Row(<<s.elev, 0, 0>>) EXCEPT !.cells[1] = cell] = Row(<<cell, 0, 0>>)
      BY DEF Row
    <2>4. QED
      BY <2>2, <2>3
  <1>8. ASSUME NEW i \in 1 .. n, i # e PROVE q[i] = r[i]
    <2> HIDE DEF t, r, q, n
    <2>1. q[i] = StructRow(t, i) /\ r[i] = StructRow(s, i)
      BY <1>4, <1>5
    <2>2. StructRow(t, i) = StructRow(s, i)
      BY <1>2, <1>3, <1>8 DEF StructRow
    <2>3. QED
      BY <2>1, <2>2
  <1>9. b = [k |-> "breach", snet |-> s.snet, elevRow |-> e, rows |-> r]
    BY DEF StructBlock
  <1>10. StructBlock(t) = [k |-> "breach", snet |-> s.snet, elevRow |-> e, rows |-> q]
    BY <1>2, <1>3 DEF StructBlock
  <1> HIDE DEF r, q, e, n, b
  <1>11. u = q
    <2>1. row \in CellRows
      BY <1>5, <1>6, <1>7, ElementOfSeq
    <2> HIDE DEF row
    <2>2. /\ u \in Seq(CellRows) /\ Len(u) = n
          /\ \A j \in 1 .. n : u[j] = IF j = e THEN row ELSE r[j]
      BY <1>4, <1>6, <2>1, ExceptSeq
    <2> HIDE DEF u
    <2>3. \A j \in 1 .. n : u[j] = q[j]
      BY <1>7, <1>8, <2>2
    <2>4. QED
      BY <1>5, <2>2, <2>3, SeqEqual
  <1>12. [b EXCEPT !.rows[b.elevRow].cells[1] = cell] = [b EXCEPT !.rows = u]
    BY <1>9
  <1>13. [b EXCEPT !.rows = u] = [k |-> "breach", snet |-> s.snet, elevRow |-> e, rows |-> u]
    <2> HIDE DEF u
    <2>1. QED
      BY <1>9
  <1>14. QED
    BY <1>1, <1>10, <1>11, <1>12, <1>13 DEF b

\* The kinds of the blocks of a file.
LEMMA KindsAre ==
  ASSUME NEW w \in Wants, NEW b, Lays(b, w), NEW j \in 1 .. Len(b)
  PROVE  /\ b[j].k = "breach" <=> j \in 3 .. 2 + Len(w.structs)
         /\ b[j].k = "outlet" <=> j \in 3 + Len(w.structs) .. 2 + Len(w.structs) + Len(w.outlets)
  <1> DEFINE n == Len(w.structs)
             m == Len(w.outlets)
             k == Len(SkipBlocks(w.skip))
  <1>1. n \in Nat /\ m \in Nat
    BY WantIs
  <1>2. k \in Nat
    BY BlockPartsAre
  <1>3. Len(b) = 2 + n + m + k
    BY DEF Lays
  <1>4. /\ \A rows : DefaultBlock(rows).k = "default"
        /\ \A s : StructBlock(s).k = "breach"
        /\ \A o : OutletBlockOf(o).k = "outlet"
    BY DEF DefaultBlock, StructBlock, OutletBlockOf
  <1>5. ASSUME NEW i \in 1 .. k PROVE SkipBlocks(w.skip)[i].k = "default"
    <2> DEFINE x == DefaultBlock(ExtraRows)
               y == DefaultBlock(SkipRow)
    <2>1. x.k = "default" /\ y.k = "default"
      BY <1>4
    <2> HIDE DEF x, y
    <2>2. SkipBlocks(w.skip) = IF w.skip = "no" THEN <<>> ELSE <<x, y>>
      BY DEF SkipBlocks, x, y
    <2>3. QED
      BY <2>1, <2>2
  <1>6. "default" # "breach" /\ "default" # "outlet" /\ "breach" # "outlet"
    OBVIOUS
  <1>7. /\ b[1] = DefaultBlock(Opening) /\ b[2] = DefaultBlock(BreachHead(w.structs))
        /\ \A i \in 1 .. n : b[2 + i] = StructBlock(w.structs[i])
        /\ \A i \in 1 .. m : b[2 + n + i] = OutletBlockOf(w.outlets[i])
        /\ \A i \in 1 .. k : b[2 + n + m + i] = SkipBlocks(w.skip)[i]
    BY DEF Lays
  <1> SUFFICES /\ b[j].k = "breach" <=> j \in 3 .. 2 + n
               /\ b[j].k = "outlet" <=> j \in 3 + n .. 2 + n + m
    OBVIOUS
  <1> HIDE DEF n, m, k
  <1>8. CASE j = 1 \/ j = 2
    BY <1>1, <1>4, <1>6, <1>7, <1>8
  <1>9. CASE j \in 3 .. 2 + n
    <2>1. j - 2 \in 1 .. n /\ j = 2 + (j - 2)
      BY <1>1, <1>9
    <2>2. b[j].k = "breach"
      BY <1>4, <1>7, <2>1
    <2>3. QED
      BY <1>1, <1>6, <1>9, <2>2
  <1>10. CASE j \in 3 + n .. 2 + n + m
    <2>1. j - (2 + n) \in 1 .. m /\ j = 2 + n + (j - (2 + n))
      BY <1>1, <1>10
    <2>2. b[j].k = "outlet"
      BY <1>4, <1>7, <2>1
    <2>3. QED
      BY <1>1, <1>6, <1>10, <2>2
  <1>11. CASE j \in 3 + n + m .. 2 + n + m + k
    <2>1. j - (2 + n + m) \in 1 .. k /\ j = 2 + n + m + (j - (2 + n + m))
      BY <1>1, <1>2, <1>11
    <2>2. b[j].k = "default"
      BY <1>5, <1>7, <2>1
    <2>3. QED
      BY <1>1, <1>6, <1>11, <2>2
  <1>12. QED
    BY <1>1, <1>2, <1>3, <1>8, <1>9, <1>10, <1>11

\* The structures with an id, and whether one is the first of them.
At(w, snet) == {i \in 1 .. Len(w.structs) : w.structs[i].snet = snet}
IsFirst(i, at) == i \in at /\ \A j \in at : i <= j

LEMMA ElevationIs ==
  ASSUME NEW w \in Wants, NEW snet, NEW cell \in Cells
  PROVE  LET x == WithElevation(w, snet, cell)
         IN  /\ x \in Wants /\ x.outlets = w.outlets /\ x.skip = w.skip
             /\ Len(x.structs) = Len(w.structs)
             /\ \A i \in 1 .. Len(w.structs) :
                  x.structs[i] = IF IsFirst(i, At(w, snet))
                                 THEN [w.structs[i] EXCEPT !.elev = cell] ELSE w.structs[i]
             /\ At(w, snet) = {} => x = w
  <1> DEFINE n == Len(w.structs)
             at == At(w, snet)
             New(i) == IF IsFirst(i, at) THEN [w.structs[i] EXCEPT !.elev = cell] ELSE w.structs[i]
             ss == [i \in 1 .. n |-> New(i)]
             x == WithElevation(w, snet, cell)
  <1>1. /\ n \in Nat /\ DOMAIN w.structs = 1 .. n /\ w.structs \in Seq(Struct)
        /\ \A i \in 1 .. n : w.structs[i] \in Struct
    BY WantIs
  <1>2. \A i \in 1 .. n : New(i) \in Struct
    BY <1>1, StructIsAmended
  <1>3. ss \in Seq(Struct) /\ Len(ss) = n /\ \A i \in 1 .. n : ss[i] = New(i)
    <2> HIDE DEF New, n
    <2>1. QED
      BY <1>1, <1>2, IsASeq
  <1>4. x = [w EXCEPT !.structs = ss]
    BY <1>1 DEF WithElevation, At, IsFirst
  <1>5. at = {} => ss = w.structs
    <2>1. at = {} => \A i \in 1 .. n : New(i) = w.structs[i]
      BY DEF IsFirst
    <2> HIDE DEF New, n, ss, at
    <2>2. QED
      BY <1>1, <1>3, <2>1, SeqEqual
  <1> HIDE DEF New, ss, x, at
  <1>6. /\ x \in Wants /\ x.outlets = w.outlets /\ x.skip = w.skip /\ x.structs = ss
        /\ ss = w.structs => x = w
    BY <1>3, <1>4 DEF Wants
  <1>7. QED
    BY <1>3, <1>5, <1>6 DEF x, at, New

\* Amending what was read is reading the file of the amended structures.
LEMMA AmendedIs ==
  ASSUME NEW w \in Wants, NEW snet, NEW cell \in Cells
  PROVE  Amended(BlocksOf(w), snet, cell) = BlocksOf(WithElevation(w, snet, cell))
  <1> DEFINE b == BlocksOf(w)
             x == WithElevation(w, snet, cell)
             n == Len(w.structs)
             m == Len(w.outlets)
             k == Len(SkipBlocks(w.skip))
             at == At(w, snet)
             hits == {j \in 1 .. Len(b) : b[j].k = "breach" /\ b[j].snet = snet}
  <1>1. n \in Nat /\ m \in Nat /\ \A i \in 1 .. n : w.structs[i] \in Struct
    BY WantIs
  <1>2. k \in Nat
    BY BlockPartsAre
  <1>3. Lays(b, w)
    BY BlocksLieSo
  <1>4. /\ b \in Seq(Blocks) /\ Len(b) = 2 + n + m + k
        /\ \A i \in 1 .. n : b[2 + i] = StructBlock(w.structs[i])
    BY <1>3 DEF Lays, n, m, k
  <1>5. /\ x \in Wants /\ x.outlets = w.outlets /\ x.skip = w.skip /\ Len(x.structs) = n
        /\ \A i \in 1 .. n : x.structs[i] = IF IsFirst(i, at)
                                            THEN [w.structs[i] EXCEPT !.elev = cell] ELSE w.structs[i]
        /\ at = {} => x = w
    BY ElevationIs
  <1> HIDE DEF n, m, k
  <1>6. \A j : j \in hits <=> j \in 3 .. 2 + n /\ j - 2 \in at
    <2>1. \A s : StructBlock(s).snet = s.snet
      BY DEF StructBlock
    <2>2. ASSUME NEW i \in 1 .. n PROVE b[2 + i].snet = w.structs[i].snet
      BY <1>4, <2>1
    <2>3. ASSUME NEW j \in 3 .. 2 + n PROVE j \in 1 .. Len(b) /\ b[j].snet = w.structs[j - 2].snet
      <3>1. j - 2 \in 1 .. n /\ 2 + (j - 2) = j
        BY <1>1
      <3>2. QED
        BY <1>1, <1>2, <1>4, <2>2, <3>1
    <2>4. \A j \in 1 .. Len(b) : b[j].k = "breach" <=> j \in 3 .. 2 + n
      BY <1>3, KindsAre DEF n
    <2>5. \A j \in 3 .. 2 + n : j - 2 \in 1 .. n
      BY <1>1
    <2> HIDE DEF b
    <2>6. QED
      BY <2>3, <2>4, <2>5 DEF At, n
  <1>7. CASE at = {}
    <2>1. hits = {}
      BY <1>6, <1>7
    <2>2. Amended(b, snet, cell) = b
      BY <2>1 DEF Amended, SelectInSeq
    <2>3. QED
      BY <1>5, <1>7, <2>2
  <1>8. CASE at # {}
    <2> DEFINE h == Min(hits)
               f == h - 2
               s == w.structs[f]
               c == [b[h] EXCEPT !.rows[b[h].elevRow].cells[1] = cell]
               u == [b EXCEPT ![h] = c]
    <2>1. hits # {}
      <3>1. PICK i \in at : TRUE
        BY <1>8
      <3>2. 2 + i \in 3 .. 2 + n /\ (2 + i) - 2 = i
        BY <1>1, <3>1 DEF At, n
      <3>3. QED
        BY <1>6, <3>1, <3>2
    <2>2. hits \in SUBSET Nat
      BY <1>1, <1>6
    <2>3. h \in hits /\ \A j \in hits : h <= j
      BY <2>1, <2>2, MinIs
    <2>4. h \in 3 .. 2 + n /\ f \in 1 .. n /\ h = 2 + f /\ f \in at
      BY <1>1, <1>6, <2>3
    <2> HIDE DEF h
    <2>5. IsFirst(f, at)
      <3>1. ASSUME NEW i \in at PROVE f <= i
        <4>1. 2 + i \in hits /\ i \in 1 .. n
          BY <1>1, <1>6 DEF At, n
        <4> HIDE DEF hits
        <4>2. QED
          BY <1>1, <2>3, <2>4, <4>1
      <3>2. QED
        BY <2>4, <3>1 DEF IsFirst
    <2>6. \A i \in 1 .. n : IsFirst(i, at) => i = f
      <3>1. ASSUME NEW i \in 1 .. n, IsFirst(i, at) PROVE i = f
        <4>1. i <= f /\ f <= i
          BY <2>4, <2>5, <3>1 DEF IsFirst
        <4>2. QED
          BY <1>1, <2>4, <4>1
      <3>2. QED
        BY <3>1
    <2>7. Amended(b, snet, cell) = u
      <3>1. SelectInSeq(b, LAMBDA y : y.k = "breach" /\ y.snet = snet) = h
        BY <2>1 DEF SelectInSeq, h
      <3>2. h # 0
        BY <1>1, <2>4
      <3>3. Amended(b, snet, cell) = [b EXCEPT ![h].rows[b[h].elevRow].cells[1] = cell]
        <4> HIDE DEF b
        <4>1. QED
          BY <3>1, <3>2 DEF Amended
      <3> HIDE DEF b
      <3>4. QED
        BY <3>3
    <2>8. b[h] = StructBlock(s) /\ s \in Struct
      BY <1>1, <1>4, <2>4
    <2>9. c = StructBlock([s EXCEPT !.elev = cell]) /\ [s EXCEPT !.elev = cell] \in Struct
      <3> HIDE DEF b, s, h
      <3>1. c = [StructBlock(s) EXCEPT !.rows[StructBlock(s).elevRow].cells[1] = cell]
        BY <2>8
      <3>2. QED
        BY <2>8, <3>1, StructIsAmended
    <2>10. x.structs[f] = [s EXCEPT !.elev = cell]
      <3> HIDE DEF f, x
      <3>1. QED
        BY <1>5, <2>4, <2>5
    <2>11. c = StructBlock(x.structs[f]) /\ c \in Blocks
      BY <2>9, <2>10 DEF Blocks
    <2> HIDE DEF c, b, x, s
    <2>12. h \in 1 .. Len(b)
      BY <1>1, <1>2, <1>4, <2>4
    <2>13. /\ u \in Seq(Blocks) /\ Len(u) = Len(b)
           /\ \A j \in 1 .. Len(b) : u[j] = IF j = h THEN c ELSE b[j]
      <3>1. b \in Seq(Blocks)
        BY <1>4
      <3>2. QED
        BY <2>11, <2>12, <3>1, ExceptSeq
    <2> HIDE DEF u, f
    <2>14. Lays(u, x)
      <3>1. u[1] = DefaultBlock(Opening) /\ u[2] = DefaultBlock(BreachHead(x.structs))
        <4>1. BreachHead(x.structs) = BreachHead(w.structs)
          BY <1>5 DEF BreachHead, n
        <4>2. b[1] = DefaultBlock(Opening) /\ b[2] = DefaultBlock(BreachHead(w.structs))
          BY <1>3 DEF Lays, n, m, k
        <4>3. 1 \in 1 .. Len(b) /\ 2 \in 1 .. Len(b) /\ h # 1 /\ h # 2
          BY <1>1, <1>2, <1>4, <2>4
        <4>4. QED
          BY <2>13, <4>1, <4>2, <4>3
      <3>2. ASSUME NEW i \in 1 .. n PROVE u[2 + i] = StructBlock(x.structs[i])
        <4>1. 2 + i \in 1 .. Len(b) /\ (2 + i = h <=> i = f)
          BY <1>1, <1>2, <1>4, <2>4
        <4>2. CASE i = f
          BY <2>11, <2>13, <4>1, <4>2
        <4>3. CASE i # f
          BY <1>4, <1>5, <2>6, <2>13, <4>1, <4>3
        <4>4. QED
          BY <4>2, <4>3
      <3>3. ASSUME NEW i \in 1 .. m PROVE u[2 + n + i] = OutletBlockOf(w.outlets[i])
        <4>1. 2 + n + i \in 1 .. Len(b) /\ 2 + n + i # h
          BY <1>1, <1>2, <1>4, <2>4
        <4>2. b[2 + n + i] = OutletBlockOf(w.outlets[i])
          BY <1>3 DEF Lays, n, m, k
        <4>3. QED
          BY <2>13, <4>1, <4>2
      <3>4. ASSUME NEW i \in 1 .. k PROVE u[2 + n + m + i] = SkipBlocks(w.skip)[i]
        <4>1. 2 + n + m + i \in 1 .. Len(b) /\ 2 + n + m + i # h
          BY <1>1, <1>2, <1>4, <2>4
        <4>2. b[2 + n + m + i] = SkipBlocks(w.skip)[i]
          BY <1>3 DEF Lays, n, m, k
        <4>3. QED
          BY <2>13, <4>1, <4>2
      <3>5. QED
        BY <1>4, <1>5, <2>13, <3>1, <3>2, <3>3, <3>4 DEF Lays, n, m, k
    <2>15. u = BlocksOf(x)
      BY <1>5, <2>14, BlocksLieSo, LaidInOneWay
    <2>16. QED
      BY <2>7, <2>15 DEF b, x
  <1>9. QED
    BY <1>7, <1>8

-----------------------------------------------------------------------------
(* Updating the flows of an outlet. *)

LEMMA FlowsAre ==
  ASSUME NEW series \in Seq(Cells \X Cells), NEW flows \in Seq(Cells), Len(flows) = Len(series)
  PROVE  /\ WithFlows(series, flows) \in Seq(Cells \X Cells)
         /\ Len(WithFlows(series, flows)) = Len(series) /\ Len(series) \in Nat
         /\ \A p \in 1 .. Len(series) : WithFlows(series, flows)[p] = <<series[p][1], flows[p]>>
  <1>1. Len(series) \in Nat /\ DOMAIN series = 1 .. Len(series)
    BY LenProperties
  <1>2. \A p \in 1 .. Len(series) : <<series[p][1], flows[p]>> \in Cells \X Cells
    <2>1. ASSUME NEW p \in 1 .. Len(series) PROVE <<series[p][1], flows[p]>> \in Cells \X Cells
      <3>1. series[p] \in Cells \X Cells /\ flows[p] \in Cells
        BY ElementOfSeq
      <3>2. QED
        BY <3>1
    <2>2. QED
      BY <2>1
  <1>3. WithFlows(series, flows) = [p \in 1 .. Len(series) |-> <<series[p][1], flows[p]>>]
    BY <1>1 DEF WithFlows
  <1>4. WithFlows(series, flows) \in Seq(Cells \X Cells)
    BY <1>1, <1>2, <1>3, IsASeq
  <1>5. QED
    BY <1>1, <1>3, <1>4

\* The outlet with other flows.
WithSeries(o, flows) ==
  [name |-> o.name, series |-> WithFlows(o.series, flows), emptyLine |-> o.emptyLine]

LEMMA SeriesIsReplaced ==
  ASSUME NEW o \in Outlet, NEW flows \in Seq(Cells), Len(flows) = Len(o.series)
  PROVE  /\ WithSeries(o, flows) \in Outlet
         /\ [o EXCEPT !.series = WithFlows(@, flows)] = WithSeries(o, flows)
         /\ [OutletBlockOf(o) EXCEPT !.series = WithFlows(@, flows)] = OutletBlockOf(WithSeries(o, flows))
  <1> DEFINE s == WithFlows(o.series, flows)
  <1>1. o.name \in Labels /\ o.emptyLine \in BOOLEAN /\ o.series \in Seq(Cells \X Cells)
    BY OutletParts
  <1>2. s \in Seq(Cells \X Cells) /\ Len(s) = Len(o.series)
    BY <1>1, FlowsAre
  <1>3. o = [name |-> o.name, series |-> o.series, emptyLine |-> o.emptyLine]
    BY DEF Outlet
  <1> HIDE DEF s
  <1>4. [o EXCEPT !.series = s] = [name |-> o.name, series |-> s, emptyLine |-> o.emptyLine]
    BY <1>3
  <1>5. [OutletBlockOf(o) EXCEPT !.series = s] =
          [k |-> "outlet", name |-> o.name, count |-> Len(o.series), series |-> s, extra |-> OutletEnd]
    BY DEF OutletBlockOf
  <1>6. OutletBlockOf(o).series = o.series
    BY DEF OutletBlockOf
  <1>7. WithSeries(o, flows) = [name |-> o.name, series |-> s, emptyLine |-> o.emptyLine]
    BY DEF WithSeries, s
  <1>8. WithSeries(o, flows) \in Outlet
    BY <1>1, <1>2, <1>7 DEF Outlet
  <1>9. OutletBlockOf(WithSeries(o, flows)) =
          [k |-> "outlet", name |-> o.name, count |-> Len(o.series), series |-> s, extra |-> OutletEnd]
    BY <1>2, <1>7 DEF OutletBlockOf
  <1>10. /\ [o EXCEPT !.series = WithFlows(@, flows)] = [o EXCEPT !.series = s]
         /\ [OutletBlockOf(o) EXCEPT !.series = WithFlows(@, flows)] = [OutletBlockOf(o) EXCEPT !.series = s]
    BY <1>6 DEF s
  <1>11. QED
    BY <1>4, <1>5, <1>7, <1>8, <1>9, <1>10

\* What a file should say once the flows of its i-th outlet are others.
WithOutletSeries(w, i, flows) ==
  [w EXCEPT !.outlets[i].series = WithFlows(@, flows)]

LEMMA OutletSeriesIs ==
  ASSUME NEW w \in Wants, NEW i \in 1 .. Len(w.outlets), NEW flows \in Seq(Cells),
         Len(flows) = Len(w.outlets[i].series)
  PROVE  LET x == WithOutletSeries(w, i, flows)
         IN  /\ x \in Wants /\ x.structs = w.structs /\ x.skip = w.skip
             /\ Len(x.outlets) = Len(w.outlets)
             /\ \A j \in 1 .. Len(w.outlets) :
                  x.outlets[j] = IF j = i THEN WithSeries(w.outlets[i], flows) ELSE w.outlets[j]
  <1> DEFINE o == w.outlets[i]
             c == WithSeries(o, flows)
             u == [w.outlets EXCEPT ![i] = c]
             x == WithOutletSeries(w, i, flows)
             m == Len(w.outlets)
  <1>1. w.outlets \in Seq(Outlet) /\ o \in Outlet /\ m \in Nat
    BY WantIs
  <1>2. c \in Outlet /\ [o EXCEPT !.series = WithFlows(@, flows)] = c
    BY <1>1, SeriesIsReplaced
  <1>3. x = [w EXCEPT !.outlets = [@ EXCEPT ![i] = [o EXCEPT !.series = WithFlows(@, flows)]]]
    BY DEF WithOutletSeries
  <1> HIDE DEF c
  <1>4. x = [w EXCEPT !.outlets = u]
    BY <1>2, <1>3
  <1>5. /\ u \in Seq(Outlet) /\ Len(u) = m
        /\ \A j \in 1 .. m : u[j] = IF j = i THEN c ELSE w.outlets[j]
    BY <1>1, <1>2, ExceptSeq
  <1> HIDE DEF u, x
  <1>6. x \in Wants /\ x.structs = w.structs /\ x.skip = w.skip /\ x.outlets = u
    BY <1>4, <1>5 DEF Wants
  <1>7. QED
    BY <1>5, <1>6 DEF c, x

\* The first outlet of the data whose name contains the pattern.
OutletWanted(w, pattern) == SelectInSeq(w.outlets, LAMBDA x : x.name \in NamesWith[pattern])

LEMMA OutletForIs ==
  ASSUME NEW w \in Wants, NEW pattern
  PROVE  LET b == BlocksOf(w)
             o == OutletWanted(w, pattern)
         IN  /\ OutletFor(b, pattern) = IF o = 0 THEN 0 ELSE 2 + Len(w.structs) + o
             /\ o # 0 => /\ o \in 1 .. Len(w.outlets)
                         /\ b[2 + Len(w.structs) + o] = OutletBlockOf(w.outlets[o])
                         /\ 2 + Len(w.structs) + o # 0
  <1> DEFINE b == BlocksOf(w)
             n == Len(w.structs)
             m == Len(w.outlets)
             k == Len(SkipBlocks(w.skip))
             names == NamesWith[pattern]
             at == {i \in 1 .. m : w.outlets[i].name \in names}
             hits == {j \in 1 .. Len(b) : b[j].k = "outlet" /\ b[j].name \in names}
  <1>1. n \in Nat /\ m \in Nat
    BY WantIs
  <1>2. k \in Nat
    BY BlockPartsAre
  <1>3. Lays(b, w)
    BY BlocksLieSo
  <1>4. /\ Len(b) = 2 + n + m + k
        /\ \A i \in 1 .. m : b[2 + n + i] = OutletBlockOf(w.outlets[i])
    BY <1>3 DEF Lays
  <1>5. \A j \in 1 .. Len(b) : b[j].k = "outlet" <=> j \in 3 + n .. 2 + n + m
    BY <1>3, KindsAre
  <1>6. OutletFor(b, pattern) = IF hits = {} THEN 0 ELSE Min(hits)
    BY DEF OutletFor, SelectInSeq
  <1>7. OutletWanted(w, pattern) = IF at = {} THEN 0 ELSE Min(at)
    BY DEF OutletWanted, SelectInSeq
  <1> HIDE DEF n, m, k, names, b
  <1>8. \A j : j \in hits <=> j \in 3 + n .. 2 + n + m /\ j - (2 + n) \in at
    <2>1. \A o : OutletBlockOf(o).name = o.name
      BY DEF OutletBlockOf
    <2>2. ASSUME NEW j \in 3 + n .. 2 + n + m
          PROVE  j \in 1 .. Len(b) /\ j - (2 + n) \in 1 .. m /\ b[j].name = w.outlets[j - (2 + n)].name
      <3>1. j - (2 + n) \in 1 .. m /\ 2 + n + (j - (2 + n)) = j /\ j \in 1 .. Len(b)
        BY <1>1, <1>2, <1>4
      <3>2. QED
        BY <1>4, <2>1, <3>1
    <2>3. QED
      BY <1>5, <2>2
  <1>9. CASE at = {}
    <2>1. hits = {}
      BY <1>8, <1>9
    <2>2. QED
      BY <1>6, <1>7, <1>9, <2>1 DEF b
  <1>10. CASE at # {}
    <2> DEFINE o == Min(at)
               h == Min(hits)
    <2>1. at \in SUBSET Nat
      BY <1>1
    <2>2. o \in at /\ \A i \in at : o <= i
      BY <1>10, <2>1, MinIs
    <2>3. \A i \in at : i \in 1 .. m /\ 2 + n + i \in hits
      <3>1. ASSUME NEW i \in at PROVE i \in 1 .. m /\ 2 + n + i \in hits
        <4>1. 2 + n + i \in 3 + n .. 2 + n + m /\ (2 + n + i) - (2 + n) = i
          BY <1>1
        <4> HIDE DEF hits
        <4>2. QED
          BY <1>8, <4>1
      <3>2. QED
        BY <3>1
    <2>4. hits # {}
      BY <1>10, <2>3
    <2>5. hits \in SUBSET Nat
      BY <1>1, <1>8
    <2>6. h \in hits /\ \A j \in hits : h <= j
      BY <2>4, <2>5, MinIs
    <2>7. h \in 3 + n .. 2 + n + m /\ h - (2 + n) \in at
      BY <1>8, <2>6
    <2>8. o \in 1 .. m /\ 2 + n + o \in hits
      BY <2>2, <2>3
    <2> HIDE DEF o, h, hits, at
    <2>9. h <= 2 + n + o /\ o <= h - (2 + n)
      BY <2>2, <2>6, <2>7, <2>8
    <2>10. h = 2 + n + o /\ o # 0 /\ h # 0
      BY <1>1, <2>7, <2>8, <2>9
    <2>11. OutletFor(b, pattern) = h /\ OutletWanted(w, pattern) = o
      BY <1>6, <1>7, <1>10, <2>4 DEF h, o, hits, at
    <2>12. b[2 + n + o] = OutletBlockOf(w.outlets[o])
      BY <1>4, <2>8
    <2>13. QED
      BY <2>8, <2>10, <2>11, <2>12 DEF b, n, m
  <1>11. QED
    BY <1>9, <1>10

\* Replacing the flows of what was read is reading the file of the other flows.
LEMMA UpdatedIs ==
  ASSUME NEW w \in Wants, NEW o \in 1 .. Len(w.outlets), NEW flows \in Seq(Cells),
         Len(flows) = Len(w.outlets[o].series)
  PROVE  UpdatedOutlet(BlocksOf(w), 2 + Len(w.structs) + o, flows) = BlocksOf(WithOutletSeries(w, o, flows))
  <1> DEFINE b == BlocksOf(w)
             x == WithOutletSeries(w, o, flows)
             n == Len(w.structs)
             m == Len(w.outlets)
             k == Len(SkipBlocks(w.skip))
             h == 2 + n + o
             c == OutletBlockOf(WithSeries(w.outlets[o], flows))
             u == [b EXCEPT ![h] = c]
  <1>1. n \in Nat /\ m \in Nat /\ w.outlets[o] \in Outlet
    BY WantIs
  <1>2. k \in Nat
    BY BlockPartsAre
  <1>3. Lays(b, w)
    BY BlocksLieSo
  <1>4. /\ b \in Seq(Blocks) /\ Len(b) = 2 + n + m + k
        /\ b[1] = DefaultBlock(Opening) /\ b[2] = DefaultBlock(BreachHead(w.structs))
        /\ \A i \in 1 .. n : b[2 + i] = StructBlock(w.structs[i])
        /\ \A i \in 1 .. m : b[2 + n + i] = OutletBlockOf(w.outlets[i])
        /\ \A i \in 1 .. k : b[2 + n + m + i] = SkipBlocks(w.skip)[i]
    BY <1>3 DEF Lays
  <1>5. /\ x \in Wants /\ x.structs = w.structs /\ x.skip = w.skip /\ Len(x.outlets) = m
        /\ \A j \in 1 .. m : x.outlets[j] = IF j = o THEN WithSeries(w.outlets[o], flows) ELSE w.outlets[j]
    BY OutletSeriesIs
  <1>6. WithSeries(w.outlets[o], flows) \in Outlet
    BY <1>1, SeriesIsReplaced
  <1>7. c \in Blocks /\ c = OutletBlockOf(x.outlets[o])
    BY <1>5, <1>6 DEF Blocks
  <1>8. [OutletBlockOf(w.outlets[o]) EXCEPT !.series = WithFlows(@, flows)] = c
    BY <1>1, SeriesIsReplaced
  <1>9. b[h] = OutletBlockOf(w.outlets[o])
    BY <1>4
  <1>0. o \in 1 .. m
    OBVIOUS
  <1> HIDE DEF n, m, k, b, c, x
  <1>10. h \in 1 .. Len(b)
    BY <1>0, <1>1, <1>2, <1>4
  <1> HIDE DEF h
  <1>11. UpdatedOutlet(b, h, flows) = u
    <2>1. UpdatedOutlet(b, h, flows) = [b EXCEPT ![h] = [b[h] EXCEPT !.series = WithFlows(@, flows)]]
      BY DEF UpdatedOutlet
    <2>2. [b[h] EXCEPT !.series = WithFlows(@, flows)] = c
      BY <1>8, <1>9
    <2>3. QED
      BY <2>1, <2>2
  <1>12. /\ u \in Seq(Blocks) /\ Len(u) = Len(b)
         /\ \A j \in 1 .. Len(b) : u[j] = IF j = h THEN c ELSE b[j]
    <2>1. b \in Seq(Blocks) /\ c \in Blocks
      BY <1>4, <1>7
    <2>2. QED
      BY <1>10, <2>1, ExceptSeq
  <1> HIDE DEF u
  <1>13. Lays(u, x)
    <2>1. u[1] = DefaultBlock(Opening) /\ u[2] = DefaultBlock(BreachHead(x.structs))
      <3>1. 1 \in 1 .. Len(b) /\ 2 \in 1 .. Len(b) /\ h # 1 /\ h # 2
        BY <1>0, <1>1, <1>2, <1>4 DEF h
      <3>2. QED
        BY <1>4, <1>5, <1>12, <3>1
    <2>2. ASSUME NEW i \in 1 .. n PROVE u[2 + i] = StructBlock(w.structs[i])
      <3>1. 2 + i \in 1 .. Len(b) /\ 2 + i # h
        BY <1>0, <1>1, <1>2, <1>4 DEF h
      <3>2. QED
        BY <1>4, <1>12, <3>1
    <2>3. ASSUME NEW i \in 1 .. m PROVE u[2 + n + i] = OutletBlockOf(x.outlets[i])
      <3>1. 2 + n + i \in 1 .. Len(b) /\ (2 + n + i = h <=> i = o)
        BY <1>0, <1>1, <1>2, <1>4 DEF h
      <3>2. CASE i = o
        BY <1>7, <1>12, <3>1, <3>2
      <3>3. CASE i # o
        BY <1>4, <1>5, <1>12, <3>1, <3>3
      <3>4. QED
        BY <3>2, <3>3
    <2>4. ASSUME NEW i \in 1 .. k PROVE u[2 + n + m + i] = SkipBlocks(w.skip)[i]
      <3>1. 2 + n + m + i \in 1 .. Len(b) /\ 2 + n + m + i # h
        BY <1>0, <1>1, <1>2, <1>4 DEF h
      <3>2. QED
        BY <1>4, <1>12, <3>1
    <2>5. QED
      BY <1>4, <1>5, <1>12, <2>1, <2>2, <2>3, <2>4 DEF Lays, n, m, k
  <1>14. u = BlocksOf(x)
    BY <1>5, <1>13, BlocksLieSo, LaidInOneWay
  <1>15. QED
    BY <1>11, <1>14 DEF b, h, n, x

-----------------------------------------------------------------------------
(* Every fragility result in turn. *)

Results == [name : Labels, elev : Cells]

\* The id of a structure of the geometry, or 0.
LEMMA IdsAre ==
  ASSUME NEW name
  PROVE  LET named == {i \in DOMAIN Structures : Structures[i].connection = name}
             last == CHOOSE i \in named : \A j \in named : j <= i
         IN  IdOf(name) = IF named = {} THEN 0 ELSE Structures[last].id
  <1> DEFINE named == {i \in DOMAIN Structures : Structures[i].connection = name}
             last == CHOOSE i \in named : \A j \in named : j <= i
             n == Len(Structures)
  <1>1. DOMAIN Structures = 1 .. n /\ n \in Nat
    BY InputsAssumption, LenProperties
  <1>2. SelectLastInSeq(Structures, LAMBDA s : s.connection = name) = IF named # {} THEN last ELSE 0
    BY <1>1 DEF SelectLastInSeq, Max
  <1>3. CASE named = {}
    BY <1>2, <1>3 DEF IdOf
  <1>4. CASE named # {}
    <2>1. named \in SUBSET Nat /\ \A i \in named : i <= n
      BY <1>1
    <2>2. \E i \in named : \A j \in named : j <= i
      BY <1>1, <1>4, <2>1, Greatest
    <2>3. last \in named
      BY <2>2
    <2>4. last # 0
      <3>1. \A i \in named : i # 0
        BY <1>1
      <3> HIDE DEF last, named
      <3>2. QED
        BY <2>3, <3>1
    <2> HIDE DEF last, named
    <2>5. QED
      BY <1>2, <1>4, <2>4 DEF IdOf, last, named
  <1>5. QED
    BY <1>3, <1>4

\* The structures a result leaves depend on the structures before it alone.
LEMMA ResultIs ==
  ASSUME NEW w \in Wants, NEW r \in Results
  PROVE  /\ WithResult(w, r) \in Wants
         /\ WithResult(w, r).outlets = w.outlets /\ WithResult(w, r).skip = w.skip
         /\ Len(WithResult(w, r).structs) = Len(w.structs)
         /\ Amended(BlocksOf(w), IdOf(r.name), r.elev) = BlocksOf(WithResult(w, r))
         /\ \A x \in Wants : x.structs = w.structs => WithResult(x, r).structs = WithResult(w, r).structs
  <1> DEFINE named == {i \in DOMAIN Structures : Structures[i].connection = r.name}
             last == CHOOSE i \in named : \A j \in named : j <= i
             id == Structures[last].id
  <1>1. r.elev \in Cells
    BY DEF Results
  <1>2. IdOf(r.name) = IF named = {} THEN 0 ELSE id
    BY IdsAre
  <1>3. \A x : WithResult(x, r) = IF named = {} THEN x ELSE WithElevation(x, id, r.elev)
    BY DEF WithResult
  <1> HIDE DEF named, id
  <1>4. CASE named = {}
    <2>1. At(w, 0) = {}
      <3>1. \A i \in 1 .. Len(w.structs) : w.structs[i].snet # 0
        <4>1. \A i \in 1 .. Len(w.structs) : w.structs[i] \in Struct
          BY WantIs
        <4>2. \A s \in Struct : s.snet # 0
          BY DEF Struct
        <4>3. QED
          BY <4>1, <4>2
      <3>2. QED
        BY <3>1 DEF At
    <2>2. WithElevation(w, 0, r.elev) = w
      BY <1>1, <2>1, ElevationIs
    <2>3. Amended(BlocksOf(w), 0, r.elev) = BlocksOf(w)
      BY <1>1, <2>2, AmendedIs
    <2>4. QED
      BY <1>2, <1>3, <1>4, <2>3
  <1>5. CASE named # {}
    <2> DEFINE v == WithElevation(w, id, r.elev)
    <2>1. v \in Wants /\ v.outlets = w.outlets /\ v.skip = w.skip /\ Len(v.structs) = Len(w.structs)
      BY <1>1, ElevationIs
    <2>2. Amended(BlocksOf(w), id, r.elev) = BlocksOf(v)
      BY <1>1, AmendedIs
    <2>3. ASSUME NEW x \in Wants
          PROVE  x.structs = w.structs => WithElevation(x, id, r.elev).structs = v.structs
      <3>1. WithElevation(x, id, r.elev).structs =
              [i \in DOMAIN x.structs |->
                 IF i \in {h \in DOMAIN x.structs : x.structs[h].snet = id}
                    /\ \A j \in {h \in DOMAIN x.structs : x.structs[h].snet = id} : i <= j
                 THEN [x.structs[i] EXCEPT !.elev = r.elev] ELSE x.structs[i]]
        BY DEF WithElevation, Wants
      <3>2. v.structs =
              [i \in DOMAIN w.structs |->
                 IF i \in {h \in DOMAIN w.structs : w.structs[h].snet = id}
                    /\ \A j \in {h \in DOMAIN w.structs : w.structs[h].snet = id} : i <= j
                 THEN [w.structs[i] EXCEPT !.elev = r.elev] ELSE w.structs[i]]
        BY DEF WithElevation, Wants
      <3> DEFINE xs == x.structs
                 ws == w.structs
                 to == WithElevation(x, id, r.elev).structs
                 of == v.structs
      <3> HIDE DEF to, of
      <3>3. xs = ws => to = of
        BY <3>1, <3>2 DEF to, of
      <3>4. QED
        BY <3>3 DEF to, of
    <2> HIDE DEF v
    <2>4. QED
      BY <1>2, <1>3, <1>5, <2>1, <2>2, <2>3 DEF v
  <1>6. QED
    BY <1>4, <1>5

\* What can be read from a file that RAS laid out.
Files == {BlocksOf(w) : w \in Wants}

AmendSteps == [b \in Files |-> [r \in Results |-> Amended(b, IdOf(r.name), r.elev)]]
ResultSteps == [w \in Wants |-> [r \in Results |-> WithResult(w, r)]]

LEMMA AmendStepsAre ==
  /\ AmendSteps \in Steps(Files, Results)
  /\ \A b \in Files, r \in Results : AmendSteps[b][r] = Amended(b, IdOf(r.name), r.elev)
  <1>1. ASSUME NEW b \in Files, NEW r \in Results PROVE Amended(b, IdOf(r.name), r.elev) \in Files
    <2>1. PICK w \in Wants : b = BlocksOf(w)
      BY DEF Files
    <2>2. WithResult(w, r) \in Wants /\ Amended(b, IdOf(r.name), r.elev) = BlocksOf(WithResult(w, r))
      BY <2>1, ResultIs
    <2>3. QED
      BY <2>2 DEF Files
  <1> DEFINE B == Files
             R == Results
  <1>2. \A b \in B, r \in R : Amended(b, IdOf(r.name), r.elev) \in B
    BY <1>1
  <1> HIDE DEF B, R
  <1>3. QED
    BY <1>2 DEF Steps, AmendSteps, B, R

LEMMA ResultStepsAre ==
  /\ ResultSteps \in Steps(Wants, Results)
  /\ \A b \in Wants, r \in Results : ResultSteps[b][r] = WithResult(b, r)
  <1> DEFINE B == Wants
             R == Results
  <1>1. \A b \in B, r \in R : WithResult(b, r) \in B
    BY ResultIs
  <1> HIDE DEF B, R
  <1>2. QED
    BY <1>1 DEF Steps, ResultSteps, B, R

LEMMA AmendAllIsFold ==
  ASSUME NEW blocks \in Files, NEW results \in Seq(Results)
  PROVE  AmendAll(blocks, results) = Folded(AmendSteps, blocks, results, Files)
  <1> DEFINE B == Files
             D == DOMAIN results
             F == AmendSteps
             IsFold(f) == f = [s \in SUBSET D |->
               IF s = {} THEN blocks ELSE Amended(f[s \ {Max(s)}], IdOf(results[Max(s)].name), results[Max(s)].elev)]
             c == CHOOSE f : IsFold(f)
  <1>1. (\A i \in D : results[i] \in Results) /\ D = DOMAIN results
    OBVIOUS
  <1>2. F \in Steps(B, Results) /\ \A b \in B, r \in Results : F[b][r] = Amended(b, IdOf(r.name), r.elev)
    BY AmendStepsAre
  <1>3. AmendAll(blocks, results) = c[D]
    BY DEF AmendAll, FoldLeft, MapThenFoldSet
  <1>4. blocks \in B
    OBVIOUS
  <1> HIDE DEF B, D, F
  <1>5. IsFold(c)
    <2>1. PICK f : f = [s \in SUBSET D |-> f[s]] /\ \A s \in SUBSET D :
            /\ f[s] = IF s = {} THEN blocks ELSE F[f[s \ {Max(s)}]][results[Max(s)]]
            /\ f[s] \in B
            /\ s # {} => s \ {Max(s)} \in SUBSET D /\ Max(s) \in D
      BY <1>2, <1>4, FoldOver DEF D
    <2>2. ASSUME NEW s \in SUBSET D
          PROVE  f[s] = IF s = {} THEN blocks ELSE Amended(f[s \ {Max(s)}], IdOf(results[Max(s)].name), results[Max(s)].elev)
      <3>1. s # {} => f[s \ {Max(s)}] \in B /\ results[Max(s)] \in Results
        BY <1>1, <2>1
      <3>2. QED
        BY <1>2, <2>1, <3>1
    <2>3. IsFold(f)
      BY <2>1, <2>2
    <2>4. QED
      BY <2>3
  <1> HIDE DEF c
  <1>6. ASSUME NEW s \in SUBSET D, s # {}, c[s \ {Max(s)}] \in B
        PROVE  c[s] = F[c[s \ {Max(s)}]][results[Max(s)]]
    <2>1. Max(s) \in D
      BY <1>2, <1>4, <1>6, FoldOver DEF D
    <2>2. QED
      BY <1>1, <1>2, <1>5, <1>6, <2>1
  <1>7. c[{}] = blocks
    BY <1>5
  <1>8. IsFoldOf(c, F, blocks, results, B)
    BY <1>1, <1>6, <1>7 DEF IsFoldOf
  <1>9. c[DOMAIN results] = Folded(F, blocks, results, B)
    BY <1>2, <1>4, <1>8, FoldIsFolded
  <1>10. QED
    BY <1>1, <1>3, <1>9 DEF B, F

LEMMA ResultsAreFold ==
  ASSUME NEW w \in Wants, NEW results \in Seq(Results)
  PROVE  FoldLeft(WithResult, w, results) = Folded(ResultSteps, w, results, Wants)
  <1> DEFINE B == Wants
             D == DOMAIN results
             F == ResultSteps
             IsFold(f) == f = [s \in SUBSET D |->
               IF s = {} THEN w ELSE WithResult(f[s \ {Max(s)}], results[Max(s)])]
             c == CHOOSE f : IsFold(f)
  <1>1. (\A i \in D : results[i] \in Results) /\ D = DOMAIN results
    OBVIOUS
  <1>2. F \in Steps(B, Results) /\ \A b \in B, r \in Results : F[b][r] = WithResult(b, r)
    BY ResultStepsAre
  <1>3. FoldLeft(WithResult, w, results) = c[D]
    BY DEF FoldLeft, MapThenFoldSet
  <1>4. w \in B
    OBVIOUS
  <1> HIDE DEF B, D, F
  <1>5. IsFold(c)
    <2>1. PICK f : f = [s \in SUBSET D |-> f[s]] /\ \A s \in SUBSET D :
            /\ f[s] = IF s = {} THEN w ELSE F[f[s \ {Max(s)}]][results[Max(s)]]
            /\ f[s] \in B
            /\ s # {} => s \ {Max(s)} \in SUBSET D /\ Max(s) \in D
      BY <1>2, <1>4, FoldOver DEF D
    <2>2. ASSUME NEW s \in SUBSET D
          PROVE  f[s] = IF s = {} THEN w ELSE WithResult(f[s \ {Max(s)}], results[Max(s)])
      <3>1. s # {} => f[s \ {Max(s)}] \in B /\ results[Max(s)] \in Results
        BY <1>1, <2>1
      <3>2. QED
        BY <1>2, <2>1, <3>1
    <2>3. IsFold(f)
      BY <2>1, <2>2
    <2>4. QED
      BY <2>3
  <1> HIDE DEF c
  <1>6. ASSUME NEW s \in SUBSET D, s # {}, c[s \ {Max(s)}] \in B
        PROVE  c[s] = F[c[s \ {Max(s)}]][results[Max(s)]]
    <2>1. Max(s) \in D
      BY <1>2, <1>4, <1>6, FoldOver DEF D
    <2>2. QED
      BY <1>1, <1>2, <1>5, <1>6, <2>1
  <1>7. c[{}] = w
    BY <1>5
  <1>8. IsFoldOf(c, F, w, results, B)
    BY <1>1, <1>6, <1>7 DEF IsFoldOf
  <1>9. c[DOMAIN results] = Folded(F, w, results, B)
    BY <1>2, <1>4, <1>8, FoldIsFolded
  <1>10. QED
    BY <1>1, <1>3, <1>9 DEF B, F

\* What the file says once every result has been applied.
AfterAll(w, results) == FoldLeft(WithResult, w, results)

LEMMA ResultNext ==
  ASSUME NEW w \in Wants, NEW results \in Seq(Results), NEW r \in Results
  PROVE  /\ AfterAll(w, Append(results, r)) = WithResult(AfterAll(w, results), r)
         /\ AmendAll(BlocksOf(w), Append(results, r)) =
              Amended(AmendAll(BlocksOf(w), results), IdOf(r.name), r.elev)
         /\ AfterAll(w, results) \in Wants
  <1> DEFINE F == ResultSteps
             G == AmendSteps
             b == BlocksOf(w)
             more == Append(results, r)
  <1>1. /\ F \in Steps(Wants, Results) /\ \A x \in Wants, q \in Results : F[x][q] = WithResult(x, q)
        /\ G \in Steps(Files, Results)
        /\ \A x \in Files, q \in Results : G[x][q] = Amended(x, IdOf(q.name), q.elev)
    BY ResultStepsAre, AmendStepsAre
  <1>2. b \in Files /\ more \in Seq(Results)
    BY AppendProperties DEF Files
  <1> HIDE DEF F, G, b
  <1>3. /\ AfterAll(w, results) = Folded(F, w, results, Wants)
        /\ AmendAll(b, results) = Folded(G, b, results, Files)
    BY <1>2, ResultsAreFold, AmendAllIsFold DEF AfterAll, F, G
  <1>4. /\ AfterAll(w, more) = Folded(F, w, more, Wants)
        /\ AmendAll(b, more) = Folded(G, b, more, Files)
    BY <1>2, ResultsAreFold, AmendAllIsFold DEF AfterAll, F, G
  <1>5. /\ Folded(F, w, more, Wants) = F[Folded(F, w, results, Wants)][r]
        /\ Folded(F, w, results, Wants) \in Wants
    BY <1>1, FoldedAppend
  <1>6. /\ Folded(G, b, more, Files) = G[Folded(G, b, results, Files)][r]
        /\ Folded(G, b, results, Files) \in Files
    BY <1>1, <1>2, FoldedAppend
  <1>7. QED
    BY <1>1, <1>3, <1>4, <1>5, <1>6 DEF b

\* Amending what was read, result after result, is reading the file of the
\* structures as the results leave them; outlets and skip-dss stay as they are.
LEMMA ResultsAreApplied ==
  ASSUME NEW w \in Wants, NEW results \in Seq(Results)
  PROVE  /\ AfterAll(w, results) \in Wants
         /\ AfterAll(w, results).outlets = w.outlets /\ AfterAll(w, results).skip = w.skip
         /\ Len(AfterAll(w, results).structs) = Len(w.structs)
         /\ AmendAll(BlocksOf(w), results) = BlocksOf(AfterAll(w, results))
         /\ \A x \in Wants : x.structs = w.structs =>
              AfterAll(x, results).structs = AfterAll(w, results).structs
  <1> DEFINE n == Len(results)
             p(m) == SubSeq(results, 1, m)
             Holding(q) ==
               /\ AfterAll(w, q) \in Wants
               /\ AfterAll(w, q).outlets = w.outlets /\ AfterAll(w, q).skip = w.skip
               /\ Len(AfterAll(w, q).structs) = Len(w.structs)
               /\ AmendAll(BlocksOf(w), q) = BlocksOf(AfterAll(w, q))
               /\ \A x \in Wants : x.structs = w.structs =>
                    AfterAll(x, q).structs = AfterAll(w, q).structs
             T == {m \in Nat : m <= n => Holding(p(m))}
  <1>1. n \in Nat
    OBVIOUS
  <1>2. 0 \in T
    <2>1. p(0) = <<>>
      BY SubSeqEmpty
    <2> DEFINE none == <<>>
    <2>2. none \in Seq(Results)
      OBVIOUS
    <2>3. p(0) = none /\ none = <<>>
      BY <2>1
    <2> HIDE DEF none, p
    <2>4. \A x \in Wants : AfterAll(x, none) = x /\ AmendAll(BlocksOf(x), none) = BlocksOf(x)
      <3>1. ASSUME NEW x \in Wants PROVE AfterAll(x, none) = x /\ AmendAll(BlocksOf(x), none) = BlocksOf(x)
        <4>1. /\ AfterAll(x, none) = Folded(ResultSteps, x, none, Wants)
              /\ AmendAll(BlocksOf(x), none) = Folded(AmendSteps, BlocksOf(x), none, Files)
              /\ BlocksOf(x) \in Files
          BY <2>2, ResultsAreFold, AmendAllIsFold DEF AfterAll, Files
        <4>2. ResultSteps \in Steps(Wants, Results) /\ AmendSteps \in Steps(Files, Results)
          BY ResultStepsAre, AmendStepsAre
        <4>3. QED
          BY <2>2, <2>3, <4>1, <4>2, FoldedEmpty
      <3>2. QED
        BY <3>1
    <2>5. Holding(none)
      BY <2>4
    <2> HIDE DEF Holding
    <2>6. QED
      BY <2>3, <2>5
  <1>3. ASSUME NEW m \in Nat, m \in T PROVE m + 1 \in T
    <2>1. SUFFICES ASSUME m + 1 <= n PROVE Holding(p(m + 1))
      BY DEF Holding
    <2> DEFINE r == results[m + 1]
               q == p(m)
    <2>2. m < n
      BY <1>1, <2>1
    <2>3. q \in Seq(Results) /\ r \in Results /\ p(m + 1) = Append(q, r)
      BY <2>2, NextPrefix
    <2>4. Holding(q)
      <3> HIDE DEF Holding
      <3>1. QED
        BY <1>1, <1>3, <2>2
    <2> HIDE DEF p, q, r
    <2>5. Holding(Append(q, r))
      <3> DEFINE v == AfterAll(w, q)
      <3>1. /\ v \in Wants /\ v.outlets = w.outlets /\ v.skip = w.skip
            /\ Len(v.structs) = Len(w.structs) /\ AmendAll(BlocksOf(w), q) = BlocksOf(v)
            /\ \A x \in Wants : x.structs = w.structs => AfterAll(x, q).structs = v.structs
        BY <2>4
      <3>2. /\ AfterAll(w, Append(q, r)) = WithResult(v, r)
            /\ AmendAll(BlocksOf(w), Append(q, r)) = Amended(AmendAll(BlocksOf(w), q), IdOf(r.name), r.elev)
        BY <2>3, ResultNext
      <3>3. \A x \in Wants : AfterAll(x, Append(q, r)) = WithResult(AfterAll(x, q), r) /\ AfterAll(x, q) \in Wants
        BY <2>3, ResultNext
      <3> HIDE DEF v
      <3>4. /\ WithResult(v, r) \in Wants
            /\ WithResult(v, r).outlets = v.outlets /\ WithResult(v, r).skip = v.skip
            /\ Len(WithResult(v, r).structs) = Len(v.structs)
            /\ Amended(BlocksOf(v), IdOf(r.name), r.elev) = BlocksOf(WithResult(v, r))
            /\ \A x \in Wants : x.structs = v.structs => WithResult(x, r).structs = WithResult(v, r).structs
        BY <2>3, <3>1, ResultIs
      <3>5. QED
        BY <3>1, <3>2, <3>3, <3>4
    <2> HIDE DEF Holding
    <2>6. QED
      BY <2>3, <2>5
  <1> HIDE DEF T
  <1>4. n \in T
    BY <1>1, <1>2, <1>3, Induction
  <1>5. p(n) = results
    BY SubSeqFull
  <1>6. Holding(results)
    <2> HIDE DEF n, p, Holding
    <2>1. QED
      BY <1>1, <1>4, <1>5 DEF T
  <1>7. QED
    BY <1>6

-----------------------------------------------------------------------------
(* Empty lines. *)

HasBlank(rows) == \E i \in 1 .. Len(rows) : rows[i] = Blank

LEMMA FirstRow ==
  ASSUME NEW u, NEW s, NEW t, Joins(u, s, t), Len(s) \in Nat, Len(t) \in Nat, Len(s) >= 1
  PROVE  u[1] = s[1] /\ Len(u) \in Nat /\ Len(u) >= 1
  BY DEF Joins

LEMMA BlankInParts ==
  ASSUME NEW S, NEW s \in Seq(S), NEW t \in Seq(S)
  PROVE  HasBlank(s \o t) <=> HasBlank(s) \/ HasBlank(t)
  <1> DEFINE u == s \o t
  <1>1. u \in Seq(S) /\ Joins(u, s, t)
    BY Joined
  <1>2. Len(s) \in Nat /\ Len(t) \in Nat
    OBVIOUS
  <1> HIDE DEF u
  <1>3. Len(u) = Len(s) + Len(t)
    BY <1>1 DEF Joins
  <1>4. HasBlank(s) => HasBlank(u)
    <2>1. ASSUME NEW i \in 1 .. Len(s), s[i] = Blank PROVE HasBlank(u)
      <3>1. i \in 1 .. Len(u) /\ u[i] = Blank
        BY <1>1, <1>2, <1>3, <2>1 DEF Joins
      <3>2. QED
        BY <3>1 DEF HasBlank
    <2>2. QED
      BY <2>1 DEF HasBlank
  <1>5. HasBlank(t) => HasBlank(u)
    <2>1. ASSUME NEW i \in 1 .. Len(t), t[i] = Blank PROVE HasBlank(u)
      <3>1. Len(s) + i \in 1 .. Len(u) /\ Len(s) + i > Len(s) /\ (Len(s) + i) - Len(s) = i
        BY <1>2, <1>3
      <3>2. u[Len(s) + i] = t[i]
        BY <1>1, <3>1 DEF Joins
      <3>3. QED
        BY <2>1, <3>1, <3>2 DEF HasBlank
    <2>2. QED
      BY <2>1 DEF HasBlank
  <1>6. HasBlank(u) => HasBlank(s) \/ HasBlank(t)
    <2>1. ASSUME NEW i \in 1 .. Len(u), u[i] = Blank PROVE HasBlank(s) \/ HasBlank(t)
      <3>1. CASE i <= Len(s)
        <4>1. i \in 1 .. Len(s) /\ s[i] = Blank
          BY <1>1, <1>2, <2>1, <3>1 DEF Joins
        <4>2. QED
          BY <4>1 DEF HasBlank
      <3>2. CASE i > Len(s)
        <4>1. i - Len(s) \in 1 .. Len(t) /\ t[i - Len(s)] = Blank
          BY <1>1, <2>1, <3>2 DEF Joins
        <4>2. QED
          BY <4>1 DEF HasBlank
      <3>3. QED
        BY <1>2, <1>3, <3>1, <3>2
    <2>2. QED
      BY <2>1 DEF HasBlank
  <1>7. QED
    BY <1>4, <1>5, <1>6 DEF u

LEMMA BlankIsKept ==
  ASSUME NEW S, NEW ss \in Seq(Seq(S)), NEW i \in 1 .. Len(ss), HasBlank(ss[i])
  PROVE  HasBlank(FlattenSeq(ss))
  <1> DEFINE u == FlattenSeq(ss)
  <1>1. PICK f : Flattens(f, ss, S)
    BY FlatteningOf DEF Flattens
  <1>2. IsAt(f, ss, i)
    BY <1>1, FlattenedAt
  <1>3. PICK j \in 1 .. Len(ss[i]) : ss[i][j] = Blank
    BY DEF HasBlank
  <1>4. ss[i] \in Seq(S) /\ u \in Seq(S)
    BY FlattenIsSeq
  <1>5. Len(ss[i]) \in Nat /\ Len(u) \in Nat
    <2> HIDE DEF u
    <2>1. QED
      BY <1>4
  <1> HIDE DEF u
  <1>6. /\ Len(f[i - 1]) \in Nat /\ Len(f[i]) = Len(f[i - 1]) + Len(ss[i]) /\ Len(f[i]) <= Len(u)
        /\ u[Len(f[i - 1]) + j] = ss[i][j]
    BY <1>2, <1>3 DEF IsAt, u
  <1>7. Len(f[i - 1]) + j \in 1 .. Len(u)
    <2> DEFINE a == Len(f[i - 1])
               b == Len(ss[i])
               c == Len(u)
               d == Len(f[i])
    <2>1. a \in Nat /\ b \in Nat /\ c \in Nat /\ d = a + b /\ d <= c /\ j \in 1 .. b
      BY <1>3, <1>5, <1>6
    <2> HIDE DEF a, b, c, d
    <2>2. a + j \in 1 .. c
      BY <2>1
    <2>3. QED
      BY <2>2 DEF a, c
  <1>8. HasBlank(u)
    BY <1>3, <1>6, <1>7 DEF HasBlank
  <1>9. QED
    BY <1>8 DEF u

\* The rows a file without an empty line has.
Written == LaidOut \cup SkipHeads

LEMMA WrittenIsNotBlank ==
  /\ Written \subseteq Rows /\ LaidOut \subseteq Written
  /\ \A rows \in Seq(Written) : ~HasBlank(rows)
  /\ HasBlank(<<Blank>>)
  <1>1. Written \subseteq Rows /\ LaidOut \subseteq Written
    BY DEF Written, Rows
  <1>2. \A r \in Written : r # Blank
    BY RowsAre DEF Written, LaidOut
  <1>3. ASSUME NEW rows \in Seq(Written) PROVE ~HasBlank(rows)
    <2>1. \A i \in 1 .. Len(rows) : rows[i] \in Written
      BY ElementOfSeq
    <2>2. QED
      BY <1>2, <2>1 DEF HasBlank
  <1>4. HasBlank(<<Blank>>)
    <2> DEFINE b == Blank
    <2> HIDE DEF b
    <2>1. Len(<<b>>) = 1 /\ <<b>>[1] = b
      OBVIOUS
    <2>2. QED
      BY <2>1 DEF HasBlank, b
  <1>5. QED
    BY <1>1, <1>3, <1>4

LEMMA OutletHasBlank ==
  ASSUME NEW o \in Outlet
  PROVE  /\ ~o.emptyLine => OutletRows(o) \in Seq(Written)
         /\ o.emptyLine => HasBlank(OutletRows(o))
  <1> DEFINE h == OutletHead(o)
             d == SeriesRows(o.series)
             g == Gap(o)
             e == OutletEnd
             S == Rows
  <1>1. CASE ~o.emptyLine
    <2>1. OutletRows(o) \in Seq(LaidOut)
      BY <1>1, OutletLaidOut
    <2>2. QED
      BY <1>1, <2>1, WrittenIsNotBlank, SeqMonotonic
  <1>2. CASE o.emptyLine
    <2>1. /\ h \in Seq(LaidOut) /\ d \in Seq(LaidOut) /\ e \in Seq(LaidOut)
          /\ OutletRows(o) = ((h \o d) \o g) \o e
      BY OutletParts
    <2>2. h \in Seq(S) /\ d \in Seq(S) /\ e \in Seq(S)
      <3> HIDE DEF h, d, e, S
      <3>1. LaidOut \subseteq S
        BY FixedParts DEF S
      <3>2. QED
        BY <2>1, <3>1, SeqMonotonic
    <2>3. g = <<Blank>> /\ g \in Seq(S) /\ HasBlank(g)
      BY <1>2, SkipRowsAre, WrittenIsNotBlank DEF Gap
    <2> HIDE DEF h, d, g, e, S
    <2>4. h \o d \in Seq(S)
      BY <2>2, Joined
    <2>5. (h \o d) \o g \in Seq(S) /\ HasBlank((h \o d) \o g)
      BY <2>3, <2>4, Joined, BlankInParts
    <2>6. HasBlank(((h \o d) \o g) \o e)
      BY <2>2, <2>5, BlankInParts
    <2>7. QED
      BY <1>2, <2>1, <2>6
  <1>3. QED
    BY <1>1, <1>2

\* The reader panics exactly on the files that have an empty line for a reason.
LEMMA BlankIsNotClean ==
  ASSUME NEW w \in Wants
  PROVE  /\ HasBlank(Render(w)) <=> ~Clean(w)
         /\ ReadPanics(Render(w)) <=> ~Clean(w)
  <1> DEFINE h == Opening \o BreachRows(w.structs)
             oo == OutletSeqs(w.outlets)
             f == FlattenSeq(oo)
             k == SkipPart(w.skip)
             hf == h \o f
             r == Render(w)
             S == Rows
  <1>1. /\ Opening \in Seq(S) /\ BreachRows(w.structs) \in Seq(S) /\ f \in Seq(S) /\ k \in Seq(S)
        /\ r \in Seq(S)
    BY RenderParts
  <1>2. r = hf \o k
    BY RenderParts
  <1>3. /\ w.structs \in Seq(Struct) /\ w.outlets \in Seq(Outlet)
        /\ \A i \in 1 .. Len(w.outlets) : w.outlets[i] \in Outlet
    BY WantIs
  <1>4. oo \in Seq(Seq(S)) /\ Len(oo) = Len(w.outlets) /\ \A i \in 1 .. Len(oo) : oo[i] = OutletRows(w.outlets[i])
    BY <1>3, OutletSeqsAre
  <1> HIDE DEF S
  <1>5. h \in Seq(S) /\ Joins(h, Opening, BreachRows(w.structs))
    BY <1>1, Joined
  <1> HIDE DEF h, f, k, oo, r
  <1>6. hf \in Seq(S) /\ Joins(hf, h, f)
    BY <1>1, <1>5, Joined
  <1> HIDE DEF hf
  <1>7. Joins(hf \o k, hf, k)
    BY <1>1, <1>6, Joined
  <1>8. ASSUME ~Clean(w) PROVE HasBlank(r)
    <2>1. CASE w.skip = "after an empty line"
      <3> DEFINE b == <<Blank>>
                 s == SkipDssRows
      <3>1. b \in Seq(S) /\ s \in Seq(S) /\ HasBlank(b)
        BY SkipRowsAre, WrittenIsNotBlank DEF S
      <3>2. k = b \o s
        BY <2>1 DEF k, SkipPart
      <3> HIDE DEF b, s
      <3>3. HasBlank(k)
        BY <3>1, <3>2, BlankInParts
      <3>4. QED
        BY <1>1, <1>2, <1>6, <3>3, BlankInParts
    <2>2. ASSUME NEW i \in 1 .. Len(w.outlets), w.outlets[i].emptyLine PROVE HasBlank(r)
      <3>1. HasBlank(OutletRows(w.outlets[i]))
        BY <1>3, <2>2, OutletHasBlank
      <3>2. i \in 1 .. Len(oo) /\ HasBlank(oo[i])
        BY <1>4, <3>1
      <3>3. HasBlank(f)
        BY <1>4, <3>2, BlankIsKept DEF f
      <3>4. HasBlank(hf)
        BY <1>1, <1>5, <3>3, BlankInParts DEF hf
      <3>5. QED
        BY <1>1, <1>2, <1>6, <3>4, BlankInParts
    <2>3. QED
      BY <1>8, <2>1, <2>2 DEF Clean
  <1>9. ASSUME Clean(w) PROVE ~HasBlank(r)
    <2>1. Opening \in Seq(LaidOut) /\ BreachRows(w.structs) \in Seq(LaidOut)
      BY <1>3, FixedParts, BreachHeadIs
    <2>2. h \in Seq(LaidOut)
      BY <2>1, Joined DEF h
    <2>3. h \in Seq(Written)
      BY <2>2, WrittenIsNotBlank, SeqMonotonic
    <2>4. \A i \in 1 .. Len(oo) : oo[i] \in Seq(Written)
      BY <1>3, <1>4, <1>9, OutletHasBlank DEF Clean
    <2>5. oo \in Seq(Seq(Written))
      <3> DEFINE Q == Seq(Written)
                 n == Len(oo)
      <3>1. oo = [i \in 1 .. n |-> oo[i]] /\ n \in Nat
        BY <1>4, LenProperties
      <3> HIDE DEF Q
      <3>2. \A i \in 1 .. n : oo[i] \in Q
        BY <2>4 DEF Q
      <3> HIDE DEF n
      <3>3. oo \in Seq(Q)
        BY <3>1, <3>2, IsASeq
      <3>4. QED
        BY <3>3 DEF Q
    <2>6. f \in Seq(Written)
      BY <2>5, FlattenIsSeq DEF f
    <2>7. k \in Seq(Written)
      <3>1. CASE w.skip = "no"
        BY <3>1 DEF k, SkipPart
      <3>2. CASE w.skip = "next row"
        <4>1. k = <<Header("extra", ""), Row(<<1>>), Header("skip", "")>>
          BY <3>2 DEF k, SkipPart, SkipDssRows
        <4>2. Header("extra", "") \in Written /\ Row(<<1>>) \in Written /\ Header("skip", "") \in Written
          BY FixedParts DEF Written, SkipHeads, LaidOut
        <4> DEFINE x == Header("extra", "")
                   y == Row(<<1>>)
                   z == Header("skip", "")
                   W == Written
        <4>3. x \in W /\ y \in W /\ z \in W
          BY <4>2
        <4> HIDE DEF x, y, z, W
        <4>4. <<x, y, z>> \in Seq(W)
          BY <4>3
        <4>5. QED
          BY <4>1, <4>4 DEF x, y, z, W
      <3>3. QED
        BY <1>9, <3>1, <3>2, WantIs DEF Clean
    <2>8. hf \in Seq(Written)
      BY <2>3, <2>6, Joined DEF hf
    <2>9. hf \o k \in Seq(Written)
      BY <2>7, <2>8, Joined
    <2>10. QED
      BY <1>2, <2>9, WrittenIsNotBlank
  <1>10. r[1] # Blank /\ Len(r) \in Nat
    <2>1. Len(Opening) = 2 /\ Opening[1] = Header("version", "")
      BY FixedParts
    <2>2. Len(BreachRows(w.structs)) \in Nat /\ Len(f) \in Nat /\ Len(k) \in Nat /\ Len(r) \in Nat
      BY <1>1
    <2>3. Len(h) >= 1 /\ Len(h) \in Nat /\ h[1] = Opening[1]
      <3> DEFINE n == Len(Opening)
      <3>0. n = 2
        BY <2>1
      <3> HIDE DEF n
      <3>1. n \in Nat /\ n >= 1
        BY <3>0
      <3> USE DEF n
      <3>2. QED
        BY <1>5, <2>2, <3>1, FirstRow
    <2>4. Len(hf) >= 1 /\ Len(hf) \in Nat /\ hf[1] = h[1]
      BY <1>6, <2>2, <2>3, FirstRow
    <2>5. r[1] = hf[1]
      BY <1>2, <1>7, <2>2, <2>4, FirstRow
    <2>6. Header("version", "") # Blank
      <3>1. Header("version", "").k = "header" /\ Blank.k = "blank" /\ "header" # "blank"
        BY HeadersAre, RowsAre
      <3>2. QED
        BY <3>1
    <2>7. QED
      BY <2>1, <2>2, <2>3, <2>4, <2>5, <2>6
  <1>11. ReadPanics(r) <=> HasBlank(r)
    BY <1>10 DEF ReadPanics, HasBlank
  <1>12. QED
    BY <1>8, <1>9, <1>11 DEF r

-----------------------------------------------------------------------------
(* The commands of skip-dss. *)

LEMMA HoldsAtTheEnd ==
  ASSUME NEW S, NEW s \in Seq(S), NEW t \in Seq(S)
  PROVE  Holds(s \o t, t)
  <1> DEFINE u == s \o t
             a == Len(s)
             b == Len(t)
             c == Len(u)
  <1>1. u \in Seq(S) /\ Joins(u, s, t)
    BY Joined
  <1>2. a \in Nat /\ b \in Nat
    OBVIOUS
  <1> HIDE DEF u
  <1>3. c = a + b
    BY <1>1 DEF Joins
  <1>4. SubSeq(u, a + 1, c) = t
    BY <1>1, PartsOf
  <1> HIDE DEF a, b, c
  <1>5. a + 1 \in 1 .. c - b + 1 /\ (a + 1) + b - 1 = c
    BY <1>2, <1>3
  <1>6. \E i \in 1 .. c - b + 1 : SubSeq(u, i, i + b - 1) = t
    BY <1>4, <1>5
  <1>7. Holds(u, t)
    BY <1>6 DEF Holds, b, c
  <1>8. QED
    BY <1>7 DEF u

\* What a file should say once skip-dss has been appended.
WithSkip(w, how) == [w EXCEPT !.skip = how]

LEMMA SkipIsThere ==
  ASSUME NEW w \in Wants
  PROVE  w.skip # "no" => HasSkipDss(Render(w))
  <1> DEFINE h == Opening \o BreachRows(w.structs)
             f == FlattenSeq(OutletSeqs(w.outlets))
             k == SkipPart(w.skip)
             s == SkipDssRows
             b == <<Blank>>
             S == Rows
             g == h \o f
             gb == g \o b
  <1>1. /\ Opening \in Seq(S) /\ BreachRows(w.structs) \in Seq(S) /\ f \in Seq(S)
        /\ Render(w) = g \o k
    BY RenderParts
  <1>2. s \in Seq(S) /\ b \in Seq(S)
    BY SkipRowsAre
  <1>3. /\ w.skip = "next row" => k = s
        /\ w.skip = "after an empty line" => k = b \o s
    BY DEF SkipPart
  <1>4. h \in Seq(S)
    BY <1>1, Joined
  <1> HIDE DEF h, f, k, s, b, S
  <1>5. g \in Seq(S)
    BY <1>1, <1>4, Joined
  <1> HIDE DEF g
  <1>6. gb \in Seq(S)
    BY <1>2, <1>5, Joined
  <1>7. g \o (b \o s) = gb \o s
    BY <1>2, <1>5, Associative, SMTT(20)
  <1> HIDE DEF gb
  <1>8. Holds(g \o s, s) /\ Holds(gb \o s, s)
    BY <1>2, <1>5, <1>6, HoldsAtTheEnd
  <1>9. w.skip \in {"no", "next row", "after an empty line"}
    BY WantIs
  <1>10. w.skip # "no" => Holds(Render(w), s)
    BY <1>1, <1>3, <1>7, <1>8, <1>9
  <1>11. QED
    BY <1>10 DEF HasSkipDss, s

LEMMA SkipIsAppended ==
  ASSUME NEW w \in Wants, w.skip = "no"
  PROVE  /\ WithSkip(w, "next row") \in Wants /\ WithSkip(w, "after an empty line") \in Wants
         /\ WithSkip(w, "next row").skip = "next row"
         /\ WithSkip(w, "after an empty line").skip = "after an empty line"
         /\ Render(WithSkip(w, "next row")) = (Render(w) \o <<>>) \o SkipDssRows
         /\ Render(WithSkip(w, "after an empty line")) = (Render(w) \o <<Blank>>) \o SkipDssRows
  <1> DEFINE h == Opening \o BreachRows(w.structs)
             f == FlattenSeq(OutletSeqs(w.outlets))
             s == SkipDssRows
             b == <<Blank>>
             none == <<>>
             S == Rows
             g == h \o f
             x == WithSkip(w, "next row")
             y == WithSkip(w, "after an empty line")
  <1>1. /\ x \in Wants /\ x.structs = w.structs /\ x.outlets = w.outlets /\ x.skip = "next row"
        /\ y \in Wants /\ y.structs = w.structs /\ y.outlets = w.outlets
        /\ y.skip = "after an empty line"
    BY DEF Wants, WithSkip
  <1>2. /\ SkipPart("no") = none /\ SkipPart("next row") = s
        /\ SkipPart("after an empty line") = b \o s
    BY DEF SkipPart
  <1>3. /\ Opening \in Seq(S) /\ BreachRows(w.structs) \in Seq(S) /\ f \in Seq(S)
        /\ Render(w) = g \o SkipPart("no")
    BY RenderParts
  <1>4. s \in Seq(S) /\ b \in Seq(S) /\ none \in Seq(S)
    <2>1. s \in Seq(S) /\ b \in Seq(S)
      BY SkipRowsAre
    <2> HIDE DEF S, s, b
    <2>2. none \in Seq(S)
      OBVIOUS
    <2>3. QED
      BY <2>1, <2>2
  <1>5. h \in Seq(S)
    BY <1>3, Joined
  <1> HIDE DEF x, y
  <1>6. Render(x) = g \o SkipPart("next row")
    <2>1. Render(x) = ((Opening \o BreachRows(x.structs)) \o FlattenSeq(OutletSeqs(x.outlets)))
                        \o SkipPart(x.skip)
      BY <1>1, RenderParts
    <2>2. QED
      BY <1>1, <2>1
  <1>7. Render(y) = g \o SkipPart("after an empty line")
    <2>1. Render(y) = ((Opening \o BreachRows(y.structs)) \o FlattenSeq(OutletSeqs(y.outlets)))
                        \o SkipPart(y.skip)
      BY <1>1, RenderParts
    <2>2. QED
      BY <1>1, <2>1
  <1>8. none = <<>>
    OBVIOUS
  <1> HIDE DEF h, f, s, b, none, S
  <1>9. g \in Seq(S)
    BY <1>3, <1>5, Joined
  <1> HIDE DEF g
  <1>10. g \o none = g
    BY <1>8, <1>9, ConcatEmptySeq
  <1>11. Render(w) = g
    BY <1>2, <1>3, <1>10
  <1>12. g \o (b \o s) = (g \o b) \o s
    <2>1. \A t, u, v \in Seq(S) : (t \o u) \o v = t \o (u \o v)
      BY Associative
    <2>2. g \in Seq(S) /\ b \in Seq(S) /\ s \in Seq(S)
      BY <1>4, <1>9
    <2>3. QED
      BY <2>1, <2>2
  <1>13. Render(x) = (Render(w) \o none) \o s /\ Render(y) = (Render(w) \o b) \o s
    BY <1>2, <1>6, <1>7, <1>10, <1>11, <1>12
  <1>14. QED
    BY <1>1, <1>13 DEF x, y, none, b, s

-----------------------------------------------------------------------------
(* The invariant. *)

\* The file is what RAS would have laid out for the data, which is well formed,
\* and a reader that panicked had an empty line to read.  The second conjunct is
\* FileSaysWhatWasAsked; a step keeps it because the data stays well formed, and
\* because the files the reader gets through are the ones that can be read back.
EditsInv ==
  /\ want \in Wants
  /\ file = Render(want)
  /\ terminated \in BOOLEAN
  /\ outcome \in {"ok", "error", "panic"}
  /\ edits \in 0 .. MaxEdits
  /\ outcome = "panic" => ~Clean(want)

LEMMA ReaderPanicsKeeps ==
  ASSUME EditsInv, ReaderPanics
  PROVE  EditsInv'
  <1>1. ReadPanics(file) /\ edits < MaxEdits /\ edits \in 0 .. MaxEdits
    BY DEF ReaderPanics, MayEdit, EditsInv
  <1>2. /\ outcome' = "panic" /\ edits' = edits + 1
        /\ file' = file /\ terminated' = terminated /\ want' = want
    BY DEF ReaderPanics, Stops
  <1>3. ~Clean(want)
    BY <1>1, BlankIsNotClean DEF EditsInv
  <1>4. edits' \in 0 .. MaxEdits
    BY <1>1, <1>2, MaxEditsAssumption
  <1>5. QED
    BY <1>2, <1>3, <1>4 DEF EditsInv

LEMMA StopsWithErrorKeeps ==
  ASSUME EditsInv, MayEdit, Stops("error")
  PROVE  EditsInv'
  <1>1. edits < MaxEdits /\ edits \in 0 .. MaxEdits
    BY DEF MayEdit, EditsInv
  <1>2. /\ outcome' = "error" /\ edits' = edits + 1
        /\ file' = file /\ terminated' = terminated /\ want' = want
    BY DEF Stops
  <1>3. edits' \in 0 .. MaxEdits
    BY <1>1, <1>2, MaxEditsAssumption
  <1>4. QED
    BY <1>2, <1>3 DEF EditsInv

\* What a file that can be read says once it has been read and written again.
LEMMA Reads ==
  ASSUME EditsInv, ~ReadPanics(file)
  PROVE  want \in Wants /\ Clean(want) /\ Read(file) = BlocksOf(want)
  <1>1. want \in Wants /\ file = Render(want)
    BY DEF EditsInv
  <1>2. Clean(want)
    BY <1>1, BlankIsNotClean
  <1>3. QED
    BY <1>1, <1>2, ReadIsBlocks

LEMMA WritesKeeps ==
  ASSUME EditsInv, MayEdit, NEW w \in Wants, Clean(w),
         Writes(BlocksOf(w)), want' = Rewritten(w)
  PROVE  EditsInv'
  <1>1. edits < MaxEdits /\ edits \in 0 .. MaxEdits /\ outcome = "ok"
    BY DEF MayEdit, EditsInv
  <1>2. /\ file' = Write(BlocksOf(w)) /\ terminated' = TRUE /\ edits' = edits + 1
        /\ outcome' = outcome
    BY DEF Writes
  <1>3. file' = Render(want') /\ want' \in Wants
    BY <1>2, WriteIsRendered, RewrittenIs
  <1>4. edits' \in 0 .. MaxEdits
    BY <1>1, <1>2, MaxEditsAssumption
  <1>5. QED
    BY <1>1, <1>2, <1>3, <1>4 DEF EditsInv

LEMMA UpdateBreachKeeps ==
  ASSUME EditsInv, NEW results \in Curves, UpdateBreach(results)
  PROVE  EditsInv'
  <1> DEFINE w == AfterAll(want, results)
  <1>1. results \in Seq(Results)
    BY InputsAssumption DEF Results
  <1>2. MayEdit /\ ~ReadPanics(file)
    BY DEF UpdateBreach
  <1>3. want \in Wants /\ Clean(want) /\ Read(file) = BlocksOf(want)
    BY <1>2, Reads
  <1>4. /\ w \in Wants /\ w.outlets = want.outlets /\ w.skip = want.skip
        /\ AmendAll(BlocksOf(want), results) = BlocksOf(w)
    BY <1>1, <1>3, ResultsAreApplied
  <1>5. Clean(w)
    BY <1>3, <1>4 DEF Clean
  <1>6. Writes(AmendAll(Read(file), results)) /\ want' = Rewritten(w)
    BY DEF UpdateBreach, AfterAll
  <1> HIDE DEF w
  <1>7. Writes(BlocksOf(w))
    BY <1>3, <1>4, <1>6
  <1>8. QED
    BY <1>2, <1>4, <1>5, <1>6, <1>7, WritesKeeps

LEMMA UpdateOutletKeeps ==
  ASSUME EditsInv, NEW pattern \in Patterns, NEW flows \in Flows, UpdateOutlet(pattern, flows)
  PROVE  EditsInv'
  <1> DEFINE o == OutletWanted(want, pattern)
             b == BlocksOf(want)
             i == OutletFor(b, pattern)
             w == WithOutletSeries(want, o, flows)
  <1>1. flows \in Seq(Cells)
    BY InputsAssumption
  <1>2. MayEdit /\ ~ReadPanics(file)
    BY DEF UpdateOutlet
  <1>3. want \in Wants /\ Clean(want) /\ Read(file) = b
    BY <1>2, Reads
  <1>4. /\ i # 0 /\ Len(flows) = Len(b[i].series) /\ Writes(UpdatedOutlet(b, i, flows))
        /\ want' = Rewritten(w)
    BY <1>3 DEF UpdateOutlet, OutletWanted, WithOutletSeries
  <1>5. /\ o \in 1 .. Len(want.outlets) /\ i = 2 + Len(want.structs) + o
        /\ b[i] = OutletBlockOf(want.outlets[o])
    BY <1>3, <1>4, OutletForIs
  <1>6. Len(flows) = Len(want.outlets[o].series)
    BY <1>4, <1>5 DEF OutletBlockOf
  <1> HIDE DEF o, i
  <1>7. w \in Wants /\ UpdatedOutlet(b, i, flows) = BlocksOf(w)
    BY <1>1, <1>3, <1>5, <1>6, OutletSeriesIs, UpdatedIs
  <1>8. Clean(w)
    <2>1. /\ w.skip = want.skip /\ Len(w.outlets) = Len(want.outlets)
          /\ \A j \in 1 .. Len(want.outlets) :
               w.outlets[j] = IF j = o THEN WithSeries(want.outlets[o], flows) ELSE want.outlets[j]
      BY <1>1, <1>3, <1>5, <1>6, OutletSeriesIs
    <2>2. \A x : WithSeries(x, flows).emptyLine = x.emptyLine
      BY DEF WithSeries
    <2>3. QED
      BY <1>3, <1>5, <2>1, <2>2 DEF Clean
  <1> HIDE DEF b, w
  <1>9. Writes(BlocksOf(w))
    BY <1>4, <1>7
  <1>10. QED
    BY <1>2, <1>4, <1>7, <1>8, <1>9, WritesKeeps

LEMMA SkipDssKeeps ==
  ASSUME EditsInv, SkipDss
  PROVE  EditsInv'
  <1>1. edits < MaxEdits /\ edits \in 0 .. MaxEdits /\ outcome = "ok" /\ want \in Wants
        /\ file = Render(want) /\ terminated \in BOOLEAN
    BY DEF SkipDss, MayEdit, EditsInv
  <1>2. edits' = edits + 1 /\ outcome' = "ok"
    BY <1>1 DEF SkipDss
  <1>3. edits' \in 0 .. MaxEdits
    BY <1>1, <1>2, MaxEditsAssumption
  <1>4. CASE HasSkipDss(file)
    <2>1. file' = file /\ terminated' = terminated /\ want' = want
      BY <1>4 DEF SkipDss
    <2>2. QED
      BY <1>1, <1>2, <1>3, <2>1 DEF EditsInv
  <1>5. CASE ~HasSkipDss(file)
    <2>1. want.skip = "no"
      BY <1>1, <1>5, SkipIsThere
    <2>2. /\ file' = file \o (IF terminated THEN <<Blank>> ELSE <<>>) \o SkipDssRows
          /\ terminated' = FALSE
          /\ want' = WithSkip(want, IF terminated THEN "after an empty line" ELSE "next row")
      BY <1>5 DEF SkipDss, WithSkip
    <2>3. want' \in Wants /\ file' = Render(want')
      <3>1. CASE terminated
        BY <1>1, <2>1, <2>2, <3>1, SkipIsAppended
      <3>2. CASE ~terminated
        BY <1>1, <2>1, <2>2, <3>2, SkipIsAppended
      <3>3. QED
        BY <3>1, <3>2
    <2>4. QED
      BY <1>2, <1>3, <2>2, <2>3 DEF EditsInv
  <1>6. QED
    BY <1>4, <1>5

LEMMA InitiallyLaidOut == EditsInit => EditsInv
  <1> SUFFICES ASSUME EditsInit PROVE EditsInv
    OBVIOUS
  <1> DEFINE Given == [name : Labels, series : Seq(Cells \X Cells)]
             Fresh(x) == [name |-> x.name, series |-> x.series, emptyLine |-> FALSE]
  <1>1. PICK c \in Contents :
          want = [structs |-> c.structs, skip |-> "no",
                  outlets |-> [i \in DOMAIN c.outlets |-> Fresh(c.outlets[i])]]
    BY DEF EditsInit
  <1>2. c.structs \in Seq(Struct) /\ c.outlets \in Seq(Given)
    BY <1>1, ContentsAssumption DEF Struct
  <1>3. \A x \in Given : Fresh(x) \in Outlet
    BY DEF Outlet
  <1> DEFINE oo == [i \in DOMAIN c.outlets |-> Fresh(c.outlets[i])]
             n == Len(c.outlets)
  <1>4. n \in Nat /\ DOMAIN c.outlets = 1 .. n /\ \A i \in 1 .. n : c.outlets[i] \in Given
    <2> HIDE DEF Given
    <2>1. QED
      BY <1>2, LenProperties, ElementOfSeq
  <1> HIDE DEF Given, Fresh, n
  <1>5. oo \in Seq(Outlet)
    <2>1. oo = [i \in 1 .. n |-> Fresh(c.outlets[i])]
      BY <1>4
    <2>2. \A i \in 1 .. n : Fresh(c.outlets[i]) \in Outlet
      BY <1>3, <1>4
    <2>3. QED
      BY <1>4, <2>1, <2>2, IsASeq
  <1> HIDE DEF oo
  <1>6. want \in Wants
    <2>1. want = [structs |-> c.structs, skip |-> "no", outlets |-> oo]
      BY <1>1 DEF oo
    <2>2. QED
      BY <1>2, <1>5, <2>1 DEF Wants
  <1>7. file = Render(want) /\ terminated \in BOOLEAN /\ outcome = "ok" /\ edits = 0
    BY DEF EditsInit
  <1>8. QED
    BY <1>6, <1>7, MaxEditsAssumption DEF EditsInv

\* The inductive invariant of the three link actions that edit the b-file: after
\* any number of them the file is the layout of what was asked for.
THEOREM EditsInvariant == EditsSpec => []EditsInv
  <1>1. EditsInit => EditsInv
    BY InitiallyLaidOut
  <1>2. EditsInv /\ [EditsNext]_editsVars => EditsInv'
    <2> SUFFICES ASSUME EditsInv, [EditsNext]_editsVars PROVE EditsInv'
      OBVIOUS
    <2>1. CASE ReaderPanics
      BY <2>1, ReaderPanicsKeeps
    <2>2. CASE InputMissing
      BY <2>2, StopsWithErrorKeeps DEF InputMissing
    <2>3. ASSUME NEW results \in Curves, UpdateBreach(results) PROVE EditsInv'
      BY <2>3, UpdateBreachKeeps
    <2>4. ASSUME NEW pattern \in Patterns, NEW flows \in Flows, UpdateOutlet(pattern, flows) PROVE EditsInv'
      BY <2>4, UpdateOutletKeeps
    <2>5. ASSUME NEW pattern \in Patterns, NEW flows \in Flows, OutletNotUpdated(pattern, flows) PROVE EditsInv'
      BY <2>5, StopsWithErrorKeeps DEF OutletNotUpdated
    <2>6. CASE SkipDss
      BY <2>6, SkipDssKeeps
    <2>7. CASE UNCHANGED editsVars
      BY <2>7 DEF editsVars, EditsInv
    <2>8. QED
      BY <2>1, <2>2, <2>3, <2>4, <2>5, <2>6, <2>7 DEF EditsNext
  <1>3. QED
    BY <1>1, <1>2, PTL DEF EditsSpec

-----------------------------------------------------------------------------
(* What follows from the invariant. *)

\* After any sequence of the three link actions, whatever they are given, the
\* b-file says row by row what RAS would have laid out for the edited data
\* (ras/bFile.go InitBFile and Bfile.Write, breachData.go, outletTS.go).
THEOREM BFileSaysWhatWasAsked == EditsSpec => []FileSaysWhatWasAsked
  <1>1. EditsInv => FileSaysWhatWasAsked
    BY DEF EditsInv, FileSaysWhatWasAsked
  <1>2. QED
    BY <1>1, EditsInvariant, PTL

\* A manifest whose reader panicked had asked for skip-dss on a file that ended in
\* a newline, or had rewritten a series without values (rowIsNotAHeader).
THEOREM ReaderPanicsForACause == EditsSpec => []PanicHasACause
  <1>1. EditsInv => PanicHasACause
    <2>1. SUFFICES ASSUME EditsInv, outcome = "panic" PROVE PanicHasACause
      BY DEF PanicHasACause
    <2>2. ~Clean(want) /\ DOMAIN want.outlets = 1 .. Len(want.outlets)
      BY <2>1, WantIs DEF EditsInv
    <2>3. QED
      BY <2>2 DEF Clean, PanicHasACause
  <1>2. QED
    BY <1>1, EditsInvariant, PTL

\* No row of a b-file gets more of the cells that are modelled than a full row of
\* pairs has, whatever its edits; the other cells of a structure's first row are
\* left out of the model.
THEOREM EditsTypesAreCorrect == EditsSpec => []EditsTypeOK
  <1>1. EditsInv => EditsTypeOK
    <2>1. SUFFICES ASSUME EditsInv PROVE EditsTypeOK
      OBVIOUS
    <2>2. want \in Wants /\ want.skip \in {"no", "next row", "after an empty line"}
      BY <2>1, WantIs DEF EditsInv
    <2>3. file \in Seq(Rows)
      BY <2>1, <2>2, RenderParts DEF EditsInv
    <2>4. ASSUME NEW i \in DOMAIN file
          PROVE  /\ file[i].k \in {"header", "row", "blank", "end"}
                 /\ file[i].k = "row" => Len(file[i].cells) \in 1 .. 2 * PerRow
      <3>1. file[i] \in Rows
        BY <2>3, <2>4, LenProperties, ElementOfSeq
      <3>2. file[i] \in CellRows \/ file[i] \in Heads \cup SkipHeads \/ file[i] = EndOfFlow \/ file[i] = Blank
        BY <3>1 DEF Rows, LaidOut
      <3>3. "row" # "header" /\ "row" # "end" /\ "row" # "blank"
        OBVIOUS
      <3>4. QED
        BY <3>2, <3>3, RowsAre
    <2>5. QED
      BY <2>1, <2>2, <2>4 DEF EditsTypeOK, EditsInv
  <1>2. QED
    BY <1>1, EditsInvariant, PTL

\* Writing the file of the data once an outlet has other flows.
LEMMA OutletIsPut ==
  ASSUME NEW w \in Wants, Clean(w), NEW pattern, NEW flows \in Seq(Cells),
         OutletWanted(w, pattern) # 0,
         Len(flows) = Len(w.outlets[OutletWanted(w, pattern)].series)
  PROVE  LET x == WithOutletSeries(w, OutletWanted(w, pattern), flows)
         IN  /\ x \in Wants /\ Clean(x)
             /\ WithOutlet(Render(w), pattern, flows) = Render(Rewritten(x))
  <1> DEFINE o == OutletWanted(w, pattern)
             x == WithOutletSeries(w, o, flows)
             b == BlocksOf(w)
             i == OutletFor(b, pattern)
  <1>1. Read(Render(w)) = b
    BY ReadIsBlocks
  <1>2. o \in 1 .. Len(w.outlets) /\ i = 2 + Len(w.structs) + o
    BY OutletForIs
  <1>3. /\ x \in Wants /\ UpdatedOutlet(b, i, flows) = BlocksOf(x)
        /\ x.skip = w.skip /\ Len(x.outlets) = Len(w.outlets)
        /\ \A j \in 1 .. Len(w.outlets) :
             x.outlets[j] = IF j = o THEN WithSeries(w.outlets[o], flows) ELSE w.outlets[j]
    BY <1>2, OutletSeriesIs, UpdatedIs
  <1>4. Clean(x)
    <2>1. \A y : WithSeries(y, flows).emptyLine = y.emptyLine
      BY DEF WithSeries
    <2>2. QED
      BY <1>2, <1>3, <2>1 DEF Clean
  <1> HIDE DEF x, b
  <1>5. Write(BlocksOf(x)) = Render(Rewritten(x))
    BY <1>3, <1>4, WriteIsRendered
  <1>6. WithOutlet(Render(w), pattern, flows) = Write(UpdatedOutlet(b, i, flows))
    BY <1>1 DEF WithOutlet
  <1>7. QED
    BY <1>3, <1>4, <1>5, <1>6 DEF x

\* Writing the file of the data once every result has been applied.
LEMMA ResultsArePut ==
  ASSUME NEW w \in Wants, Clean(w), NEW results \in Seq(Results)
  PROVE  /\ Clean(AfterAll(w, results))
         /\ Breached(Render(w), results) = Render(Rewritten(AfterAll(w, results)))
  <1> DEFINE x == AfterAll(w, results)
  <1>1. /\ x \in Wants /\ x.outlets = w.outlets /\ x.skip = w.skip
        /\ AmendAll(BlocksOf(w), results) = BlocksOf(x)
    BY ResultsAreApplied
  <1>2. Clean(x)
    BY <1>1 DEF Clean
  <1> HIDE DEF x
  <1>3. Write(BlocksOf(x)) = Render(Rewritten(x))
    BY <1>1, <1>2, WriteIsRendered
  <1>4. Breached(Render(w), results) = Write(AmendAll(BlocksOf(w), results))
    BY ReadIsBlocks DEF Breached
  <1>5. QED
    BY <1>1, <1>2, <1>3, <1>4 DEF x

\* Rewriting leaves data clean as long as no series is empty, and finds the same
\* outlet for a pattern.
LEMMA RewrittenStaysClean ==
  ASSUME NEW w \in Wants, Clean(w), \A j \in 1 .. Len(w.outlets) : w.outlets[j].series # <<>>
  PROVE  Clean(Rewritten(w))
  <1>1. /\ Rewritten(w).skip = w.skip /\ Len(Rewritten(w).outlets) = Len(w.outlets)
        /\ \A i \in 1 .. Len(w.outlets) : Rewritten(w).outlets[i] = Again(w.outlets[i])
    BY RewrittenIs
  <1>2. \A i \in 1 .. Len(w.outlets) : w.outlets[i] \in Outlet
    BY WantIs
  <1>3. \A i \in 1 .. Len(w.outlets) : ~Again(w.outlets[i]).emptyLine
    BY <1>2, AgainIs DEF Clean
  <1>4. QED
    BY <1>1, <1>3 DEF Clean

LEMMA SameOutletIsWanted ==
  ASSUME NEW w, NEW x, NEW pattern, Len(x.outlets) = Len(w.outlets),
         \A i \in 1 .. Len(w.outlets) : x.outlets[i].name = w.outlets[i].name
  PROVE  OutletWanted(x, pattern) = OutletWanted(w, pattern)
  <1> DEFINE names == NamesWith[pattern]
             a == {i \in 1 .. Len(w.outlets) : w.outlets[i].name \in names}
             b == {i \in 1 .. Len(x.outlets) : x.outlets[i].name \in names}
  <1>1. a = b
    OBVIOUS
  <1>2. OutletWanted(w, pattern) = IF a = {} THEN 0 ELSE Min(a)
    BY DEF OutletWanted, SelectInSeq
  <1>3. OutletWanted(x, pattern) = IF b = {} THEN 0 ELSE Min(b)
    BY DEF OutletWanted, SelectInSeq
  <1> HIDE DEF a, b
  <1>4. QED
    BY <1>1, <1>2, <1>3

LEMMA EmptyIsNone ==
  ASSUME NEW S, NEW s \in Seq(S), NEW t \in Seq(S), Len(s) = Len(t)
  PROVE  s = <<>> <=> t = <<>>
  OBVIOUS

\* Flows that are put in and written twice, or put in late and written once.
LEMMA FlowsSettle ==
  ASSUME NEW o \in Outlet, NEW flows \in Seq(Cells), Len(flows) = Len(o.series),
         \A p \in DOMAIN flows : Reformat[Reformat[flows[p]]] = Reformat[flows[p]]
  PROVE  Again(WithSeries(Again(o), flows)) = Again(Again(WithSeries(o, flows)))
  <1> DEFINE P == Cells \X Cells
             s == o.series
             n == Len(s)
             rs == Reformatted(s)
             late == WithFlows(rs, flows)
             l == Reformatted(late)
             early == WithFlows(s, flows)
             re == Reformatted(early)
             e == Reformatted(re)
  <1>1. s \in Seq(P)
    BY OutletParts
  <1>2. rs \in Seq(P) /\ Len(rs) = n /\ \A p \in 1 .. n : rs[p] = <<Reformat[s[p][1]], Reformat[s[p][2]]>>
    BY <1>1, ReformattedIs
  <1>3. late \in Seq(P) /\ Len(late) = n /\ \A p \in 1 .. n : late[p] = <<rs[p][1], flows[p]>>
    BY <1>2, FlowsAre
  <1>4. early \in Seq(P) /\ Len(early) = n /\ \A p \in 1 .. n : early[p] = <<s[p][1], flows[p]>>
    BY <1>1, FlowsAre
  <1> HIDE DEF late, early
  <1>5. l \in Seq(P) /\ Len(l) = n /\ \A p \in 1 .. n : l[p] = <<Reformat[late[p][1]], Reformat[late[p][2]]>>
    BY <1>3, ReformattedIs
  <1>6. re \in Seq(P) /\ Len(re) = n /\ \A p \in 1 .. n : re[p] = <<Reformat[early[p][1]], Reformat[early[p][2]]>>
    BY <1>4, ReformattedIs
  <1> HIDE DEF re
  <1>7. e \in Seq(P) /\ Len(e) = n /\ \A p \in 1 .. n : e[p] = <<Reformat[re[p][1]], Reformat[re[p][2]]>>
    BY <1>6, ReformattedIs
  <1>8. DOMAIN flows = 1 .. n
    BY LenProperties
  <1> HIDE DEF s, n, rs, l, e
  <1>9. ASSUME NEW p \in 1 .. n PROVE l[p] = e[p]
    <2>1. l[p] = <<Reformat[Reformat[s[p][1]]], Reformat[flows[p]]>>
      BY <1>2, <1>3, <1>5
    <2>2. e[p] = <<Reformat[Reformat[s[p][1]]], Reformat[Reformat[flows[p]]]>>
      BY <1>4, <1>6, <1>7
    <2>3. Reformat[Reformat[flows[p]]] = Reformat[flows[p]]
      BY <1>8
    <2>4. QED
      BY <2>1, <2>2, <2>3
  <1>10. l = e
    BY <1>5, <1>7, <1>9, SeqEqual
  <1>11. /\ s = <<>> <=> early = <<>>
         /\ s = <<>> <=> late = <<>>
         /\ s = <<>> <=> re = <<>>
    <2> HIDE DEF P
    <2>1. Len(early) = Len(s) /\ Len(late) = Len(s) /\ Len(re) = Len(s)
      BY <1>3, <1>4, <1>6 DEF n
    <2>2. QED
      BY <1>1, <1>3, <1>4, <1>6, <2>1, EmptyIsNone
  <1>12. Again(WithSeries(Again(o), flows)) =
           [name |-> o.name, series |-> l,
            emptyLine |-> (o.emptyLine \/ s = <<>>) \/ late = <<>>]
    BY DEF Again, WithSeries, s, rs, late, l
  <1>13. Again(Again(WithSeries(o, flows))) =
           [name |-> o.name, series |-> e,
            emptyLine |-> (o.emptyLine \/ early = <<>>) \/ re = <<>>]
    BY DEF Again, WithSeries, s, early, re, e
  <1>14. ((o.emptyLine \/ s = <<>>) \/ late = <<>>) = ((o.emptyLine \/ early = <<>>) \/ re = <<>>)
    BY <1>11
  <1>15. QED
    BY <1>10, <1>12, <1>13, <1>14

\* What the file says does not depend on which of the two actions came first.
LEMMA OrderDoesNotMatter ==
  ASSUME NEW w \in Wants, Clean(w), \A j \in 1 .. Len(w.outlets) : w.outlets[j].series # <<>>,
         NEW results \in Seq(Results), NEW pattern, NEW flows \in Seq(Cells),
         OutletWanted(w, pattern) # 0,
         Len(flows) = Len(w.outlets[OutletWanted(w, pattern)].series),
         \A p \in DOMAIN flows : Reformat[Reformat[flows[p]]] = Reformat[flows[p]]
  PROVE  LET breachFirst == Breached(Render(w), results)
             outletFirst == WithOutlet(Render(w), pattern, flows)
         IN  /\ ~ReadPanics(breachFirst)
             /\ ~ReadPanics(outletFirst)
             /\ WithOutlet(breachFirst, pattern, flows) = Breached(outletFirst, results)
  <1> DEFINE o == OutletWanted(w, pattern)
             m == Len(w.outlets)
             v == AfterAll(w, results)
             rv == Rewritten(v)
             x == WithOutletSeries(w, o, flows)
             rx == Rewritten(x)
             y == WithOutletSeries(rv, o, flows)
             z == AfterAll(rx, results)
  <1>1. o \in 1 .. m /\ \A i \in 1 .. m : w.outlets[i] \in Outlet
    BY OutletForIs, WantIs
  <1>2. v \in Wants /\ v.outlets = w.outlets /\ v.skip = w.skip
    BY ResultsAreApplied
  <1>3. Clean(v) /\ Breached(Render(w), results) = Render(rv)
    BY ResultsArePut
  <1>4. /\ rv \in Wants /\ rv.structs = v.structs /\ rv.skip = w.skip /\ Len(rv.outlets) = m
        /\ \A i \in 1 .. m : rv.outlets[i] = Again(w.outlets[i])
    BY <1>2, RewrittenIs
  <1>5. Clean(rv)
    BY <1>2, <1>3, RewrittenStaysClean
  <1>6. /\ x \in Wants /\ Clean(x)
        /\ WithOutlet(Render(w), pattern, flows) = Render(rx)
    BY OutletIsPut
  <1>7. /\ x.structs = w.structs /\ x.skip = w.skip /\ Len(x.outlets) = m
        /\ \A j \in 1 .. m : x.outlets[j] = IF j = o THEN WithSeries(w.outlets[o], flows) ELSE w.outlets[j]
    BY <1>1, OutletSeriesIs
  <1>8. \A j \in 1 .. m : x.outlets[j].series # <<>>
    <2>1. ASSUME NEW j \in 1 .. m PROVE x.outlets[j].series # <<>>
      <3>1. CASE j = o
        <4>1. w.outlets[o].series \in Seq(Cells \X Cells) /\ w.outlets[o].series # <<>>
          BY <1>1, OutletParts
        <4>2. /\ WithFlows(w.outlets[o].series, flows) \in Seq(Cells \X Cells)
              /\ Len(WithFlows(w.outlets[o].series, flows)) = Len(w.outlets[o].series)
          BY <4>1, FlowsAre
        <4>3. WithFlows(w.outlets[o].series, flows) # <<>>
          BY <4>1, <4>2, EmptyIsNone
        <4>4. x.outlets[j].series = WithFlows(w.outlets[o].series, flows)
          BY <1>7, <3>1 DEF WithSeries
        <4>5. QED
          BY <4>3, <4>4
      <3>2. CASE j # o
        BY <1>7, <3>2
      <3>3. QED
        BY <3>1, <3>2
    <2>2. QED
      BY <2>1
  <1> HIDE DEF o
  <1>9. Clean(rx)
    <2> HIDE DEF x, m
    <2>1. QED
      BY <1>6, <1>7, <1>8, RewrittenStaysClean
  <1>10. /\ rx \in Wants /\ rx.structs = w.structs /\ rx.skip = w.skip /\ Len(rx.outlets) = m
         /\ \A i \in 1 .. m : rx.outlets[i] = Again(x.outlets[i])
    <2> HIDE DEF x, m
    <2>1. QED
      BY <1>6, <1>7, RewrittenIs
  <1>11. OutletWanted(rv, pattern) = o /\ Len(flows) = Len(rv.outlets[o].series)
    <2>1. \A i \in 1 .. m : rv.outlets[i].name = w.outlets[i].name
      BY <1>1, <1>4, AgainIs
    <2>2. OutletWanted(rv, pattern) = o
      BY <1>4, <2>1, SameOutletIsWanted DEF o
    <2>3. Len(Again(w.outlets[o]).series) = Len(w.outlets[o].series)
      BY <1>1, AgainIs
    <2>4. QED
      BY <1>1, <1>4, <2>2, <2>3 DEF o
  <1>12. WithOutlet(Render(rv), pattern, flows) = Render(Rewritten(y)) /\ y \in Wants
    <2>1. OutletWanted(rv, pattern) # 0
      BY <1>11 DEF o
    <2> HIDE DEF rv
    <2>2. QED
      BY <1>4, <1>5, <1>11, <2>1, OutletIsPut
  <1>13. /\ y.structs = v.structs /\ y.skip = w.skip /\ Len(y.outlets) = m
         /\ \A j \in 1 .. m : y.outlets[j] = IF j = o THEN WithSeries(rv.outlets[o], flows) ELSE rv.outlets[j]
    <2>1. o \in 1 .. Len(rv.outlets)
      BY <1>1, <1>4
    <2> HIDE DEF rv, m
    <2>2. QED
      BY <1>4, <1>11, <2>1, OutletSeriesIs
  <1>14. Breached(Render(rx), results) = Render(Rewritten(z))
    <2> HIDE DEF rx
    <2>1. QED
      BY <1>9, <1>10, ResultsArePut
  <1>15. z \in Wants /\ z.outlets = rx.outlets /\ z.skip = w.skip /\ z.structs = v.structs
    <2> HIDE DEF rx
    <2>1. QED
      BY <1>10, ResultsAreApplied
  <1> HIDE DEF m, v, rv, x, rx, y, z
  <1>16. ASSUME NEW i \in 1 .. m PROVE Again(y.outlets[i]) = Again(z.outlets[i])
    <2>1. CASE i = o
      <3>1. y.outlets[i] = WithSeries(Again(w.outlets[o]), flows)
        BY <1>1, <1>4, <1>13, <2>1
      <3>2. z.outlets[i] = Again(WithSeries(w.outlets[o], flows))
        BY <1>1, <1>7, <1>10, <1>15, <2>1
      <3>3. w.outlets[o] \in Outlet /\ Len(flows) = Len(w.outlets[o].series)
        BY <1>1 DEF o
      <3>4. QED
        BY <3>1, <3>2, <3>3, FlowsSettle
    <2>2. CASE i # o
      BY <1>4, <1>7, <1>10, <1>13, <1>15, <2>2
    <2>3. QED
      BY <2>1, <2>2
  <1>17. Rewritten(y) = Rewritten(z)
    <2>1. /\ Rewritten(y) = [structs |-> y.structs, skip |-> y.skip,
                             outlets |-> [i \in 1 .. Len(y.outlets) |-> Again(y.outlets[i])]]
          /\ Rewritten(z) = [structs |-> z.structs, skip |-> z.skip,
                             outlets |-> [i \in 1 .. Len(z.outlets) |-> Again(z.outlets[i])]]
      BY <1>12, <1>15, RewrittenIs
    <2>2. Len(y.outlets) = m /\ Len(z.outlets) = m
      BY <1>10, <1>13, <1>15
    <2>3. [i \in 1 .. Len(y.outlets) |-> Again(y.outlets[i])] = [i \in 1 .. Len(z.outlets) |-> Again(z.outlets[i])]
      BY <1>16, <2>2
    <2>4. y.structs = z.structs /\ y.skip = z.skip
      BY <1>13, <1>15
    <2>5. QED
      BY <2>1, <2>3, <2>4
  <1>18. ~ReadPanics(Render(rv)) /\ ~ReadPanics(Render(rx))
    BY <1>4, <1>5, <1>9, <1>10, BlankIsNotClean
  <1>19. QED
    BY <1>3, <1>6, <1>12, <1>14, <1>17, <1>18

\* Of update-breach-data and update-outlet-ts in one manifest it does not matter
\* which comes first, and neither leaves a file the other cannot read, as long as
\* no series is empty and the flows settle when they are written.
THEOREM TheOrderOfEditsDoesNotMatter == EditsSpec => []EditsCommute
  <1>1. EditsInv => EditsCommute
    <2>1. SUFFICES ASSUME EditsInv, NEW results \in Curves, NEW pattern \in Patterns, NEW flows \in Flows,
                          Blank \notin {file[j] : j \in DOMAIN file},
                          OutletFor(Read(file), pattern) # 0,
                          \A p \in DOMAIN flows : Reformat[Reformat[flows[p]]] = Reformat[flows[p]],
                          Len(flows) = Len(Read(file)[OutletFor(Read(file), pattern)].series),
                          \A j \in DOMAIN want.outlets : want.outlets[j].series # <<>>
                   PROVE  LET breachFirst == Breached(file, results)
                              outletFirst == WithOutlet(file, pattern, flows)
                          IN  /\ ~ReadPanics(breachFirst)
                              /\ ~ReadPanics(outletFirst)
                              /\ WithOutlet(breachFirst, pattern, flows) = Breached(outletFirst, results)
      BY DEF EditsCommute
    <2>2. want \in Wants /\ file = Render(want) /\ results \in Seq(Results) /\ flows \in Seq(Cells)
      BY <2>1, InputsAssumption DEF EditsInv, Results
    <2>3. Clean(want)
      <3>1. file \in Seq(Rows) /\ DOMAIN file = 1 .. Len(file)
        BY <2>2, RenderParts, LenProperties
      <3>2. ~HasBlank(file)
        BY <2>1, <3>1 DEF HasBlank
      <3>3. QED
        BY <2>2, <3>2, BlankIsNotClean
    <2>4. Read(file) = BlocksOf(want)
      BY <2>2, <2>3, ReadIsBlocks
    <2> DEFINE o == OutletWanted(want, pattern)
               i == OutletFor(BlocksOf(want), pattern)
    <2>5. o # 0 /\ BlocksOf(want)[i] = OutletBlockOf(want.outlets[o])
      BY <2>1, <2>2, <2>4, OutletForIs
    <2>6. Len(flows) = Len(want.outlets[o].series)
      BY <2>1, <2>4, <2>5 DEF OutletBlockOf
    <2>7. \A j \in 1 .. Len(want.outlets) : want.outlets[j].series # <<>>
      BY <2>1, <2>2, WantIs
    <2>8. QED
      BY <2>1, <2>2, <2>3, <2>5, <2>6, <2>7, OrderDoesNotMatter
  <1>2. QED
    BY <1>1, EditsInvariant, PTL

=============================================================================
