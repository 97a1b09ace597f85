-------------------------------- MODULE BFile -------------------------------
(***************************************************************************)
(* The b-file of RAS and its reader and writer (package ras: bFile.go,      *)
(* breachData.go, outletTS.go).  A file is a sequence of rows; a row that    *)
(* starts with a letter is a header and starts a block.  The reader knows   *)
(* the breach block, which it splits into structures by counting rows, and  *)
(* the outlet time series; every other block is kept as it is.              *)
(*                                                                          *)
(* A cell is a number that stands for the eight characters RAS puts there.  *)
(* Of the first row of a structure the cells that are read are kept: the    *)
(* SNN id, the breach method (column 9) and mass wasting (column 13).       *)
(***************************************************************************)
EXTENDS Integers, Sequences, SequencesExt

CONSTANTS
  Cells,     \* the numbers a cell can stand for
  Reformat   \* what a cell of a time series reads once parsed as a float32 and
             \* written by convertFloatToBfileCellValue, a function on cells

ASSUME ReformatAssumption ==
  /\ Cells \subseteq Int
  /\ Reformat \in [Cells -> Cells]

-----------------------------------------------------------------------------
Header(of, name) == [k |-> "header", of |-> of, name |-> name]
Row(cells) == [k |-> "row", cells |-> cells]
Blank == [k |-> "blank"]          \* an empty line
EndOfFlow == [k |-> "end"]        \* " 3.4E+38"

\* Five pairs of numbers go in a row.
PerRow == 5

\* mutant: a partial row of ordinates is not counted
StoredRows_Full(n) == n \div PerRow

\* The number of rows n stored ordinates take.
StoredRows(n) == n \div PerRow + (IF n % PerRow # 0 THEN 1 ELSE 0)

-----------------------------------------------------------------------------
(* The structures of a breach block.  In "rows" the count comes first. *)

Wasting(rows, first) == rows[first].cells[3] = 1
Method1(rows, first) == rows[first].cells[2] = 1

\* The rows of a structure up to the number of progression ordinates: mass
\* wasting adds one.
FixedRows(rows, first) == IF Wasting(rows, first) THEN 5 ELSE 4

\* The row of the structure that starts with the failure elevation.
ElevationRow(rows, first) == IF Wasting(rows, first) THEN 4 ELSE 3

NumRows(rows, first) ==
  LET fixed == FixedRows(rows, first)
      progression == StoredRows(rows[first + fixed - 1].cells[1])
      downcutting == first + fixed + progression
  IN  fixed + progression
        + (IF Method1(rows, first) THEN 1 + StoredRows(rows[downcutting].cells[1]) ELSE 0)

BreachBlock(rows, first) ==
  LET taken == SubSeq(rows, first, first + NumRows(rows, first) - 1)
  IN  [k |-> "breach", snet |-> taken[1].cells[1],
       elevRow |-> ElevationRow(rows, first), rows |-> taken]

DefaultBlock(rows) == [k |-> "default", rows |-> rows]

\* A block headed "Breach Data": its header and count stay as they are; what
\* follows the last counted structure is dropped.
BreachBlocks(block) ==
  LET rows == Tail(block)
      count == rows[1].cells[1]
      first[i \in 1 .. count] ==
        IF i = 1 THEN 2 ELSE first[i - 1] + NumRows(rows, first[i - 1])
  IN  <<DefaultBlock(SubSeq(block, 1, 2))>>
        \o [i \in 1 .. count |-> BreachBlock(rows, first[i])]

-----------------------------------------------------------------------------
(* The outlet time series. *)

\* The p-th pair of the rows, which hold PerRow pairs each.
PairAt(rows, p) ==
  LET r == (p - 1) \div PerRow + 1
      c == 2 * ((p - 1) % PerRow)
  IN  IF r \in DOMAIN rows /\ c + 2 <= Len(rows[r].cells)
      THEN <<rows[r].cells[c + 1], rows[r].cells[c + 2]>>
      ELSE <<0, 0>>

\* A block headed "Outlet TS - ": a count, rows of pairs, and from the end of flow
\* on, rows that are kept as they are.
OutletBlock(block) ==
  LET rows == SubSeq(block, 3, Len(block))
      flow == SelectInSeq(rows, LAMBDA row : row = EndOfFlow)
      data == IF flow = 0 THEN rows ELSE SubSeq(rows, 1, flow - 1)
      count == block[2].cells[1]
  IN  [k |-> "outlet", name |-> block[1].name, count |-> count,
       series |-> [p \in 1 .. count |-> PairAt(data, p)],
       extra |-> IF flow = 0 THEN <<>> ELSE SubSeq(rows, flow, Len(rows))]

SmallerOf(a, b) == IF a < b THEN a ELSE b

\* mutant: six pairs in a row
PairRows_Six(series) ==
  [r \in 1 .. (Len(series) + 5) \div 6 |->
    Row(FlattenSeq(SubSeq(series, 6 * r - 5, SmallerOf(6 * r, Len(series)))))]

\* mutant: a full row is followed by an empty line
PairRows_Extra(series) ==
  [r \in 1 .. Len(series) \div PerRow + 1 |->
    LET pairs == SubSeq(series, PerRow * (r - 1) + 1, SmallerOf(PerRow * r, Len(series)))
    IN  IF pairs = <<>> THEN Blank ELSE Row(FlattenSeq(pairs))]

\* The rows a series is written to: an empty one leaves an empty line.
PairRows(series) ==
  IF series = <<>> THEN <<Blank>>
  ELSE [r \in 1 .. StoredRows(Len(series)) |->
         Row(FlattenSeq(SubSeq(series, PerRow * (r - 1) + 1,
                               SmallerOf(PerRow * r, Len(series)))))]

Reformatted(series) ==
  [p \in DOMAIN series |-> <<Reformat[series[p][1]], Reformat[series[p][2]]>>]

-----------------------------------------------------------------------------
(* Reading and writing a file. *)

\* rowIsNotAHeader indexes the first character of every row but the first.
ReadPanics(file) == \E i \in 2 .. Len(file) : file[i] = Blank

\* Every header starts a block, and so does the first row.
SplitIntoBlocks(file) ==
  FoldLeft(LAMBDA blocks, row :
             IF blocks = <<>> \/ row.k = "header"
             THEN Append(blocks, <<row>>)
             ELSE [blocks EXCEPT ![Len(blocks)] = Append(@, row)],
           <<>>, file)

ParseBlock(block) ==
  CASE block[1].k = "header" /\ block[1].of = "breach" -> BreachBlocks(block)
    [] block[1].k = "header" /\ block[1].of = "outlet" -> <<OutletBlock(block)>>
    [] OTHER -> <<DefaultBlock(block)>>

\* readBFile, when it does not panic.
Read(file) ==
  LET blocks == SplitIntoBlocks(file)
  IN  FlattenSeq([i \in DOMAIN blocks |-> ParseBlock(blocks[i])])

ToRows(block) ==
  IF block.k = "outlet"
  THEN <<Header("outlet", block.name), Row(<<block.count>>)>>
         \o PairRows(Reformatted(block.series)) \o block.extra
  ELSE block.rows

\* Bfile.Write.
Write(blocks) == FlattenSeq([i \in DOMAIN blocks |-> ToRows(blocks[i])])

-----------------------------------------------------------------------------
(* Editing what was read. *)

\* AmmendBreachElevations: the first structure with the id, if there is one.
Amended(blocks, snet, cell) ==
  LET i == SelectInSeq(blocks, LAMBDA b : b.k = "breach" /\ b.snet = snet)
  IN  IF i = 0 THEN blocks
      ELSE [blocks EXCEPT ![i].rows[blocks[i].elevRow].cells[1] = cell]

WithFlows(series, flows) ==
  [p \in DOMAIN series |-> <<series[p][1], flows[p]>>]

=============================================================================
